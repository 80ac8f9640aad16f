----------------------------- MODULE CampusProofs -----------------------------
(***************************************************************************)
(* Campus, for any number of rows and overlapping requests: rows keep the  *)
(* shape of their tables, an administrator is left, nobody is in two places*)
(* at a time, there is one active year with one active term, numbers are   *)
(* given once, a stale edit is refused, rows that belong together agree,   *)
(* what is final stays so, a completed registration is answered, beds exist*)
(* and nobody is moved into a place that overflows.  Each part has an      *)
(* inductive invariant of its own (DirectoryInv, WeekInv, BooksInv,        *)
(* CalendarInv, RegistersInv, BoardingInv).                                *)
(***************************************************************************)
EXTENDS Campus, Sequences, Sums, FiniteSetTheorems, TLAPS

-----------------------------------------------------------------------------
(* Platform administrators                                                 *)

Removing(d) == desk[d].op \in Directory!Removals
Left(a) == Directory!Active \ {a} # {}

\* Until two removals are in flight at once there is at most one, and once it has
\* counted, somebody is left beside the administrator it removes.
DirectoryInv ==
    /\ admin \in [Admins -> [row : {"none", "live", "deleted"}, active : BOOLEAN]]
    /\ desk \in [Reqs -> [op : Directory!Removals \cup {"none", "activate"}, target : Admins \cup {None},
                          was : BOOLEAN, step : {"none", "count", "commit"}]]
    /\ pressed \in BOOLEAN
    /\ \A d \in Reqs : desk[d].step # "none" => desk[d].target \in Admins /\ desk[d].op # "none"
    /\ ~pressed =>
          /\ Directory!Active # {}
          /\ \A d, e \in Reqs : Removing(d) /\ Removing(e) => d = e
          /\ \A d \in Reqs : Removing(d) /\ desk[d].step = "commit" => Left(desk[d].target)

DirectoryHolds == part = "directory" => DirectoryInv

LEMMA DirectoryInvariant == Spec => []DirectoryHolds
<1> DEFINE Inv == DirectoryHolds
<1>1. Init => Inv
    <2> SUFFICES ASSUME Directory!Init PROVE DirectoryInv
        BY DEF Init, DirectoryHolds
    <2>1. PICK first \in Admins :
              admin = [a \in Admins |-> [row |-> IF a = first THEN "live" ELSE "none", active |-> a = first]]
        BY DEF Directory!Init
    <2>2. admin \in [Admins -> [row : {"none", "live", "deleted"}, active : BOOLEAN]]
        BY <2>1
    <2>3. first \in Directory!Active
        BY <2>1 DEF Directory!Active
    <2> QED BY <2>2, <2>3 DEF Directory!Init, DirectoryInv, Removing, Directory!NoRequest, Directory!Removals
<1>2. ASSUME DirectoryInv, Directory!Next PROVE DirectoryInv'
    <2> USE <1>2 DEF DirectoryInv
    <2>1. ASSUME NEW a \in Admins, Directory!CreateAdmin(a) PROVE DirectoryInv'
        BY <2>1 DEF Directory!CreateAdmin, Removing, Left, Directory!Active
    <2>2. ASSUME NEW d \in Reqs, NEW actor \in Admins, NEW target \in Admins,
                 NEW op \in Directory!Removals \cup {"activate"}, Directory!Load(d, actor, op, target)
          PROVE  DirectoryInv'
        BY <2>2 DEF Directory!Load, Directory!NoRequest, Directory!Removals, Removing, Left, Directory!Active
    <2>3. ASSUME NEW d \in Reqs, Directory!Count(d) PROVE DirectoryInv'
        BY <2>3 DEF Directory!Count, Directory!MoreThanOne, Removing, Left, Directory!Active
    <2>4. ASSUME NEW d \in Reqs, Directory!Commit(d) PROVE DirectoryInv'
        <3> DEFINE t == desk[d].target
        <3>1. t \in Admins /\ desk[d].op # "none"
            BY <2>4 DEF Directory!Commit
        <3>2. admin' \in [Admins -> [row : {"none", "live", "deleted"}, active : BOOLEAN]]
            <4> DEFINE on == IF (desk[d].op = "activate") = desk[d].was
                             THEN admin[t].active ELSE desk[d].op = "activate"
                       row == IF desk[d].op = "delete" THEN "deleted" ELSE admin[t].row
            <4>1. admin' = [admin EXCEPT ![t].active = on, ![t].row = row]
                BY <2>4 DEF Directory!Commit
            <4>2. on \in BOOLEAN /\ row \in {"none", "live", "deleted"}
                BY <3>1
            <4> HIDE DEF on, row
            <4> QED BY <3>1, <4>1, <4>2
        <3>3. \A a \in Admins \ {t} : admin'[a] = admin[a]
            BY <2>4, <3>1 DEF Directory!Commit
        <3>4. ~Removing(d) => admin'[t].row = admin[t].row /\ (admin[t].active => admin'[t].active)
            <4> SUFFICES ASSUME ~Removing(d)
                         PROVE  admin'[t].row = admin[t].row /\ (admin[t].active => admin'[t].active)
                OBVIOUS
            <4>1. desk[d].op = "activate"
                BY <3>1 DEF Removing
            <4>2. admin'[t].row = admin[t].row
                BY <2>4, <3>1, <4>1 DEF Directory!Commit
            <4>3. CASE desk[d].was = TRUE
                BY <2>4, <3>1, <4>1, <4>2, <4>3 DEF Directory!Commit
            <4>4. CASE desk[d].was = FALSE
                BY <2>4, <3>1, <4>1, <4>2, <4>4 DEF Directory!Commit
            <4> QED BY <4>3, <4>4
        <3>5. Directory!Active \ {t} \subseteq Directory!Active'
            BY <3>3 DEF Directory!Active
        <3>6. ~Removing(d) => Directory!Active \subseteq Directory!Active'
            BY <3>3, <3>4 DEF Directory!Active
        <3>7. desk' = [desk EXCEPT ![d] = Directory!NoRequest] /\ pressed' = pressed
            BY <2>4 DEF Directory!Commit, Directory!Close
        <3>8. \A e \in Reqs : e # d => desk'[e] = desk[e] /\ Removing(e)' = Removing(e)
            BY <3>7 DEF Removing
        <3>9. desk'[d].op = "none" /\ desk'[d].step = "none" /\ ~Removing(d)'
            BY <3>7 DEF Directory!NoRequest, Directory!Removals, Removing
        <3>10. desk' \in [Reqs -> [op : Directory!Removals \cup {"none", "activate"}, target : Admins \cup {None},
                                   was : BOOLEAN, step : {"none", "count", "commit"}]]
            BY <3>7 DEF Directory!NoRequest
        <3>11. ASSUME ~pressed PROVE Directory!Active' # {}
            BY <2>4, <3>5, <3>6, <3>11 DEF Left, Directory!Commit
        <3>12. ASSUME ~pressed, NEW e \in Reqs, e # d, Removing(e), desk[e].step = "commit"
               PROVE  Left(desk[e].target)'
            <4>1. ~Removing(d)
                BY <3>12
            <4>2. Left(desk[e].target)
                BY <3>12
            <4> QED BY <3>6, <3>8, <3>12, <4>1, <4>2 DEF Left
        <3> QED BY <3>2, <3>7, <3>8, <3>9, <3>10, <3>11, <3>12
    <2>5. ASSUME NEW d \in Reqs, Directory!Abandon(d) PROVE DirectoryInv'
        BY <2>5 DEF Directory!Abandon, Directory!Close, Directory!NoRequest, Directory!Removals, Removing, Left,
                    Directory!Active
    <2> QED BY <2>1, <2>2, <2>3, <2>4, <2>5 DEF Directory!Next, Directory!Known
<1>3. ASSUME DirectoryInv, UNCHANGED <<admin, desk, pressed>> PROVE DirectoryInv'
    BY <1>3 DEF DirectoryInv, Removing, Left, Directory!Active
<1>4. Inv /\ [Next]_campus => Inv'
    BY <1>2, <1>3 DEF Next, campus, directory, DirectoryHolds
<1> QED BY <1>1, <1>4, PTL DEF Spec

\* Somebody can always sign in to run the platform: until two removals are in flight
\* at once, the count before a removal leaves one (delete_admin, _active_admin_count).
THEOREM AdministratorStays == Spec => []SomebodyIsLeft
<1>1. DirectoryHolds => SomebodyIsLeft
    BY DEF SomebodyIsLeft, Directory!SomebodyIsLeft, DirectoryInv, DirectoryHolds
<1> QED BY <1>1, DirectoryInvariant, PTL

-----------------------------------------------------------------------------
(* Timetable                                                               *)

Columns == {"from", "to", "class", "stream", "teacher"}
IsRow(l) == DOMAIN l = Columns /\ l.from \in Nat /\ l.to \in Nat

\* Rows and what handlers hold have their columns; a lesson to be changed is there
\* or deleted since.
HoldsRows(p) ==
    /\ DOMAIN p.rows \subseteq Lessons
    /\ \A l \in DOMAIN p.rows : IsRow(p.rows[l])
    /\ p.op = "update" => /\ IsRow(p.seen)
                          /\ \A l \in DOMAIN p.rows : lesson[l] = Gone \/ IsRow(lesson[l])

\* What a handler without company holds fits the lessons kept.
FitsIn(p) ==
    /\ \A l \in DOMAIN p.rows : \A o \in Week!Kept \ {l} : ~Week!Clash(p.rows[l], lesson[o])
    /\ p.op = "enter" => \A l, o \in DOMAIN p.rows : l # o => ~Week!Clash(p.rows[l], p.rows[o])
    /\ p.op = "update" => \A l, o \in DOMAIN p.rows : l = o
    /\ p.op = "update" => \A l \in DOMAIN p.rows : lesson[l] \in {p.seen, Gone}

WeekInv ==
    /\ lesson = [l \in Lessons |-> lesson[l]] /\ plan = [q \in Reqs |-> plan[q]]
    /\ \A l \in Week!Kept : IsRow(lesson[l])
    /\ \A q \in Reqs : /\ DOMAIN plan[q] = {"op", "rows", "seen", "met"}
                       /\ plan[q].op \in {"none", "enter", "update"}
                       /\ plan[q].op = "none" => plan[q] = Week!Nothing
                       /\ HoldsRows(plan[q])
                       /\ plan[q] # Week!Nothing /\ ~plan[q].met => FitsIn(plan[q])
    /\ \A q, x \in Reqs : (q # x /\ plan[q] # Week!Nothing /\ plan[x] # Week!Nothing) => plan[q].met
    /\ Week!NobodyInTwoPlaces

\* Clashing does not depend on the order, nor on how the same columns came about.
LEMMA ClashFacts ==
    ASSUME NEW a, NEW b, IsRow(a), IsRow(b)
    PROVE  /\ Week!Clash(a, b) => Week!Clash(b, a)
           /\ \A c : (IsRow(c) /\ \A f \in Columns : c[f] = a[f]) => (Week!Clash(c, b) <=> Week!Clash(a, b))
BY DEF IsRow, Columns, Week!Clash, Week!TimesOverlap, Week!SameClass

LEMMA MergeFacts ==
    ASSUME NEW now, NEW seen, NEW want, now = Gone \/ IsRow(now), IsRow(seen), IsRow(want)
    PROVE  /\ Week!Merge(now, seen, want) = Gone \/ IsRow(Week!Merge(now, seen, want))
           /\ (now = seen /\ now # Gone) => \A f \in Columns : Week!Merge(now, seen, want)[f] = want[f]
BY DEF IsRow, Columns, Week!Merge

\* What a handler holds is as good as before while lessons stay.
LEMMA SameLessons ==
    ASSUME UNCHANGED <<lesson, contested>>
    PROVE  /\ \A p : (HoldsRows(p)' <=> HoldsRows(p)) /\ (FitsIn(p)' <=> FitsIn(p))
           /\ Week!Kept' = Week!Kept /\ (Week!NobodyInTwoPlaces' <=> Week!NobodyInTwoPlaces)
BY DEF HoldsRows, FitsIn, Week!Kept, Week!NobodyInTwoPlaces, Week!Clash, Week!TimesOverlap, Week!SameClass

\* A commit writes rows, and without company those it was asked for.
LEMMA WrittenFacts ==
    ASSUME WeekInv, NEW q \in Reqs, plan[q].op \in {"enter", "update"}, NEW l \in DOMAIN plan[q].rows
    PROVE  /\ Week!Written(q, l) = Gone \/ IsRow(Week!Written(q, l))
           /\ (~plan[q].met /\ Week!Written(q, l) # Gone) =>
                 \A f \in Columns : Week!Written(q, l)[f] = plan[q].rows[l][f]
<1>1. HoldsRows(plan[q]) /\ plan[q] # Week!Nothing /\ (~plan[q].met => FitsIn(plan[q]))
    BY DEF WeekInv, Week!Nothing
<1>2. CASE plan[q].op = "enter"
    BY <1>1, <1>2 DEF Week!Written, HoldsRows
<1>3. CASE plan[q].op = "update"
    <2>1. /\ Week!Written(q, l) = Week!Merge(lesson[l], plan[q].seen, plan[q].rows[l])
          /\ IsRow(plan[q].seen) /\ IsRow(plan[q].rows[l]) /\ (lesson[l] = Gone \/ IsRow(lesson[l]))
        BY <1>1, <1>3 DEF Week!Written, HoldsRows
    <2>2. ~plan[q].met => lesson[l] \in {plan[q].seen, Gone}
        BY <1>1, <1>3 DEF FitsIn
    <2>3. lesson[l] = Gone => Week!Written(q, l) = Gone
        BY <2>1 DEF Week!Merge
    <2> QED BY <2>1, <2>2, <2>3, MergeFacts
<1> QED BY <1>2, <1>3

\* Opening a handler ends the privacy of the others.
LEMMA OpenStep ==
    ASSUME WeekInv, NEW q \in Reqs, NEW p, Week!Open(q, p),
           DOMAIN p = {"op", "rows", "seen", "met"}, p.op \in {"enter", "update"}, p.met = FALSE,
           HoldsRows(p), FitsIn(p)
    PROVE  WeekInv'
<1> DEFINE busy == {x \in Reqs : plan[x] # Week!Nothing}
           mine == [p EXCEPT !.met = busy # {}]
<1>1. /\ plan[q] = Week!Nothing /\ UNCHANGED <<lesson, contested>>
      /\ plan' = [x \in Reqs |-> CASE x = q -> mine
                                   [] x \in busy -> [plan[x] EXCEPT !.met = TRUE]
                                   [] OTHER -> plan[x]]
    BY DEF Week!Open
<1>2. /\ DOMAIN mine = {"op", "rows", "seen", "met"} /\ mine.op = p.op /\ mine.rows = p.rows
      /\ mine.seen = p.seen /\ mine.met = (busy # {})
    OBVIOUS
<1>3. plan'[q] = mine
    BY <1>1
<1>4. \A x \in Reqs \ {q} : IF plan[x] = Week!Nothing THEN plan'[x] = Week!Nothing
                            ELSE /\ DOMAIN plan'[x] = {"op", "rows", "seen", "met"}
                                 /\ plan'[x].op = plan[x].op /\ plan'[x].rows = plan[x].rows
                                 /\ plan'[x].seen = plan[x].seen /\ plan'[x].met = TRUE
    <2> SUFFICES ASSUME NEW x \in Reqs \ {q}, plan[x] # Week!Nothing
                 PROVE  /\ DOMAIN plan'[x] = {"op", "rows", "seen", "met"}
                        /\ plan'[x].op = plan[x].op /\ plan'[x].rows = plan[x].rows
                        /\ plan'[x].seen = plan[x].seen /\ plan'[x].met = TRUE
        BY <1>1
    <2>1. plan'[x] = [plan[x] EXCEPT !.met = TRUE] /\ DOMAIN plan[x] = {"op", "rows", "seen", "met"}
        BY <1>1 DEF WeekInv
    <2> QED BY <2>1
<1>5. \A p1, p2 : (p1.op = p2.op /\ p1.rows = p2.rows /\ p1.seen = p2.seen) =>
          (HoldsRows(p1)' <=> HoldsRows(p2)) /\ (FitsIn(p1)' <=> FitsIn(p2))
    <2> SUFFICES ASSUME NEW p1, NEW p2, p1.op = p2.op, p1.rows = p2.rows, p1.seen = p2.seen
                 PROVE  (HoldsRows(p1) <=> HoldsRows(p2)) /\ (FitsIn(p1) <=> FitsIn(p2))
        BY <1>1, SameLessons
    <2> QED BY DEF HoldsRows, FitsIn
<1> HIDE DEF mine, busy
<1>6. \A x \in Reqs : /\ DOMAIN plan'[x] = {"op", "rows", "seen", "met"}
                      /\ plan'[x].op \in {"none", "enter", "update"}
                      /\ plan'[x].op = "none" => plan'[x] = Week!Nothing
                      /\ HoldsRows(plan[x])'
                      /\ plan'[x] # Week!Nothing /\ ~plan'[x].met => FitsIn(plan[x])'
    <2> SUFFICES ASSUME NEW x \in Reqs
                 PROVE  /\ DOMAIN plan'[x] = {"op", "rows", "seen", "met"}
                        /\ plan'[x].op \in {"none", "enter", "update"}
                        /\ plan'[x].op = "none" => plan'[x] = Week!Nothing
                        /\ HoldsRows(plan[x])'
                        /\ plan'[x] # Week!Nothing /\ ~plan'[x].met => FitsIn(plan[x])'
        OBVIOUS
    <2>1. CASE x = q
        <3>1. HoldsRows(plan[x])' /\ FitsIn(plan[x])'
            BY <1>2, <1>3, <1>5, <2>1
        <3> QED BY <1>2, <1>3, <2>1, <3>1
    <2>2. CASE x # q /\ plan[x] = Week!Nothing
        <3>1. HoldsRows(plan[x])'
            BY <1>4, <1>5, <2>2 DEF WeekInv
        <3> QED BY <1>4, <2>2, <3>1 DEF WeekInv, Week!Nothing
    <2>3. CASE x # q /\ plan[x] # Week!Nothing
        <3>1. HoldsRows(plan[x])'
            BY <1>4, <1>5, <2>3 DEF WeekInv
        <3> QED BY <1>4, <2>3, <3>1 DEF WeekInv
    <2> QED BY <2>1, <2>2, <2>3
<1>7. \A x, y \in Reqs : (x # y /\ plan'[x] # Week!Nothing /\ plan'[y] # Week!Nothing) => plan'[x].met
    BY <1>2, <1>3, <1>4 DEF WeekInv, busy
<1>8. plan' = [x \in Reqs |-> plan'[x]]
    BY <1>1
<1>9. /\ lesson' = [l \in Lessons |-> lesson'[l]] /\ (\A l \in Week!Kept' : IsRow(lesson'[l]))
      /\ Week!NobodyInTwoPlaces'
    BY <1>1, SameLessons DEF WeekInv
<1> QED BY <1>6, <1>7, <1>8, <1>9 DEF WeekInv

\* A commit enters what fits, and leaves nobody beside a handler without company.
LEMMA CommitStep ==
    ASSUME WeekInv, NEW q \in Reqs, Week!Commit(q)
    PROVE  WeekInv'
<1> DEFINE rows == plan[q].rows
<1>1. /\ plan[q].op \in {"enter", "update"} /\ plan[q] # Week!Nothing
      /\ lesson' = [l \in Lessons |-> IF l \in DOMAIN rows THEN Week!Written(q, l) ELSE lesson[l]]
      /\ contested' = IF plan[q].met THEN contested \cup DOMAIN rows ELSE contested \ DOMAIN rows
      /\ plan' = [plan EXCEPT ![q] = Week!Nothing]
    BY DEF Week!Commit, Week!Shut, Week!Nothing
<1>2. HoldsRows(plan[q]) /\ (~plan[q].met => FitsIn(plan[q]))
    BY <1>1 DEF WeekInv
<1>3. \A l \in DOMAIN rows : /\ l \in Lessons /\ lesson'[l] = Week!Written(q, l)
                             /\ lesson'[l] = Gone \/ IsRow(lesson'[l])
                             /\ (~plan[q].met /\ lesson'[l] # Gone) => \A f \in Columns : lesson'[l][f] = rows[l][f]
    BY <1>1, <1>2, WrittenFacts DEF HoldsRows
<1>4. \A l \in Lessons \ DOMAIN rows : lesson'[l] = lesson[l]
    BY <1>1
<1>5. \A l \in Week!Kept' : IsRow(lesson'[l])
    BY <1>3, <1>4 DEF WeekInv, Week!Kept
<1>6. \A x \in Reqs \ {q} : plan'[x] = plan[x] /\ HoldsRows(plan[x])'
    BY <1>1, <1>3, <1>4 DEF WeekInv, HoldsRows
<1>7. plan'[q] = Week!Nothing /\ HoldsRows(plan[q])'
    BY <1>1 DEF WeekInv, HoldsRows, Week!Nothing
<1>8. \A x \in Reqs \ {q} : plan[x] # Week!Nothing => plan[x].met
    BY <1>1 DEF WeekInv
<1>9. Week!NobodyInTwoPlaces'
    <2> SUFFICES ASSUME NEW a \in Week!Kept' \ contested', NEW b \in Week!Kept' \ contested', a # b
                 PROVE  ~Week!Clash(lesson'[a], lesson'[b])
        BY DEF Week!NobodyInTwoPlaces
    <2>1. a \in Lessons /\ b \in Lessons /\ IsRow(lesson'[a]) /\ IsRow(lesson'[b])
          /\ lesson'[a] # Gone /\ lesson'[b] # Gone
        BY <1>5 DEF Week!Kept
    <2>2. \A l \in {a, b} \ DOMAIN rows : l \in Week!Kept \ contested /\ lesson'[l] = lesson[l]
        BY <1>1, <1>4, <2>1 DEF Week!Kept
    <2>3. \A l \in {a, b} \cap DOMAIN rows :
              ~plan[q].met /\ FitsIn(plan[q]) /\ IsRow(rows[l]) /\ \A f \in Columns : rows[l][f] = lesson'[l][f]
        BY <1>1, <1>2, <1>3, <2>1 DEF HoldsRows
    <2>4. CASE a \notin DOMAIN rows /\ b \notin DOMAIN rows
        BY <2>2, <2>4 DEF WeekInv, Week!NobodyInTwoPlaces
    <2>5. ASSUME NEW c \in {a, b}, NEW d \in {a, b}, c # d, c \in DOMAIN rows, d \notin DOMAIN rows
          PROVE  ~Week!Clash(lesson'[c], lesson'[d])
        <3>1. ~Week!Clash(rows[c], lesson'[d])
            BY <2>2, <2>3, <2>5 DEF FitsIn
        <3> QED BY <2>1, <2>3, <2>5, <3>1, ClashFacts
    <2>6. CASE a \in DOMAIN rows /\ b \in DOMAIN rows
        <3>1. ~Week!Clash(rows[a], rows[b])
            BY <1>1, <2>3, <2>6 DEF FitsIn
        <3>2. ~Week!Clash(rows[b], lesson'[a])
            BY <2>1, <2>3, <2>6, <3>1, ClashFacts
        <3> QED BY <2>1, <2>3, <2>6, <3>2, ClashFacts
    <2> QED BY <2>1, <2>4, <2>5, <2>6, ClashFacts
<1>10. \A x \in Reqs : /\ DOMAIN plan'[x] = {"op", "rows", "seen", "met"}
                       /\ plan'[x].op \in {"none", "enter", "update"}
                       /\ plan'[x].op = "none" => plan'[x] = Week!Nothing
                       /\ plan'[x] # Week!Nothing => plan'[x].met
    <2> SUFFICES ASSUME NEW x \in Reqs
                 PROVE  /\ DOMAIN plan'[x] = {"op", "rows", "seen", "met"}
                        /\ plan'[x].op \in {"none", "enter", "update"}
                        /\ plan'[x].op = "none" => plan'[x] = Week!Nothing
                        /\ plan'[x] # Week!Nothing => plan'[x].met
        OBVIOUS
    <2>1. CASE x = q
        BY <1>7, <2>1 DEF Week!Nothing
    <2>2. CASE x # q
        BY <1>6, <1>8, <2>2 DEF WeekInv
    <2> QED BY <2>1, <2>2
<1>11. plan' = [x \in Reqs |-> plan'[x]] /\ lesson' = [l \in Lessons |-> lesson'[l]]
    BY <1>1 DEF WeekInv
<1> QED BY <1>5, <1>6, <1>7, <1>9, <1>10, <1>11 DEF WeekInv

WeekHolds == part = "timetable" => WeekInv

LEMMA WeekInvariant == Spec => []WeekHolds
<1> DEFINE Inv == WeekHolds
<1>1. Init => Inv
    <2> SUFFICES ASSUME Week!Init PROVE WeekInv
        BY DEF Init, WeekHolds
    <2> QED BY DEF Week!Init, WeekInv, HoldsRows, FitsIn, Week!Kept, Week!NobodyInTwoPlaces, Week!Nothing
<1>2. ASSUME WeekInv, Week!Next PROVE WeekInv'
    <2>1. ASSUME NEW q \in Reqs, Week!Begin(q) PROVE WeekInv'
        <3> DEFINE p == [Week!Nothing EXCEPT !.op = "enter"]
        <3>1. /\ DOMAIN p = {"op", "rows", "seen", "met"} /\ p.op = "enter" /\ p.met = FALSE
              /\ DOMAIN p.rows = {}
            BY DEF Week!Nothing
        <3>2. HoldsRows(p) /\ FitsIn(p)
            BY <3>1 DEF HoldsRows, FitsIn
        <3>3. Week!Open(q, p)
            BY <2>1 DEF Week!Begin
        <3> HIDE DEF p
        <3> QED BY <1>2, <3>1, <3>2, <3>3, OpenStep
    <2>2. ASSUME NEW q \in Reqs, NEW l \in Lessons, NEW r \in Plans, Week!UpdateRead(q, l, r) PROVE WeekInv'
        <3> DEFINE p == [Week!Nothing EXCEPT !.op = "update", !.rows = [x \in {l} |-> r], !.seen = lesson[l]]
        <3>1. /\ DOMAIN p = {"op", "rows", "seen", "met"} /\ p.op = "update" /\ p.met = FALSE
              /\ p.rows = [x \in {l} |-> r] /\ p.seen = lesson[l]
            BY DEF Week!Nothing
        <3>2. IsRow(r) /\ IsRow(lesson[l])
            BY <1>2, <2>2, PlansAssumption DEF PlansAssumption, IsRow, Columns, WeekInv, Week!UpdateRead
        <3>3. HoldsRows(p) /\ FitsIn(p)
            BY <2>2, <3>1, <3>2 DEF HoldsRows, FitsIn, Week!UpdateRead
        <3>4. Week!Open(q, p)
            BY <2>2 DEF Week!UpdateRead
        <3> HIDE DEF p
        <3> QED BY <1>2, <3>1, <3>3, <3>4, OpenStep
    <2>3. ASSUME NEW q \in Reqs, NEW l \in Lessons, NEW p \in Plans, Week!Enter(q, l, p) PROVE WeekInv'
        <3>1. /\ plan[q].op = "enter" /\ UNCHANGED <<lesson, contested>> /\ lesson[l] = None
              /\ \A o \in Week!Kept : ~Week!Clash(p, lesson[o])
              /\ \A o \in DOMAIN plan[q].rows : ~Week!Clash(p, plan[q].rows[o])
            BY <2>3 DEF Week!Enter
        <3>2. IsRow(p)
            BY PlansAssumption DEF PlansAssumption, IsRow, Columns
        <3> DEFINE rows == [x \in DOMAIN plan[q].rows \cup {l} |-> IF x = l THEN p ELSE plan[q].rows[x]]
        <3>3. plan' = [plan EXCEPT ![q].rows = rows]
            BY <2>3 DEF Week!Enter
        <3>4. /\ DOMAIN plan'[q] = {"op", "rows", "seen", "met"} /\ plan'[q].op = "enter" /\ plan'[q].rows = rows
              /\ plan'[q].met = plan[q].met /\ \A x \in Reqs \ {q} : plan'[x] = plan[x]
            BY <1>2, <3>1, <3>3 DEF WeekInv
        <3>5. plan[q] # Week!Nothing /\ HoldsRows(plan[q]) /\ (~plan[q].met => FitsIn(plan[q]))
            BY <1>2, <3>1 DEF WeekInv, Week!Nothing
        <3>6. HoldsRows(plan[q])'
            BY <3>1, <3>2, <3>4, <3>5 DEF HoldsRows
        <3>7. ASSUME ~plan[q].met PROVE FitsIn(plan[q])'
            <4>1. \A o \in DOMAIN plan[q].rows : ~Week!Clash(plan[q].rows[o], p)
                BY <3>1, <3>2, <3>5, ClashFacts DEF HoldsRows
            <4>2. /\ \A x \in DOMAIN rows : \A o \in Week!Kept \ {x} : ~Week!Clash(rows[x], lesson[o])
                  /\ \A x, o \in DOMAIN rows : x # o => ~Week!Clash(rows[x], rows[o])
                BY <3>1, <3>5, <3>7, <4>1 DEF FitsIn
            <4> HIDE DEF rows
            <4> QED BY <3>1, <3>4, <4>2
                    DEF FitsIn, Week!Kept, Week!Clash, Week!TimesOverlap, Week!SameClass
        <3>8. \A x \in Reqs \ {q} : /\ HoldsRows(plan[x])'
                                    /\ plan[x] # Week!Nothing /\ ~plan[x].met => FitsIn(plan[x])'
            BY <1>2, <3>1, <3>4, SameLessons DEF WeekInv
        <3>9. Week!NobodyInTwoPlaces' /\ \A o \in Week!Kept' : IsRow(lesson'[o])
            BY <1>2, <3>1, SameLessons DEF WeekInv
        <3>10. plan' = [x \in Reqs |-> plan'[x]] /\ lesson' = [x \in Lessons |-> lesson'[x]]
            BY <1>2, <3>1, <3>3 DEF WeekInv
        <3> HIDE DEF rows
        <3>11. \A x \in Reqs : /\ DOMAIN plan'[x] = {"op", "rows", "seen", "met"}
                               /\ plan'[x].op \in {"none", "enter", "update"}
                               /\ plan'[x].op = "none" => plan'[x] = Week!Nothing
                               /\ HoldsRows(plan[x])'
                               /\ plan'[x] # Week!Nothing /\ ~plan'[x].met => FitsIn(plan[x])'
            <4> SUFFICES ASSUME NEW x \in Reqs
                         PROVE /\ DOMAIN plan'[x] = {"op", "rows", "seen", "met"}
                               /\ plan'[x].op \in {"none", "enter", "update"}
                               /\ plan'[x].op = "none" => plan'[x] = Week!Nothing
                               /\ HoldsRows(plan[x])'
                               /\ plan'[x] # Week!Nothing /\ ~plan'[x].met => FitsIn(plan[x])'
                OBVIOUS
            <4>1. CASE x = q
                BY <3>4, <3>6, <3>7, <4>1
            <4>2. CASE x # q
                BY <1>2, <3>4, <3>8, <4>2 DEF WeekInv
            <4> QED BY <4>1, <4>2
        <3>12. \A x, y \in Reqs : (x # y /\ plan'[x] # Week!Nothing /\ plan'[y] # Week!Nothing) => plan'[x].met
            BY <1>2, <3>4, <3>5 DEF WeekInv
        <3> QED BY <3>9, <3>10, <3>11, <3>12 DEF WeekInv
    <2>4. ASSUME NEW q \in Reqs, Week!Drop(q) PROVE WeekInv'
        <3>1. /\ plan' = [plan EXCEPT ![q] = Week!Nothing] /\ UNCHANGED <<lesson, contested>>
            BY <2>4 DEF Week!Drop, Week!Shut
        <3>2. plan'[q] = Week!Nothing /\ \A x \in Reqs \ {q} : plan'[x] = plan[x]
            BY <1>2, <3>1 DEF WeekInv
        <3>3. \A x \in Reqs : /\ HoldsRows(plan[x])'
                              /\ plan'[x] # Week!Nothing /\ ~plan'[x].met => FitsIn(plan[x])'
            <4>1. HoldsRows(Week!Nothing)
                BY DEF HoldsRows, Week!Nothing
            <4> QED BY <1>2, <3>1, <3>2, <4>1, SameLessons DEF WeekInv
        <3>4. Week!NobodyInTwoPlaces' /\ \A o \in Week!Kept' : IsRow(lesson'[o])
            BY <1>2, <3>1, SameLessons DEF WeekInv
        <3>5. \A x \in Reqs : /\ DOMAIN plan'[x] = {"op", "rows", "seen", "met"}
                              /\ plan'[x].op \in {"none", "enter", "update"}
                              /\ plan'[x].op = "none" => plan'[x] = Week!Nothing
                              /\ HoldsRows(plan[x])'
                              /\ plan'[x] # Week!Nothing /\ ~plan'[x].met => FitsIn(plan[x])'
            <4> SUFFICES ASSUME NEW x \in Reqs
                         PROVE /\ DOMAIN plan'[x] = {"op", "rows", "seen", "met"}
                               /\ plan'[x].op \in {"none", "enter", "update"}
                               /\ plan'[x].op = "none" => plan'[x] = Week!Nothing
                BY <3>3
            <4>1. CASE x = q
                BY <3>2, <4>1 DEF Week!Nothing
            <4>2. CASE x # q
                BY <1>2, <3>2, <4>2 DEF WeekInv
            <4> QED BY <4>1, <4>2
        <3>6. plan' = [x \in Reqs |-> plan'[x]] /\ lesson' = [x \in Lessons |-> lesson'[x]]
            BY <1>2, <3>1 DEF WeekInv
        <3>7. \A x, y \in Reqs : (x # y /\ plan'[x] # Week!Nothing /\ plan'[y] # Week!Nothing) => plan'[x].met
            BY <1>2, <3>2 DEF WeekInv
        <3> QED BY <3>4, <3>5, <3>6, <3>7 DEF WeekInv
    <2>5. ASSUME NEW l \in Lessons, Week!Delete(l) PROVE WeekInv'
        <3>1. /\ UNCHANGED <<plan, contested>> /\ lesson' = [lesson EXCEPT ![l] = Gone]
              /\ lesson'[l] = Gone /\ \A o \in Lessons \ {l} : lesson'[o] = lesson[o]
            BY <1>2, <2>5 DEF Week!Delete, WeekInv
        <3>2. Week!Kept' = Week!Kept \ {l}
            BY <3>1 DEF Week!Kept
        <3>3. \A x \in Reqs : HoldsRows(plan[x])'
            BY <1>2, <3>1 DEF WeekInv, HoldsRows
        <3>4. \A x \in Reqs : FitsIn(plan[x]) /\ HoldsRows(plan[x]) => FitsIn(plan[x])'
            BY <3>1, <3>2 DEF FitsIn, HoldsRows, Week!Kept, Week!Clash, Week!TimesOverlap, Week!SameClass
        <3>5. Week!NobodyInTwoPlaces' /\ \A o \in Week!Kept' : IsRow(lesson'[o])
            BY <1>2, <3>1, <3>2 DEF WeekInv, Week!Kept, Week!NobodyInTwoPlaces, Week!Clash, Week!TimesOverlap,
                                    Week!SameClass
        <3> QED BY <1>2, <3>1, <3>3, <3>4, <3>5 DEF WeekInv
    <2> QED BY <1>2, <2>1, <2>2, <2>3, <2>4, <2>5, CommitStep DEF Week!Next
<1>3. ASSUME WeekInv, UNCHANGED <<lesson, plan, contested>> PROVE WeekInv'
    BY <1>3, SameLessons DEF WeekInv
<1>4. Inv /\ [Next]_campus => Inv'
    BY <1>2, <1>3 DEF Next, campus, timetable, WeekHolds
<1> QED BY <1>1, <1>4, PTL DEF Spec

\* No teacher and no class is in two places at a time, except for a lesson that was
\* written while another request was open (_check_conflicts).
THEOREM NobodyIsTwice == Spec => []NobodyInTwoPlaces
<1>1. WeekHolds => NobodyInTwoPlaces
    BY DEF NobodyInTwoPlaces, WeekInv, WeekHolds
<1> QED BY <1>1, WeekInvariant, PTL


-----------------------------------------------------------------------------
(* The row of a school                                                     *)

ProfileRows == [version : Nat, stamp : Nat, prefix : Prefixes \cup {None}, next : Nat \ {0},
                taken : SUBSET [prefix : Prefixes, seq : 1..MaxNumber]]
ProfileWorks == [op : Profile!Edits \cup {"none", "enrol"}, version : Nat, prefix : Prefixes \cup {None},
                 next : Nat, numbers : SUBSET [prefix : Prefixes, seq : 1..MaxNumber]]
ProfilePages == [version : Nat, stamp : Nat]

Enrolling(d) == handler[d].op = "enrol"
Editing(d) == handler[d].op \in Profile!Edits

\* One handler at a time holds numbers, none below the row's next one; none given
\* is as high.  Until two edits overlap an editor knows the row's version, which no
\* page is ahead of.
ProfileInv ==
    /\ book \in ProfileRows /\ handler \in [Reqs -> ProfileWorks]
    /\ history \in [page : [Reqs -> ProfilePages], crossed : BOOLEAN,
                    given : SUBSET [prefix : Prefixes, seq : 1..MaxNumber]]
    /\ \A d, x \in Reqs : Enrolling(d) /\ Enrolling(x) => d = x
    /\ \A d \in Reqs :
          /\ ~Enrolling(d) => handler[d].numbers = {}
          /\ Enrolling(d) => /\ handler[d].next > book.next /\ handler[d].numbers \cap book.taken = {}
                             /\ \A n \in handler[d].numbers : book.next <= n.seq /\ n.seq < handler[d].next
    /\ \A n \in history.given : n.seq < book.next
    /\ ~history.crossed =>
          /\ \A d, x \in Reqs : Editing(d) /\ Editing(x) => d = x
          /\ \A d \in Reqs : Editing(d) => handler[d].version = book.version
          /\ \A d \in Reqs : /\ history.page[d].version <= book.version
                             /\ history.page[d].version = book.version => history.page[d].stamp = book.stamp

LEMMA ProfileStarts == ASSUME Profile!Init PROVE ProfileInv
<1>1. PICK byHand \in SUBSET [prefix : Prefixes, seq : {1}] :
          book = [version |-> 1, stamp |-> 0, prefix |-> None, next |-> 1, taken |-> byHand]
    BY DEF Profile!Init
<1>2. byHand \in SUBSET [prefix : Prefixes, seq : 1..MaxNumber]
    BY BooksAssumption
<1>3. book \in ProfileRows
    BY <1>1, <1>2 DEF ProfileRows
<1> QED BY <1>1, <1>3 DEF Profile!Init, ProfileInv, ProfileWorks, ProfilePages, Profile!NoRequest, Profile!Shown,
                          Enrolling, Editing, Profile!Edits

LEMMA GenerateStep ==
    ASSUME ProfileInv, NEW d \in Reqs, Profile!Unlocked(d), ~Editing(d),
           NEW row, row.numbers \in SUBSET [prefix : Prefixes, seq : 1..MaxNumber],
           row.prefix \in Prefixes \cup {None}, row.next \in Nat, row.next >= book.next,
           \A n \in row.numbers : book.next <= n.seq /\ n.seq < row.next, row.numbers \cap book.taken = {},
           Profile!Generate(d, row)
    PROVE  ProfileInv'
<1>1. PICK prefix \in Prefixes, seq \in row.next..MaxNumber :
          /\ [prefix |-> prefix, seq |-> seq] \notin book.taken \cup row.numbers
          /\ handler' = [handler EXCEPT ![d] =
                 [Profile!NoRequest EXCEPT !.op = "enrol", !.prefix = prefix, !.next = seq + 1,
                                   !.numbers = row.numbers \cup {[prefix |-> prefix, seq |-> seq]}]]
          /\ UNCHANGED <<book, history>>
    BY DEF Profile!Generate
<1> DEFINE h == [Profile!NoRequest EXCEPT !.op = "enrol", !.prefix = prefix, !.next = seq + 1,
                                   !.numbers = row.numbers \cup {[prefix |-> prefix, seq |-> seq]}]
<1>2. /\ h.op = "enrol" /\ h.next = seq + 1 /\ h.numbers = row.numbers \cup {[prefix |-> prefix, seq |-> seq]}
      /\ seq \in Nat /\ seq >= row.next /\ seq \in 1..MaxNumber
    BY <1>1, BooksAssumption DEF Profile!NoRequest, ProfileInv, ProfileRows
<1>3. h \in ProfileWorks
    <2>1. h.numbers \in SUBSET [prefix : Prefixes, seq : 1..MaxNumber]
        BY <1>1, <1>2
    <2>2. h = [op |-> "enrol", version |-> 0, prefix |-> prefix, next |-> h.next, numbers |-> h.numbers]
        <3> DEFINE n == seq + 1
                   l == row.numbers \cup {[prefix |-> prefix, seq |-> seq]}
        <3>1. h = [Profile!NoRequest EXCEPT !.op = "enrol", !.prefix = prefix, !.next = n, !.numbers = l]
            OBVIOUS
        <3> HIDE DEF n, l, h
        <3> QED BY <3>1 DEF Profile!NoRequest
    <2>3. h.next \in Nat
        BY <1>2
    <2> HIDE DEF h
    <2> QED BY <1>1, <2>1, <2>2, <2>3 DEF ProfileWorks
<1>4. /\ h.next > book.next /\ h.numbers \cap book.taken = {}
      /\ \A n \in h.numbers : book.next <= n.seq /\ n.seq < h.next
    BY <1>1, <1>2 DEF ProfileInv, ProfileRows
<1>5. handler' = [handler EXCEPT ![d] = h] /\ UNCHANGED <<book, history>>
    BY <1>1
<1> HIDE DEF h
<1>6. handler' \in [Reqs -> ProfileWorks] /\ handler'[d] = h /\ \A x \in Reqs \ {d} : handler'[x] = handler[x]
    BY <1>3, <1>5 DEF ProfileInv
<1>7. ~Editing(d)' /\ \A x \in Reqs \ {d} : ~Enrolling(x)
    BY <1>2, <1>6 DEF Editing, Profile!Edits, Profile!Unlocked, Enrolling
<1> QED BY <1>2, <1>4, <1>5, <1>6, <1>7 DEF ProfileInv, Enrolling, Editing

LEMMA ProfileStep == ASSUME ProfileInv, Profile!Next PROVE ProfileInv'
<1>1. ASSUME NEW number \in book.taken, Profile!DeleteStudent(number) PROVE ProfileInv'
    <2>1. book' = [book EXCEPT !.taken = @ \ {number}] /\ UNCHANGED <<handler, history>>
        BY <1>1 DEF Profile!DeleteStudent
    <2>2. book' \in ProfileRows /\ book'.next = book.next /\ book'.version = book.version /\ book'.stamp = book.stamp
          /\ book'.taken \subseteq book.taken
        BY <2>1 DEF ProfileInv, ProfileRows
    <2> QED BY <2>1, <2>2 DEF ProfileInv, Enrolling, Editing
<1>2. ASSUME NEW d \in Reqs, Profile!Enrol(d) PROVE ProfileInv'
    <2> DEFINE row == [prefix |-> book.prefix, next |-> book.next, numbers |-> {}]
    <2>1. Profile!Unlocked(d) /\ ~Editing(d) /\ Profile!Generate(d, row)
        BY <1>2 DEF Profile!Enrol, Editing, Profile!Edits, Profile!NoRequest
    <2>2. /\ row.numbers = {} /\ row.prefix \in Prefixes \cup {None}
          /\ row.next \in Nat /\ row.next >= book.next
        BY DEF ProfileInv, ProfileRows
    <2> HIDE DEF row
    <2> QED BY <2>1, <2>2, GenerateStep
<1>3. ASSUME NEW d \in Reqs, Profile!EnrolAnother(d) PROVE ProfileInv'
    <2> DEFINE row == handler[d]
    <2>1. Profile!Unlocked(d) /\ ~Editing(d) /\ Profile!Generate(d, row)
        BY <1>3 DEF Profile!EnrolAnother, Editing, Enrolling, Profile!Edits, Profile!Unlocked, ProfileInv
    <2>2. /\ row.numbers \in SUBSET [prefix : Prefixes, seq : 1..MaxNumber]
          /\ row.prefix \in Prefixes \cup {None} /\ row.next \in Nat /\ row.next >= book.next
          /\ row.numbers \cap book.taken = {}
          /\ \A n \in row.numbers : book.next <= n.seq /\ n.seq < row.next
        BY <1>3 DEF Profile!EnrolAnother, Enrolling, ProfileInv, ProfileRows, ProfileWorks
    <2> HIDE DEF row
    <2> QED BY <2>1, <2>2, GenerateStep
<1>4. ASSUME NEW d \in Reqs, Profile!EnrolCommit(d) PROVE ProfileInv'
    <2> DEFINE h == handler[d]
    <2>1. /\ Enrolling(d) /\ handler' = [handler EXCEPT ![d] = Profile!NoRequest]
          /\ book' = [book EXCEPT !.prefix = h.prefix, !.next = h.next, !.taken = @ \cup h.numbers]
          /\ history' = [history EXCEPT !.given = @ \cup h.numbers]
        BY <1>4 DEF Profile!EnrolCommit, Profile!Close, Enrolling
    <2>2. /\ book' \in ProfileRows /\ book'.next = h.next /\ book'.version = book.version
          /\ book'.stamp = book.stamp
        <3>1. book \in ProfileRows /\ h \in ProfileWorks /\ h.next > book.next
            BY <2>1 DEF ProfileInv
        <3>2. /\ h.prefix \in Prefixes \cup {None} /\ h.next \in Nat \ {0}
              /\ book.taken \cup h.numbers \in SUBSET [prefix : Prefixes, seq : 1..MaxNumber]
            BY <3>1 DEF ProfileRows, ProfileWorks
        <3> HIDE DEF h
        <3> QED BY <2>1, <3>1, <3>2 DEF ProfileRows
    <2>3. /\ Profile!NoRequest \in ProfileWorks /\ Profile!NoRequest.op = "none" /\ Profile!NoRequest.numbers = {}
        BY DEF Profile!NoRequest, ProfileWorks
    <2>4. /\ handler' \in [Reqs -> ProfileWorks] /\ handler'[d].op = "none" /\ handler'[d].numbers = {}
          /\ \A x \in Reqs \ {d} : handler'[x] = handler[x] /\ ~Enrolling(x)
        BY <2>1, <2>3 DEF ProfileInv
    <2>5. history'.given = history.given \cup h.numbers /\ history'.page = history.page
          /\ history'.crossed = history.crossed
        BY <2>1 DEF ProfileInv
    <2>6. \A n \in history'.given : n.seq < book'.next
        BY <2>1, <2>2, <2>5 DEF ProfileInv, ProfileRows, ProfileWorks
    <2>7. history'.given \in SUBSET [prefix : Prefixes, seq : 1..MaxNumber]
        BY <2>5 DEF ProfileInv, ProfileWorks
    <2> HIDE DEF h
    <2> QED BY <2>1, <2>2, <2>4, <2>5, <2>6, <2>7 DEF ProfileInv, Enrolling, Editing, Profile!Edits
<1>5. ASSUME NEW d \in Reqs, Profile!Visit(d) PROVE ProfileInv'
    <2>1. history' = [history EXCEPT !.page[d] = Profile!Shown] /\ UNCHANGED <<book, handler>>
        BY <1>5 DEF Profile!Visit
    <2>2. Profile!Shown \in ProfilePages /\ Profile!Shown.version = book.version /\ Profile!Shown.stamp = book.stamp
        BY DEF Profile!Shown, ProfilePages, ProfileInv, ProfileRows
    <2>3. /\ history'.page = [history.page EXCEPT ![d] = Profile!Shown]
          /\ history'.given = history.given /\ history'.crossed = history.crossed
        BY <2>1 DEF ProfileInv
    <2> QED BY <2>1, <2>2, <2>3 DEF ProfileInv, ProfileRows, Enrolling, Editing
<1>6. ASSUME NEW d \in Reqs, NEW op \in Profile!Edits, NEW checked \in BOOLEAN,
             NEW prefix \in Prefixes \cup {None}, Profile!EditRead(d, op, checked, prefix)
      PROVE  ProfileInv'
    <2> DEFINE h == [Profile!NoRequest EXCEPT !.op = op, !.version = book.version, !.prefix = prefix]
    <2>1. /\ handler[d] = Profile!NoRequest /\ handler' = [handler EXCEPT ![d] = h] /\ UNCHANGED book
          /\ history' = [history EXCEPT !.crossed = @ \/ \E x \in Reqs : handler[x].op \in Profile!Edits]
        BY <1>6 DEF Profile!EditRead
    <2>2. h \in ProfileWorks /\ h.op = op /\ h.op # "enrol" /\ h.numbers = {} /\ h.version = book.version
        BY DEF Profile!NoRequest, ProfileWorks, ProfileInv, ProfileRows, Profile!Edits
    <2>3. /\ history'.page = history.page /\ history'.given = history.given
          /\ history'.crossed = (history.crossed \/ \E x \in Reqs : Editing(x))
        <3> DEFINE met == history.crossed \/ \E x \in Reqs : handler[x].op \in Profile!Edits
        <3>1. history' = [history EXCEPT !.crossed = met]
            BY <2>1
        <3>2. met = (history.crossed \/ \E x \in Reqs : Editing(x))
            BY Zenon DEF Editing
        <3>3. met \in BOOLEAN
            BY DEF ProfileInv
        <3> HIDE DEF met
        <3>4. DOMAIN history = {"page", "given", "crossed"}
            BY DEF ProfileInv
        <3> QED BY <3>1, <3>2, <3>4
    <2> HIDE DEF h
    <2>4. /\ handler' \in [Reqs -> ProfileWorks] /\ handler'[d] = h
          /\ \A x \in Reqs \ {d} : handler'[x] = handler[x]
        BY <2>1, <2>2 DEF ProfileInv
    <2> QED BY <2>1, <2>2, <2>3, <2>4 DEF ProfileInv, Enrolling, Editing
<1>7. ASSUME NEW d \in Reqs, Profile!EditCommit(d) PROVE ProfileInv'
    <2> DEFINE h == handler[d]
    <2>1. /\ Editing(d) /\ handler' = [handler EXCEPT ![d] = Profile!NoRequest] /\ UNCHANGED history
          /\ book' = [book EXCEPT !.version = h.version + Profile!Bump(h.op), !.stamp = @ + 1,
                                  !.prefix = IF h.prefix = None THEN @ ELSE h.prefix]
        BY <1>7 DEF Profile!EditCommit, Profile!Close, Editing
    <2>2. Profile!Bump(h.op) \in {1, 2}
        BY DEF Profile!Bump
    <2>3. /\ book' \in ProfileRows /\ book'.next = book.next /\ book'.version = h.version + Profile!Bump(h.op)
          /\ book'.stamp = book.stamp + 1 /\ book'.taken = book.taken
        <3>1. book \in ProfileRows /\ h \in ProfileWorks
            BY DEF ProfileInv
        <3> DEFINE p == IF h.prefix = None THEN book.prefix ELSE h.prefix
                   v == h.version + Profile!Bump(h.op)
        <3>2. /\ p \in Prefixes \cup {None} /\ v \in Nat
            BY <2>2, <3>1 DEF ProfileRows, ProfileWorks
        <3>3. book' = [book EXCEPT !.version = v, !.stamp = @ + 1, !.prefix = p]
            BY <2>1
        <3>4. v = h.version + Profile!Bump(h.op)
            OBVIOUS
        <3> HIDE DEF h, p, v
        <3>5. book' = [version |-> v, stamp |-> book.stamp + 1, prefix |-> p, next |-> book.next,
                       taken |-> book.taken]
            BY <3>1, <3>3 DEF ProfileRows
        <3>6. book.stamp + 1 \in Nat /\ book.next \in Nat \ {0}
              /\ book.taken \in SUBSET [prefix : Prefixes, seq : 1..MaxNumber]
            BY <3>1 DEF ProfileRows
        <3> QED BY <3>2, <3>4, <3>5, <3>6 DEF ProfileRows
    <2>4. /\ Profile!NoRequest \in ProfileWorks /\ Profile!NoRequest.op = "none" /\ Profile!NoRequest.numbers = {}
        BY DEF Profile!NoRequest, ProfileWorks
    <2>5. /\ handler' \in [Reqs -> ProfileWorks] /\ handler'[d].op = "none" /\ handler'[d].numbers = {}
          /\ \A x \in Reqs \ {d} : handler'[x] = handler[x]
        BY <2>1, <2>4 DEF ProfileInv
    <2>6. ~history.crossed => /\ \A x \in Reqs \ {d} : ~Editing(x)
                              /\ \A x \in Reqs : history.page[x].version < book'.version
        BY <2>1, <2>2, <2>3 DEF ProfileInv, ProfileRows, ProfilePages
    <2> HIDE DEF h
    <2>7. \A x \in Reqs : history.page[x].version \in Nat
        BY DEF ProfileInv, ProfilePages
    <2>8. book'.version \in Nat
        BY <2>3 DEF ProfileRows
    <2> QED BY <2>1, <2>3, <2>5, <2>6, <2>7, <2>8 DEF ProfileInv, Enrolling, Editing, Profile!Edits
<1>8. ASSUME NEW d \in Reqs, Profile!Abandon(d) PROVE ProfileInv'
    <2>1. /\ handler' = [handler EXCEPT ![d] = Profile!NoRequest] /\ UNCHANGED <<book, history>>
        BY <1>8 DEF Profile!Abandon, Profile!Close
    <2>2. /\ Profile!NoRequest \in ProfileWorks /\ Profile!NoRequest.op = "none" /\ Profile!NoRequest.numbers = {}
        BY DEF Profile!NoRequest, ProfileWorks
    <2>3. /\ handler' \in [Reqs -> ProfileWorks] /\ handler'[d].op = "none" /\ handler'[d].numbers = {}
          /\ \A x \in Reqs \ {d} : handler'[x] = handler[x]
        BY <2>1, <2>2 DEF ProfileInv
    <2> QED BY <2>1, <2>3 DEF ProfileInv, Enrolling, Editing, Profile!Edits
<1> QED BY <1>1, <1>2, <1>3, <1>4, <1>5, <1>6, <1>7, <1>8 DEF Profile!Next

LEMMA ProfileSame == ASSUME ProfileInv, UNCHANGED <<book, handler, history>> PROVE ProfileInv'
    BY DEF ProfileInv, Enrolling, Editing

LEMMA ProfileHolds ==
    ASSUME ProfileInv
    PROVE  Profile!NumbersGivenOnce /\ Profile!VersionNamesProfile
<1>1. ASSUME NEW d \in Reqs
      PROVE  /\ handler[d].numbers \cap (book.taken \cup history.given) = {}
             /\ \A x \in Reqs \ {d} : handler[d].numbers \cap handler[x].numbers = {}
    <2>1. \A n \in handler[d].numbers : n \notin history.given
        BY DEF ProfileInv, ProfileRows, ProfileWorks
    <2> QED BY <2>1 DEF ProfileInv
<1>2. Profile!VersionNamesProfile
    BY DEF ProfileInv, Profile!VersionNamesProfile
<1> QED BY <1>1, <1>2 DEF Profile!NumbersGivenOnce


-----------------------------------------------------------------------------
(* Admissions                                                              *)

PlaceWorks == [op : {"none", "register", "change"}, refs : SUBSET References, bad : BOOLEAN, late : BOOLEAN,
               ref : References \cup {None}, was : Places!Rows \cup {None}, now : Places!Rows \cup {None}]

\* What a handler that changes an application remembers: a student, once linked, is
\* never unlinked, and nobody is enrolled without one or put back.
ChangeHolds(h) ==
    /\ h.ref \in Places!Applications /\ h.was \in Places!Rows /\ h.now \in Places!Rows
    /\ h.was.student # None => h.now.student # None /\ book[h.ref].student # None
    /\ h.now.status = "enrolled" => h.now.student # None
    /\ h.was.status = "enrolled" => h.now.status = "enrolled"
    /\ h.ref \notin history.crossed =>
          /\ h.was = book[h.ref]
          /\ h.now.student # None => h.now.status = "enrolled"

\* Without a gap the references are 1..Count, and a list without one continues them
\* from what was counted.
CountHolds(h) ==
    \E c \in 0..Places!Count :
        /\ ~h.late => c = Places!Count
        /\ \A r \in h.refs : r > c
        /\ ~h.bad => \E k \in Nat : h.refs = (c + 1)..(c + k)

PlacesInv ==
    /\ book \in [References -> Places!Rows \cup {None}] /\ handler \in [Reqs -> PlaceWorks]
    /\ history \in [gap : BOOLEAN, crossed : SUBSET Places!Applications]
    /\ Places!EnrolledHasStudent
    /\ \A d \in Reqs : /\ handler[d].op # "register" => handler[d].refs = {}
                       /\ handler[d].op # "change" => handler[d].ref = None
                       /\ handler[d].op = "change" => ChangeHolds(handler[d])
    /\ \A d, x \in Reqs : (/\ handler[d].op = "change" /\ handler[x].op = "change"
                           /\ handler[d].ref = handler[x].ref /\ handler[d].ref \notin history.crossed) => d = x
    /\ ~history.gap =>
          /\ Places!Applications = 1..Places!Count
          /\ \A d \in Reqs : handler[d].op = "register" => CountHolds(handler[d])

LEMMA PlacesCardinality == \A S : Places!Cardinality(S) = Cardinality(S)
BY DEF Places!Cardinality, Cardinality

LEMMA CountIsNat ==
    /\ IsFiniteSet(Places!Applications) /\ Places!Count \in Nat
    /\ IsFiniteSet(Places!Applications') /\ Places!Count' \in Nat
<1>1. Places!Applications \subseteq References /\ Places!Applications' \subseteq References
    BY DEF Places!Applications
<1>2. IsFiniteSet(Places!Applications) /\ IsFiniteSet(Places!Applications')
    BY <1>1, FS_Subset, BooksAssumption DEF BooksAssumption
<1> QED BY <1>2, FS_CardinalityType, PlacesCardinality DEF Places!Count

LEMMA PlacesStart == ASSUME Places!Init PROVE PlacesInv
<1>1. /\ book = [r \in References |-> None] /\ handler = [d \in Reqs |-> Places!NoRequest]
      /\ history = [gap |-> FALSE, crossed |-> {}]
    BY DEF Places!Init
<1>2. Places!Applications = {}
    BY <1>1 DEF Places!Applications
<1>3. Places!Count = 0
    BY <1>2, FS_EmptySet, PlacesCardinality DEF Places!Count
<1>4. Places!Applications = 1..Places!Count
    BY <1>2, <1>3
<1> QED BY <1>1, <1>2, <1>4
        DEF PlacesInv, PlaceWorks, Places!NoRequest, Places!EnrolledHasStudent

\* A handler that only reads.
LEMMA PlacesBegin ==
    ASSUME PlacesInv, NEW d \in Reqs, handler[d] = Places!NoRequest, NEW h \in PlaceWorks,
           handler' = [handler EXCEPT ![d] = h], UNCHANGED book,
           \/ /\ h.op = "register" /\ h.ref = None /\ UNCHANGED history
              /\ ~history.gap => CountHolds(h)
           \/ /\ h.op = "change" /\ h.refs = {} /\ ChangeHolds(h)
              /\ history' = [history EXCEPT !.crossed = IF \E x \in Reqs : handler[x].ref = h.ref
                                                        THEN @ \cup {h.ref} ELSE @]
    PROVE  PlacesInv'
<1>1. /\ handler' \in [Reqs -> PlaceWorks] /\ handler'[d] = h
      /\ \A x \in Reqs \ {d} : handler'[x] = handler[x]
    BY DEF PlacesInv
<1>2. /\ Places!Applications' = Places!Applications
      /\ \A w : CountHolds(w)' <=> CountHolds(w)
    BY DEF Places!Applications, Places!Count, CountHolds
<1>3. /\ history'.gap = history.gap /\ history.crossed \subseteq history'.crossed
      /\ history' \in [gap : BOOLEAN, crossed : SUBSET Places!Applications]
    BY DEF PlacesInv, ChangeHolds
<1>4. Places!EnrolledHasStudent'
    BY <1>2, <1>3 DEF PlacesInv, Places!EnrolledHasStudent
<1>5. \A w : ChangeHolds(w) => ChangeHolds(w)'
    BY <1>2, <1>3 DEF ChangeHolds
<1>6. handler[d].op = "none" /\ handler[d].ref = None
    BY DEF Places!NoRequest
<1>7. h.op = "change" => /\ \A x \in Reqs \ {d} : handler[x].ref = h.ref => h.ref \in history'.crossed
    BY DEF PlacesInv
<1>8. \A x \in Reqs : /\ handler'[x].op # "register" => handler'[x].refs = {}
                      /\ handler'[x].op # "change" => handler'[x].ref = None
                      /\ handler'[x].op = "change" => ChangeHolds(handler[x])'
    <2> SUFFICES ASSUME NEW x \in Reqs
                 PROVE  /\ handler'[x].op # "register" => handler'[x].refs = {}
                        /\ handler'[x].op # "change" => handler'[x].ref = None
                        /\ handler'[x].op = "change" => ChangeHolds(handler[x])'
        OBVIOUS
    <2>1. CASE x = d
        <3>1. h.op = "change" => ChangeHolds(h)'
            BY <1>5
        <3>2. h.op = "change" => ChangeHolds(handler[d])'
            BY <1>1, <3>1 DEF ChangeHolds
        <3> QED BY <1>1, <2>1, <3>2
    <2>2. CASE x # d
        <3>1. handler'[x].op = "change" => ChangeHolds(handler[x])'
            BY <1>1, <1>5, <2>2 DEF PlacesInv, ChangeHolds
        <3> QED BY <1>1, <2>2, <3>1 DEF PlacesInv
    <2> QED BY <2>1, <2>2
<1>9. \A x, y \in Reqs : (/\ handler'[x].op = "change" /\ handler'[y].op = "change"
                          /\ handler'[x].ref = handler'[y].ref /\ handler'[x].ref \notin history'.crossed) => x = y
    BY <1>1, <1>3, <1>6, <1>7 DEF PlacesInv
<1>10. ~history'.gap =>
          /\ Places!Applications' = 1..Places!Count'
          /\ \A x \in Reqs : handler'[x].op = "register" => CountHolds(handler[x])'
    <2>1. Places!Count' = Places!Count
        BY <1>2 DEF Places!Count
    <2>2. ASSUME ~history.gap, NEW x \in Reqs, handler'[x].op = "register" PROVE CountHolds(handler[x])'
        <3>1. CASE x = d
            BY <1>1, <2>1, <2>2, <3>1 DEF CountHolds
        <3>2. CASE x # d
            BY <1>1, <2>1, <2>2, <3>2 DEF CountHolds, PlacesInv
        <3> QED BY <3>1, <3>2
    <2> QED BY <1>2, <1>3, <2>1, <2>2 DEF PlacesInv
<1>11. book' \in [References -> Places!Rows \cup {None}] /\ history' \in [gap : BOOLEAN, crossed : SUBSET Places!Applications']
    BY <1>2, <1>3 DEF PlacesInv
<1> QED BY <1>1, <1>4, <1>8, <1>9, <1>10, <1>11 DEF PlacesInv

\* A handler that ends without a commit.
LEMMA PlacesEnd ==
    ASSUME PlacesInv, NEW d \in Reqs, Places!Close(d), UNCHANGED <<book, history>>
    PROVE  PlacesInv'
<1>1. /\ Places!NoRequest \in PlaceWorks /\ Places!NoRequest.op = "none" /\ Places!NoRequest.refs = {}
      /\ Places!NoRequest.ref = None
    BY DEF Places!NoRequest, PlaceWorks
<1>2. /\ handler' \in [Reqs -> PlaceWorks] /\ handler'[d] = Places!NoRequest
      /\ \A x \in Reqs \ {d} : handler'[x] = handler[x]
    BY <1>1 DEF PlacesInv, Places!Close
<1>3. /\ Places!Applications' = Places!Applications /\ Places!Count' = Places!Count
      /\ Places!EnrolledHasStudent' <=> Places!EnrolledHasStudent
    BY DEF Places!Applications, Places!Count, Places!EnrolledHasStudent
<1>4. \A x \in Reqs \ {d} : /\ CountHolds(handler[x])' <=> CountHolds(handler[x])
                            /\ ChangeHolds(handler[x])' <=> ChangeHolds(handler[x])
    BY <1>2, <1>3 DEF CountHolds, ChangeHolds
<1>5. \A x \in Reqs : /\ handler'[x].op # "register" => handler'[x].refs = {}
                      /\ handler'[x].op # "change" => handler'[x].ref = None
                      /\ handler'[x].op = "change" => ChangeHolds(handler[x])'
    BY <1>1, <1>2, <1>4 DEF PlacesInv
<1>6. ~history'.gap =>
          /\ Places!Applications' = 1..Places!Count'
          /\ \A x \in Reqs : handler'[x].op = "register" => CountHolds(handler[x])'
    BY <1>1, <1>2, <1>3, <1>4 DEF PlacesInv
<1> QED BY <1>1, <1>2, <1>3, <1>5, <1>6 DEF PlacesInv

\* Columns that differ from those read are written.
LEMMA PlacesChange == ASSUME PlacesInv, NEW d \in Reqs, Places!ChangeCommit(d) PROVE PlacesInv'
<1> DEFINE h == handler[d]
           row == [k \in DOMAIN book[h.ref] |-> IF h.now[k] = h.was[k] THEN book[h.ref][k] ELSE h.now[k]]
<1>1. /\ h.op = "change" /\ ChangeHolds(h) /\ book' = [book EXCEPT ![h.ref] = row]
      /\ handler' = [handler EXCEPT ![d] = Places!NoRequest] /\ UNCHANGED history
    BY DEF Places!ChangeCommit, Places!Close, PlacesInv
<1>2. h.ref \in References /\ book[h.ref] \in Places!Rows /\ h.was \in Places!Rows /\ h.now \in Places!Rows
    BY <1>1 DEF ChangeHolds, Places!Applications, PlacesInv
<1>3. /\ row = [status |-> row.status, student |-> row.student]
      /\ row.status = IF h.now.status = h.was.status THEN book[h.ref].status ELSE h.now.status
      /\ row.student = IF h.now.student = h.was.student THEN book[h.ref].student ELSE h.now.student
    <2>1. DOMAIN book[h.ref] = {"status", "student"}
        BY <1>2 DEF Places!Rows
    <2> QED BY <2>1
<1>4. PICK w : w = row
    OBVIOUS
<1>5. PICK g : g = h
    OBVIOUS
<1> HIDE DEF h, row
<1>6. row \in Places!Rows /\ row # None
    BY <1>2, <1>3, BooksAssumption DEF Places!Rows
<1>7. /\ row.status = "enrolled" => row.student # None
      /\ row.student # None => row.status = "enrolled" \/ h.ref \in history.crossed
      /\ book[h.ref].student # None => row.student # None
      /\ h.ref \notin history.crossed => row = h.now
    <2>1. book[h.ref].status = "enrolled" => book[h.ref].student # None
        BY <1>1, <1>2 DEF PlacesInv, Places!EnrolledHasStudent, ChangeHolds
    <2>2. h.now = [status |-> h.now.status, student |-> h.now.student]
        BY <1>2 DEF Places!Rows
    <2> QED BY <1>1, <1>2, <1>3, <2>1, <2>2 DEF ChangeHolds
<1>8. /\ book' \in [References -> Places!Rows \cup {None}]
      /\ Places!Applications' = Places!Applications /\ Places!Count' = Places!Count
      /\ book'[h.ref] = row /\ \A r \in References \ {h.ref} : book'[r] = book[r]
    <2>1. /\ book' \in [References -> Places!Rows \cup {None}]
          /\ book'[h.ref] = row /\ \A r \in References \ {h.ref} : book'[r] = book[r]
        BY <1>1, <1>2, <1>6 DEF PlacesInv
    <2>2. Places!Applications' = Places!Applications
        BY <1>1, <1>6, <2>1 DEF Places!Applications, ChangeHolds
    <2> QED BY <2>1, <2>2 DEF Places!Count
<1>9. /\ Places!NoRequest \in PlaceWorks /\ Places!NoRequest.op = "none" /\ Places!NoRequest.refs = {}
      /\ Places!NoRequest.ref = None
    BY DEF Places!NoRequest, PlaceWorks
<1>10. /\ handler' \in [Reqs -> PlaceWorks] /\ handler'[d] = Places!NoRequest
       /\ \A x \in Reqs \ {d} : handler'[x] = handler[x]
    BY <1>1, <1>9 DEF PlacesInv
<1>11. Places!EnrolledHasStudent'
    BY <1>1, <1>7, <1>8 DEF PlacesInv, Places!EnrolledHasStudent, Places!Applications
<1>12. ASSUME NEW x \in Reqs \ {d}, handler[x].op = "change" PROVE ChangeHolds(handler[x])'
    <2>1. ChangeHolds(handler[x]) /\ handler'[x] = handler[x]
        BY <1>10, <1>12 DEF PlacesInv
    <2>2. handler[x].ref = h.ref => h.ref \in history.crossed
        BY <1>1, <1>12 DEF PlacesInv, h
    <2>3. handler[x].ref \in References
        BY <2>1 DEF ChangeHolds, Places!Applications
    <2>4. book[handler[x].ref].student # None => book'[handler[x].ref].student # None
        BY <1>7, <1>8, <2>3
    <2>5. handler[x].ref \notin history.crossed => book'[handler[x].ref] = book[handler[x].ref]
        BY <1>8, <2>2, <2>3
    <2> QED BY <1>1, <1>8, <2>1, <2>4, <2>5 DEF ChangeHolds
<1>13. \A x \in Reqs \ {d} : CountHolds(handler[x])' <=> CountHolds(handler[x])
    BY <1>8, <1>10 DEF CountHolds
<1>14. \A x \in Reqs : /\ handler'[x].op # "register" => handler'[x].refs = {}
                       /\ handler'[x].op # "change" => handler'[x].ref = None
                       /\ handler'[x].op = "change" => ChangeHolds(handler[x])'
    BY <1>9, <1>10, <1>12 DEF PlacesInv
<1>15. ~history'.gap =>
          /\ Places!Applications' = 1..Places!Count'
          /\ \A x \in Reqs : handler'[x].op = "register" => CountHolds(handler[x])'
    BY <1>1, <1>8, <1>9, <1>10, <1>13 DEF PlacesInv
<1> QED BY <1>1, <1>8, <1>9, <1>10, <1>11, <1>14, <1>15 DEF PlacesInv

\* Without a gap, a list that finds its references free began with the next one.
LEMMA PlacesRegister == ASSUME PlacesInv, NEW d \in Reqs, Places!RegisterCommit(d) PROVE PlacesInv'
<1> DEFINE h == handler[d]
<1>1. /\ h.op = "register" /\ h.refs \cap Places!Applications = {} /\ h \in PlaceWorks
      /\ book' = [r \in References |-> IF r \in h.refs THEN Places!Fresh ELSE book[r]]
      /\ handler' = [x \in Reqs |-> IF x = d THEN Places!NoRequest
                                    ELSE [handler[x] EXCEPT !.late = @ \/ handler[x].op = "register"]]
      /\ history' = [history EXCEPT !.gap = @ \/ h.bad]
    BY DEF Places!RegisterCommit, PlacesInv
<1>2. Places!Fresh \in Places!Rows /\ Places!Fresh # None /\ Places!Fresh.status # "enrolled" /\ Places!Fresh.student = None
    BY BooksAssumption DEF Places!Fresh, Places!Rows
<1>3. h.refs \subseteq References /\ h.bad \in BOOLEAN
    BY <1>1 DEF PlaceWorks
<1>4. /\ history'.gap = (history.gap \/ h.bad) /\ history'.crossed = history.crossed
      /\ history' \in [gap : BOOLEAN, crossed : SUBSET Places!Applications]
    BY <1>1, <1>3 DEF PlacesInv
<1>5. \A x \in Reqs \ {d} : /\ handler'[x] \in PlaceWorks /\ handler'[x].op = handler[x].op
                            /\ handler'[x].refs = handler[x].refs /\ handler'[x].bad = handler[x].bad
                            /\ handler'[x].ref = handler[x].ref /\ handler'[x].was = handler[x].was
                            /\ handler'[x].now = handler[x].now
                            /\ handler'[x].op = "register" => handler'[x].late
    <2> SUFFICES ASSUME NEW x \in Reqs \ {d}
                 PROVE  /\ handler'[x] \in PlaceWorks /\ handler'[x].op = handler[x].op
                        /\ handler'[x].refs = handler[x].refs /\ handler'[x].bad = handler[x].bad
                        /\ handler'[x].ref = handler[x].ref /\ handler'[x].was = handler[x].was
                        /\ handler'[x].now = handler[x].now
                        /\ handler'[x].op = "register" => handler'[x].late
        OBVIOUS
    <2> DEFINE l == handler[x].late \/ handler[x].op = "register"
    <2>1. handler'[x] = [handler[x] EXCEPT !.late = l]
        BY <1>1
    <2>2. handler[x] \in PlaceWorks
        BY DEF PlacesInv
    <2>3. l \in BOOLEAN /\ (handler[x].op = "register" => l)
        BY <2>2 DEF PlaceWorks
    <2> HIDE DEF l
    <2> QED BY <2>1, <2>2, <2>3 DEF PlaceWorks
<1>6. /\ Places!NoRequest \in PlaceWorks /\ Places!NoRequest.op = "none" /\ Places!NoRequest.refs = {}
      /\ Places!NoRequest.ref = None /\ handler'[d] = Places!NoRequest
    BY <1>1 DEF Places!NoRequest, PlaceWorks
<1> HIDE DEF h
<1>7. /\ book' \in [References -> Places!Rows \cup {None}] /\ Places!Applications' = Places!Applications \cup h.refs
      /\ \A r \in Places!Applications : book'[r] = book[r]
      /\ \A r \in h.refs : book'[r] = Places!Fresh
    <2>1. book' \in [References -> Places!Rows \cup {None}]
        BY <1>1, <1>2 DEF PlacesInv
    <2>2. \A r \in References : book'[r] # None <=> r \in h.refs \/ book[r] # None
        BY <1>1, <1>2
    <2>3. Places!Applications' = Places!Applications \cup h.refs
        BY <1>3, <2>2 DEF Places!Applications
    <2> QED BY <1>1, <1>3, <2>1, <2>3 DEF Places!Applications
<1>8. Places!EnrolledHasStudent'
    BY <1>2, <1>4, <1>7 DEF PlacesInv, Places!EnrolledHasStudent
<1>9. ASSUME NEW x \in Reqs \ {d}, handler[x].op = "change" PROVE ChangeHolds(handler[x])'
    <2>1. ChangeHolds(handler[x])
        BY <1>9 DEF PlacesInv
    <2>2. book'[handler[x].ref] = book[handler[x].ref]
        BY <1>7, <2>1 DEF ChangeHolds
    <2> QED BY <1>4, <1>5, <1>7, <2>1, <2>2 DEF ChangeHolds
<1>10. \A x \in Reqs : /\ handler'[x].op # "register" => handler'[x].refs = {}
                       /\ handler'[x].op # "change" => handler'[x].ref = None
                       /\ handler'[x].op = "change" => ChangeHolds(handler[x])'
    BY <1>5, <1>6, <1>9 DEF PlacesInv
<1>11. \A x, y \in Reqs : (/\ handler'[x].op = "change" /\ handler'[y].op = "change"
                           /\ handler'[x].ref = handler'[y].ref /\ handler'[x].ref \notin history'.crossed) => x = y
    BY <1>4, <1>5, <1>6 DEF PlacesInv
<1>12. ASSUME ~history'.gap
       PROVE  /\ Places!Applications' = 1..Places!Count' /\ Places!Count <= Places!Count'
    <2> DEFINE m == Places!Count
    <2>1. ~history.gap /\ ~h.bad /\ m \in Nat
        BY <1>4, <1>12, CountIsNat
    <2>2. CountHolds(h) /\ Places!Applications = 1..m
        BY <1>1, <2>1 DEF PlacesInv, h
    <2>3. PICK c \in 0..m, k \in Nat : h.refs = (c + 1)..(c + k)
        BY <2>1, <2>2 DEF CountHolds
    <2> HIDE DEF m
    <2>4. \E n \in Nat : Places!Applications' = 1..n /\ m <= n
        <3>1. CASE k = 0
            <4>1. h.refs = {}
                BY <2>1, <2>3, <3>1
            <4> QED BY <1>7, <2>1, <2>2, <4>1
        <3>2. CASE k # 0
            <4>1. c + 1 \in h.refs
                BY <2>1, <2>3, <3>2
            <4>2. c = m
                BY <1>1, <2>1, <2>2, <2>3, <4>1
            <4>3. Places!Applications' = 1..(m + k)
                BY <1>7, <2>1, <2>2, <2>3, <4>2
            <4>4. m + k \in Nat /\ m <= m + k
                BY <2>1, <2>3
            <4> QED BY <4>3, <4>4
        <3> QED BY <3>1, <3>2
    <2>5. PICK n \in Nat : Places!Applications' = 1..n /\ m <= n
        BY <2>4
    <2>6. Places!Count' = n
        <3>1. Places!Count' = Cardinality(Places!Applications')
            BY PlacesCardinality DEF Places!Count
        <3>2. Cardinality(1..n) = n
            BY FS_Interval
        <3> QED BY <2>5, <3>1, <3>2
    <2> QED BY <2>5, <2>6 DEF m
<1>13. ASSUME ~history'.gap, NEW x \in Reqs, handler'[x].op = "register" PROVE CountHolds(handler[x])'
    <2>1. x # d /\ ~history.gap
        BY <1>4, <1>6, <1>13
    <2>2. CountHolds(handler[x])
        BY <1>5, <1>13, <2>1 DEF PlacesInv
    <2>3. PICK c \in 0..Places!Count : /\ \A r \in handler[x].refs : r > c
                                       /\ ~handler[x].bad => \E k \in Nat : handler[x].refs = (c + 1)..(c + k)
        BY <2>2 DEF CountHolds
    <2>4. c \in 0..Places!Count'
        BY <1>12, <1>13, CountIsNat
    <2>5. handler'[x].late /\ handler'[x].refs = handler[x].refs /\ handler'[x].bad = handler[x].bad
        BY <1>5, <1>13, <2>1
    <2> QED BY <2>3, <2>4, <2>5 DEF CountHolds
<1>14. handler' \in [Reqs -> PlaceWorks]
    BY <1>1, <1>5, <1>6
<1>15. history' \in [gap : BOOLEAN, crossed : SUBSET Places!Applications']
    BY <1>4, <1>7
<1> QED BY <1>7, <1>8, <1>10, <1>11, <1>12, <1>13, <1>14, <1>15 DEF PlacesInv

\* What a list asks for continues what is counted.
LEMMA ListFacts ==
    ASSUME NEW rows \in Places!Lists, NEW c \in Nat, c + Len(rows) \in References
    PROVE  LET good == {i \in DOMAIN rows : rows[i]}
               refs == {c + i : i \in good}
               bad == \E i \in DOMAIN rows \ good : \E j \in good : i < j
           IN  /\ refs \subseteq References /\ \A r \in refs : r > c
               /\ bad \in BOOLEAN
               /\ ~bad => \E k \in Nat : refs = (c + 1)..(c + k)
<1> DEFINE good == {i \in DOMAIN rows : rows[i]}
           refs == {c + i : i \in good}
           bad == \E i \in DOMAIN rows \ good : \E j \in good : i < j
<1>1. PICK n \in Nat : References = 1..n
    BY BooksAssumption, FS_CardinalityType
<1>2. \/ rows = <<TRUE>> \/ rows = <<TRUE, TRUE>> \/ rows = <<FALSE, TRUE>> \/ rows = <<TRUE, FALSE>>
    BY DEF Places!Lists
<1>3. DOMAIN rows = 1..Len(rows) /\ Len(rows) \in Nat
    BY <1>2
<1>4. \/ Len(rows) = 1 /\ rows[1]
      \/ Len(rows) = 2 /\ rows[1] /\ rows[2]
      \/ Len(rows) = 2 /\ ~rows[1] /\ rows[2]
      \/ Len(rows) = 2 /\ rows[1] /\ ~rows[2]
    <2>1. CASE rows = <<TRUE>>
        <3>1. Len(rows) = 1
            BY <2>1
        <3>2. rows[1]
            BY <2>1
        <3> QED BY <3>1, <3>2
    <2>2. CASE rows = <<TRUE, TRUE>>
        <3>1. Len(rows) = 2
            BY <2>2
        <3>2. rows[1]
            BY <2>2
        <3>3. rows[2]
            BY <2>2
        <3> QED BY <3>1, <3>2, <3>3
    <2>3. CASE rows = <<FALSE, TRUE>>
        <3>1. Len(rows) = 2
            BY <2>3
        <3>2. ~rows[1]
            BY <2>3
        <3>3. rows[2]
            BY <2>3
        <3> QED BY <3>1, <3>2, <3>3
    <2>4. CASE rows = <<TRUE, FALSE>>
        <3>1. Len(rows) = 2
            BY <2>4
        <3>2. rows[1]
            BY <2>4
        <3>3. ~rows[2]
            BY <2>4
        <3> QED BY <3>1, <3>2, <3>3
    <2> QED BY <1>2, <2>1, <2>2, <2>3, <2>4
<1> HIDE <1>2
<1>6. refs \subseteq References /\ \A r \in refs : r > c
    BY <1>1, <1>3
<1>7. ~bad => \E k \in Nat : refs = (c + 1)..(c + k)
    <2>1. CASE Len(rows) = 1 /\ rows[1]
        <3>1. good = {1}
            BY <1>3, <2>1
        <3>2. refs = (c + 1)..(c + 1)
            BY <3>1
        <3> QED BY <3>2
    <2>2. CASE Len(rows) = 2 /\ rows[1] /\ rows[2]
        <3>1. good = {1, 2}
            BY <1>3, <2>2
        <3>2. refs = (c + 1)..(c + 2)
            <4> HIDE DEF good
            <4>1. refs = {c + 1, c + 2}
                BY <3>1
            <4>2. (c + 1)..(c + 2) = {c + 1, c + 2}
                OBVIOUS
            <4> QED BY <4>1, <4>2
        <3> QED BY <3>2
    <2>3. CASE Len(rows) = 2 /\ ~rows[1] /\ rows[2]
        <3>1. 1 \in DOMAIN rows \ good /\ 2 \in good /\ 1 < 2
            BY <1>3, <2>3
        <3> HIDE DEF good
        <3> QED BY <3>1
    <2>4. CASE Len(rows) = 2 /\ rows[1] /\ ~rows[2]
        <3>1. good = {1}
            BY <1>3, <2>4
        <3>2. refs = (c + 1)..(c + 1)
            BY <3>1
        <3> QED BY <3>2
    <2> QED BY <1>4, <2>1, <2>2, <2>3, <2>4
<1>5. bad \in BOOLEAN
    OBVIOUS
<1> QED BY <1>5, <1>6, <1>7

LEMMA PlacesStep == ASSUME PlacesInv, Places!Next PROVE PlacesInv'
<1>1. ASSUME NEW d \in Reqs, NEW rows \in Places!Lists, Places!RegisterRead(d, rows) PROVE PlacesInv'
    <2> DEFINE c == Places!Count
               good == {i \in DOMAIN rows : rows[i]}
               refs == {c + i : i \in good}
               bad == \E i \in DOMAIN rows \ good : \E j \in good : i < j
               h == [Places!NoRequest EXCEPT !.op = "register", !.refs = refs, !.bad = bad]
    <2>1. /\ handler[d] = Places!NoRequest /\ c + Len(rows) \in References
          /\ handler' = [handler EXCEPT ![d] = h] /\ UNCHANGED <<book, history>>
        <3>1. c + Len(rows) \in References
            BY <1>1 DEF Places!RegisterRead
        <3> QED BY <1>1, <3>1 DEF Places!RegisterRead
    <2>2. c \in Nat
        BY CountIsNat
    <2>3. /\ refs \subseteq References /\ \A r \in refs : r > c
          /\ bad \in BOOLEAN
          /\ ~bad => \E k \in Nat : refs = (c + 1)..(c + k)
        <3> HIDE DEF c
        <3> QED BY <2>1, <2>2, ListFacts
    <2> HIDE DEF refs, bad, c
    <2>4. h \in PlaceWorks /\ h.op = "register" /\ h.ref = None /\ h.refs = refs /\ h.bad = bad /\ h.late = FALSE
        BY <2>3 DEF PlaceWorks, Places!NoRequest
    <2> HIDE DEF h
    <2>5. CountHolds(h)
        BY <2>2, <2>3, <2>4 DEF CountHolds, c
    <2> QED BY <2>1, <2>4, <2>5, PlacesBegin
<1>2. ASSUME NEW d \in Reqs, NEW r \in Places!Applications, NEW now \in Places!Rows, Places!Change(d, r, now),
             book[r].student # None => now.student # None, now.status = "enrolled" => now.student # None,
             book[r].status = "enrolled" => now.status = "enrolled",
             r \notin history.crossed /\ now.student # None => now.status = "enrolled"
      PROVE  PlacesInv'
    <2> DEFINE h == [Places!NoRequest EXCEPT !.op = "change", !.ref = r, !.was = book[r], !.now = now]
    <2>1. /\ handler[d] = Places!NoRequest /\ handler' = [handler EXCEPT ![d] = h] /\ UNCHANGED book
          /\ history' = [history EXCEPT !.crossed = IF \E x \in Reqs : handler[x].ref = r THEN @ \cup {r} ELSE @]
        BY <1>2 DEF Places!Change
    <2>2. r \in References /\ book[r] \in Places!Rows
        BY DEF Places!Applications, PlacesInv
    <2>3. /\ h \in PlaceWorks /\ h.op = "change" /\ h.refs = {} /\ h.ref = r /\ h.was = book[r] /\ h.now = now
        BY <2>2 DEF PlaceWorks, Places!NoRequest
    <2> HIDE DEF h
    <2>4. ChangeHolds(h)
        BY <1>2, <2>2, <2>3 DEF ChangeHolds
    <2> QED BY <2>1, <2>3, <2>4, PlacesBegin
<1>3. ASSUME NEW d \in Reqs, NEW r \in Places!Applications, NEW to \in Places!Transitions(book[r].status),
             Places!UpdateRead(d, r, to)
      PROVE  PlacesInv'
    <2> DEFINE now == [book[r] EXCEPT !.status = to]
    <2>1. r \in References /\ book[r] \in Places!Rows
        BY DEF Places!Applications, PlacesInv
    <2>2. book[r].status # "enrolled" /\ to \in {"application", "interview", "accepted", "enrolled", "withdrawn"}
        BY <2>1 DEF Places!Transitions, Places!Rows
    <2>3. now \in Places!Rows /\ now.status = to /\ now.student = book[r].student
        BY <2>1, <2>2 DEF Places!Rows
    <2>4. Places!Change(d, r, now) /\ (to = "enrolled" => book[r].student # None)
        BY <1>3 DEF Places!UpdateRead
    <2>5. r \notin history.crossed => book[r].student = None
        BY <2>2 DEF PlacesInv, Places!EnrolledHasStudent
    <2> HIDE DEF now
    <2> QED BY <1>2, <2>2, <2>3, <2>4, <2>5
<1>4. ASSUME NEW d \in Reqs, NEW r \in Places!Applications, NEW s \in Students, Places!LinkRead(d, r, s)
      PROVE  PlacesInv'
    <2> DEFINE now == [status |-> "enrolled", student |-> s]
    <2>1. now \in Places!Rows /\ now.status = "enrolled" /\ now.student # None
        BY BooksAssumption DEF Places!Rows
    <2>2. Places!Change(d, r, now)
        BY <1>4 DEF Places!LinkRead
    <2> HIDE DEF now
    <2> QED BY <1>2, <2>1, <2>2
<1>5. ASSUME NEW d \in Reqs, Places!Abandon(d) PROVE PlacesInv'
    BY <1>5, PlacesEnd DEF Places!Abandon
<1> QED BY <1>1, <1>3, <1>4, <1>5, PlacesChange, PlacesRegister DEF Places!Next

LEMMA PlacesSame == ASSUME PlacesInv, UNCHANGED <<book, handler, history>> PROVE PlacesInv'
<1>1. Places!Applications' = Places!Applications /\ Places!Count' = Places!Count
    BY DEF Places!Applications, Places!Count
<1>2. \A d \in Reqs : /\ ChangeHolds(handler[d])' <=> ChangeHolds(handler[d])
                      /\ CountHolds(handler[d])' <=> CountHolds(handler[d])
    BY <1>1 DEF ChangeHolds, CountHolds
<1>3. Places!EnrolledHasStudent' <=> Places!EnrolledHasStudent
    BY <1>1 DEF Places!EnrolledHasStudent
<1> QED BY <1>1, <1>2, <1>3 DEF PlacesInv

LEMMA PlacesHold == ASSUME PlacesInv PROVE Places!TypeOK /\ Places!EnrolledHasStudent /\ Places!ReferencesAreFree
<1>1. ASSUME NEW d \in Reqs, handler[d].refs \cap Places!Applications # {}, ~handler[d].late, ~history.gap
      PROVE  FALSE
    <2>1. handler[d].op = "register" /\ CountHolds(handler[d]) /\ Places!Applications = 1..Places!Count
        BY <1>1 DEF PlacesInv
    <2>2. \A r \in handler[d].refs : r > Places!Count
        BY <1>1, <2>1 DEF CountHolds
    <2>3. Places!Count \in Nat
        BY CountIsNat
    <2> QED BY <1>1, <2>1, <2>2, <2>3
<1>2. Places!TypeOK
    BY DEF PlacesInv, Places!TypeOK, Places!Applications
<1> QED BY <1>1, <1>2 DEF PlacesInv, Places!ReferencesAreFree

\* Whoever is enrolled stays enrolled.
LEMMA PlacesFinal == ASSUME PlacesInv, Places!Next PROVE Places!EnrolledStays
<1> SUFFICES ASSUME NEW r \in Places!Applications \ history'.crossed, book[r].status = "enrolled"
             PROVE  book'[r].status = "enrolled"
    BY DEF Places!EnrolledStays
<1>1. ASSUME NEW d \in Reqs, Places!RegisterCommit(d) PROVE book'[r] = book[r]
    BY <1>1 DEF Places!RegisterCommit, Places!Applications
<1>2. ASSUME NEW d \in Reqs, Places!ChangeCommit(d) PROVE book'[r].status = "enrolled"
    <2> DEFINE h == handler[d]
    <2>1. /\ ChangeHolds(h) /\ history' = history
          /\ book' = [book EXCEPT ![h.ref] =
                 [k \in DOMAIN @ |-> IF h.now[k] = h.was[k] THEN @[k] ELSE h.now[k]]]
        BY <1>2 DEF Places!ChangeCommit, PlacesInv
    <2>2. r \in References /\ book[r] \in Places!Rows
        BY DEF Places!Applications, PlacesInv
    <2> HIDE DEF h
    <2>3. CASE h.ref = r
        <3>1. h.was = book[r] /\ h.now.status = "enrolled" /\ DOMAIN book[r] = {"status", "student"}
            BY <2>1, <2>2, <2>3 DEF ChangeHolds, Places!Rows
        <3>2. book'[r] = [k \in {"status", "student"} |-> IF h.now[k] = h.was[k] THEN book[r][k] ELSE h.now[k]]
            BY <2>1, <2>2, <2>3, <3>1 DEF PlacesInv
        <3> QED BY <3>1, <3>2
    <2>4. CASE h.ref # r
        BY <2>1, <2>2, <2>4 DEF PlacesInv
    <2> QED BY <2>3, <2>4
<1>3. ASSUME UNCHANGED book PROVE book'[r].status = "enrolled"
    BY <1>3
<1> QED BY <1>1, <1>2, <1>3
        DEF Places!Next, Places!RegisterRead, Places!UpdateRead, Places!LinkRead, Places!Change, Places!Abandon


-----------------------------------------------------------------------------
(* Payroll                                                                 *)

LEMMA WagesCardinality == \A S : Wages!Cardinality(S) = Cardinality(S)
BY DEF Wages!Cardinality, Cardinality

\* Nobody's pay adds up to nothing.
LEMMA NothingPaid ==
    ASSUME NEW lines \in [Students -> {0}]
    PROVE  Wages!Sum(lines) = 0
<1> DEFINE D(it) == it = [E \in SUBSET Students |->
                            IF E = {} THEN 0 ELSE LET e == CHOOSE e \in E : TRUE IN lines[e] + it[E \ {e}]]
<1>1. D([E \in SUBSET Students |-> 0])
    <2> DEFINE z == [E \in SUBSET Students |-> 0]
    <2>1. \A E \in SUBSET Students : E # {} => lines[CHOOSE e \in E : TRUE] + z[E \ {CHOOSE e \in E : TRUE}] = 0
        <3> SUFFICES ASSUME NEW E \in SUBSET Students, E # {}
                     PROVE  lines[CHOOSE e \in E : TRUE] + z[E \ {CHOOSE e \in E : TRUE}] = 0
            OBVIOUS
        <3> DEFINE e == CHOOSE e \in E : TRUE
        <3>1. e \in Students /\ E \ {e} \in SUBSET Students
            OBVIOUS
        <3> HIDE DEF e
        <3>2. lines[e] = 0 /\ z[E \ {e}] = 0
            BY <3>1
        <3> QED BY <3>2 DEF e
    <2> QED BY <2>1
<1>2. D(CHOOSE it : D(it))
    <2> HIDE DEF D
    <2>1. \E it : D(it)
        BY <1>1
    <2> QED BY <2>1
<1> DEFINE s == CHOOSE it : D(it)
<1>3. Wages!Sum(lines) = s[Students]
    BY DEF Wages!Sum
<1> HIDE DEF s
<1>4. s = [E \in SUBSET Students |->
              IF E = {} THEN 0 ELSE LET e == CHOOSE e \in E : TRUE IN lines[e] + s[E \ {e}]]
    BY <1>2 DEF s
<1> DEFINE T == {E \in SUBSET Students : s[E] = 0}
<1>5. ASSUME NEW E \in SUBSET Students, \A F \in SUBSET E : F # E => F \in T PROVE E \in T
    <2>1. CASE E = {}
        BY <1>4, <2>1
    <2>2. CASE E # {}
        <3> DEFINE e == CHOOSE e \in E : TRUE
        <3>1. e \in E /\ s[E] = lines[e] + s[E \ {e}]
            BY <1>4, <2>2
        <3> HIDE DEF e
        <3>2. s[E \ {e}] = 0
            BY <1>5, <3>1
        <3> QED BY <3>1, <3>2
    <2> QED BY <2>1, <2>2
<1> HIDE DEF T
<1>6. T \in SUBSET (SUBSET Students)
    BY DEF T
<1>7. T = SUBSET Students
    BY <1>5, <1>6, SubsetInduction, BooksAssumption
<1> QED BY <1>3, <1>7 DEF T


IsRun(r) == /\ r = [status |-> r.status, total |-> r.total, count |-> r.count]
            /\ r.status \in {"none", "draft", "finalized"}

\* Until two requests overlap a handler knows the run, and what it has cleared are
\* the lines there are; at all times it may compute or finalize what it read.
WageHolds(h) ==
    /\ h = [op |-> h.op, was |-> h.was, cleared |-> h.cleared, pay |-> h.pay]
    /\ h.op \in {"none", "clear", "count", "compute", "finalize"}
    /\ h.op = "none" => h = Wages!NoRequest
    /\ h.pay \in [Students -> Salaries]
    /\ h.op \in {"clear", "count", "compute"} => h.was.status # "finalized"
    /\ h.op = "finalize" => h.was.status = "draft" /\ book.run.status # "none"
    /\ ~history.crossed =>
          /\ h.op # "none" => h.was = book.run
          /\ h.op \in {"count", "compute"} => h.cleared = Wages!Paid(book.lines)

WageRows(b) ==
    /\ b = [salary |-> b.salary, run |-> b.run, lines |-> b.lines, types |-> b.types]
    /\ b.salary \in [Students -> Salaries] /\ b.lines \in [Students -> Salaries] /\ IsRun(b.run)
    /\ b.run.status = "none" => b.run = Wages!NoRun /\ Wages!Paid(b.lines) = {}

WagesInv ==
    /\ WageRows(book)
    /\ handler = [d \in Reqs |-> handler[d]]
    /\ DOMAIN history = {"crossed", "seeds", "listed", "refused"} /\ history.crossed \in BOOLEAN
    /\ \A d \in Reqs : WageHolds(handler[d])
    /\ ~history.crossed => \A d, x \in Reqs :
           handler[d] # Wages!NoRequest /\ handler[x] # Wages!NoRequest => d = x
    /\ Wages!RunAddsUp

LEMMA WagesStart == ASSUME Wages!Init PROVE WagesInv
<1>1. /\ book = [salary |-> Wages!Nobody, run |-> Wages!NoRun, lines |-> Wages!Nobody, types |-> None]
      /\ handler = [d \in Reqs |-> Wages!NoRequest]
      /\ history = [crossed |-> FALSE, seeds |-> 0, listed |-> None, refused |-> FALSE]
    BY DEF Wages!Init
<1>2. Wages!Nobody \in [Students -> {0}] /\ Wages!Nobody \in [Students -> Salaries]
    BY BooksAssumption DEF Wages!Nobody
<1>3. Wages!Sum(Wages!Nobody) = 0
    BY <1>2, NothingPaid
<1>4. Wages!Paid(Wages!Nobody) = {} /\ Wages!Cardinality(Wages!Paid(Wages!Nobody)) = 0
    <2>1. Wages!Paid(Wages!Nobody) = {}
        BY DEF Wages!Paid, Wages!Nobody
    <2> QED BY <2>1, WagesCardinality, FS_EmptySet
<1>5. IsRun(Wages!NoRun) /\ Wages!NoRun.total = 0 /\ Wages!NoRun.count = 0 /\ Wages!NoRun.status = "none"
    BY DEF IsRun, Wages!NoRun
<1>6. WageRows(book)
    BY <1>1, <1>2, <1>4, <1>5 DEF WageRows
<1>7. WageHolds(Wages!NoRequest)
    BY <1>2 DEF WageHolds, Wages!NoRequest
<1>8. Wages!RunAddsUp
    BY <1>1, <1>3, <1>4, <1>5 DEF Wages!RunAddsUp
<1> QED BY <1>1, <1>6, <1>7, <1>8 DEF WagesInv

\* A handler goes on by itself: the book and what is excepted stay as they are.
LEMMA WagesWork ==
    ASSUME WagesInv, NEW d \in Reqs, NEW h, handler' = [handler EXCEPT ![d] = h], UNCHANGED <<book, history>>,
           WageHolds(h), h = Wages!NoRequest \/ handler[d] # Wages!NoRequest
    PROVE  WagesInv'
<1>1. /\ handler' = [x \in Reqs |-> handler'[x]] /\ handler'[d] = h
      /\ \A x \in Reqs \ {d} : handler'[x] = handler[x]
    BY DEF WagesInv
<1>2. WageHolds(handler[d])'
    BY <1>1 DEF WageHolds, Wages!Paid
<1>3. \A x \in Reqs \ {d} : WageHolds(handler[x])'
    BY <1>1 DEF WageHolds, Wages!Paid, WagesInv
<1>4. WageRows(book)' /\ Wages!RunAddsUp'
    BY DEF WagesInv, WageRows, Wages!RunAddsUp, Wages!Paid, Wages!Sum
<1> QED BY <1>1, <1>2, <1>3, <1>4 DEF WagesInv

\* What comes about beside the run.
LEMMA WagesBeside ==
    ASSUME WagesInv, UNCHANGED handler, WageRows(book'), book'.run = book.run, book'.lines = book.lines,
           DOMAIN history' = {"crossed", "seeds", "listed", "refused"}, history'.crossed = history.crossed
    PROVE  WagesInv'
<1>1. \A x \in Reqs : WageHolds(handler[x])'
    BY DEF WageHolds, Wages!Paid, WagesInv
<1>2. Wages!RunAddsUp'
    BY DEF WagesInv, Wages!RunAddsUp, Wages!Paid, Wages!Sum
<1>3. WageRows(book)'
    BY DEF WageRows, Wages!Paid
<1> QED BY <1>1, <1>2, <1>3 DEF WagesInv

LEMMA WagesBegin ==
    ASSUME WagesInv, NEW d \in Reqs, NEW op \in {"clear", "finalize"}, Wages!Begin(d, op),
           op = "clear" => book.run.status # "finalized", op = "finalize" => book.run.status = "draft"
    PROVE  WagesInv'
<1> DEFINE h == [Wages!NoRequest EXCEPT !.op = op, !.was = book.run]
           met == history.crossed \/ \E x \in Reqs : handler[x] # Wages!NoRequest
<1>1. /\ handler[d] = Wages!NoRequest /\ handler' = [handler EXCEPT ![d] = h] /\ UNCHANGED book
      /\ history' = [history EXCEPT !.crossed = met]
    BY DEF Wages!Begin
<1>2. h = [op |-> op, was |-> book.run, cleared |-> {}, pay |-> Wages!Nobody]
    <2>1. PICK n, p, w : n = Wages!NoRun /\ p = Wages!Nobody /\ w = book.run
        OBVIOUS
    <2>2. Wages!NoRequest = [op |-> "none", was |-> n, cleared |-> {}, pay |-> p]
        BY <2>1 DEF Wages!NoRequest
    <2>3. h = [Wages!NoRequest EXCEPT !.op = op, !.was = w]
        BY <2>1
    <2> HIDE DEF h
    <2>4. h = [op |-> op, was |-> w, cleared |-> {}, pay |-> p]
        BY <2>2, <2>3
    <2> QED BY <2>1, <2>4
<1>3. met \in BOOLEAN /\ (~met => ~history.crossed /\ \A x \in Reqs : handler[x] = Wages!NoRequest)
    BY DEF WagesInv
<1> HIDE DEF h, met
<1>4. /\ DOMAIN history' = {"crossed", "seeds", "listed", "refused"} /\ history'.crossed = met
    BY <1>1 DEF WagesInv
<1>5. /\ handler' = [x \in Reqs |-> handler'[x]] /\ handler'[d] = h
      /\ \A x \in Reqs \ {d} : handler'[x] = handler[x]
    BY <1>1 DEF WagesInv
<1>6. Wages!Nobody \in [Students -> Salaries]
    BY BooksAssumption DEF Wages!Nobody
<1>7. WageHolds(handler[d])'
    BY <1>1, <1>2, <1>5, <1>6 DEF WageHolds
<1>8. ASSUME NEW x \in Reqs \ {d} PROVE WageHolds(handler[x])'
    BY <1>1, <1>3, <1>4, <1>5 DEF WageHolds, WagesInv, Wages!Paid
<1>9. WageRows(book)' /\ Wages!RunAddsUp'
    BY <1>1, <1>3, <1>4 DEF WagesInv, WageRows, Wages!RunAddsUp, Wages!Paid, Wages!Sum
<1> QED BY <1>3, <1>4, <1>5, <1>7, <1>8, <1>9 DEF WagesInv

\* A computation alone replaces the lines by those of the salaries it read.
LEMMA WagesCompute == ASSUME WagesInv, NEW d \in Reqs, Wages!ComputeCommit(d) PROVE WagesInv'
<1> DEFINE h == handler[d]
           total == Wages!Sum(h.pay)
           count == Wages!Cardinality(Wages!Paid(h.pay))
           lines == Wages!LinesAfter(h)
           run == [book.run EXCEPT
                      !.status = IF @ = "none" THEN "draft" ELSE @,
                      !.total = IF total = h.was.total THEN @ ELSE total,
                      !.count = IF count = h.was.count THEN @ ELSE count]
<1>1. /\ h.op = "compute" /\ WageHolds(h) /\ UNCHANGED history
      /\ book' = [book EXCEPT !.lines = lines,
                     !.run.status = IF @ = "none" THEN "draft" ELSE @,
                     !.run.total = IF total = h.was.total THEN @ ELSE total,
                     !.run.count = IF count = h.was.count THEN @ ELSE count]
      /\ handler' = [x \in Reqs |-> IF x = d THEN Wages!NoRequest
                                    ELSE [handler[x] EXCEPT !.cleared = @ \ h.cleared]]
    BY DEF Wages!ComputeCommit, WagesInv
<1>2. WageRows(book)
    BY DEF WagesInv
<1>3. lines \in [Students -> Salaries]
    BY <1>1, <1>2, BooksAssumption DEF Wages!LinesAfter, WageHolds, WageRows
<1>4. ~history.crossed => lines = h.pay
    <2> SUFFICES ASSUME ~history.crossed PROVE lines = h.pay
        OBVIOUS
    <2>1. h.cleared = Wages!Paid(book.lines) /\ h.pay \in [Students -> Salaries]
        BY <1>1 DEF WageHolds
    <2>2. ASSUME NEW e \in Students PROVE lines[e] = h.pay[e]
        <3>1. h.pay[e] \in Nat /\ book.lines[e] \in Nat
            BY <1>2, <2>1, BooksAssumption DEF WageRows
        <3>2. e \notin h.cleared => book.lines[e] = 0
            BY <2>1, <3>1 DEF Wages!Paid
        <3> QED BY <3>1, <3>2 DEF Wages!LinesAfter
    <2> HIDE DEF lines
    <2> QED BY <1>3, <2>1, <2>2
<1>5. PICK t, c, l : t = total /\ c = count /\ l = lines
    OBVIOUS
<1>6. PICK w : w = h.was
    OBVIOUS
<1>7. /\ book' = [salary |-> book.salary, run |-> book'.run, lines |-> l, types |-> book.types]
      /\ book'.run = [status |-> IF book.run.status = "none" THEN "draft" ELSE book.run.status,
                      total |-> IF t = w.total THEN book.run.total ELSE t,
                      count |-> IF c = w.count THEN book.run.count ELSE c]
    <2> HIDE DEF total, count, lines, h
    <2>1. book' = [book EXCEPT !.lines = l,
                     !.run.status = IF @ = "none" THEN "draft" ELSE @,
                     !.run.total = IF t = w.total THEN @ ELSE t,
                     !.run.count = IF c = w.count THEN @ ELSE c]
        BY <1>1, <1>5, <1>6
    <2>2. /\ book = [salary |-> book.salary, run |-> book.run, lines |-> book.lines, types |-> book.types]
          /\ book.run = [status |-> book.run.status, total |-> book.run.total, count |-> book.run.count]
        BY <1>2 DEF WageRows, IsRun
    <2> QED BY <2>1, <2>2
<1>8. WageRows(book)' /\ book'.run.status # "none"
    BY <1>2, <1>3, <1>5, <1>7 DEF WageRows, IsRun
<1>9. Wages!RunAddsUp'
    <2> SUFFICES ASSUME ~history.crossed
                 PROVE  /\ book'.run.total = Wages!Sum(book'.lines)
                        /\ book'.run.count = Wages!Cardinality(Wages!Paid(book'.lines))
        BY <1>1 DEF Wages!RunAddsUp
    <2>1. l = h.pay /\ w = book.run
        BY <1>1, <1>4, <1>5, <1>6 DEF WageHolds
    <2>2. t = Wages!Sum(l) /\ c = Wages!Cardinality(Wages!Paid(l))
        BY <1>5, <2>1
    <2> HIDE DEF h, total, count, lines
    <2>3. book'.run.total = t /\ book'.run.count = c /\ book'.lines = l
        BY <1>7, <2>1
    <2> QED BY <2>2, <2>3
<1>10. handler'[d] = Wages!NoRequest /\ handler' = [x \in Reqs |-> handler'[x]]
       /\ WageHolds(Wages!NoRequest)
    BY <1>1, BooksAssumption DEF WageHolds, Wages!NoRequest, Wages!Nobody
<1>11. ASSUME NEW x \in Reqs \ {d}
       PROVE  /\ WageHolds(handler[x])' /\ (handler[x] = Wages!NoRequest => handler'[x] = Wages!NoRequest)
              /\ ~history.crossed => handler'[x] = Wages!NoRequest
    <2>1. WageHolds(handler[x]) /\ handler'[x] = [handler[x] EXCEPT !.cleared = @ \ h.cleared]
        BY <1>1 DEF WagesInv
    <2>2. PICK k : k = handler[x].cleared \ h.cleared
        OBVIOUS
    <2>3. handler'[x] = [op |-> handler[x].op, was |-> handler[x].was, cleared |-> k, pay |-> handler[x].pay]
        <3>1. handler[x] = [op |-> handler[x].op, was |-> handler[x].was, cleared |-> handler[x].cleared, pay |-> handler[x].pay]
            BY <2>1 DEF WageHolds
        <3> HIDE DEF h
        <3> QED BY <2>1, <2>2, <3>1
    <2>4. handler[x] = Wages!NoRequest => handler'[x] = Wages!NoRequest
        BY <2>2, <2>3 DEF Wages!NoRequest
    <2>5. CASE ~history.crossed
        <3>1. h # Wages!NoRequest
            BY <1>1 DEF Wages!NoRequest
        <3>2. handler[x] = Wages!NoRequest
            BY <2>5, <3>1 DEF WagesInv
        <3> QED BY <1>10, <2>4, <3>2 DEF WageHolds, Wages!NoRequest
    <2>6. CASE history.crossed
        <3>1. handler[x].op = "none" => handler'[x] = Wages!NoRequest
            BY <2>1, <2>4 DEF WageHolds
        <3> QED BY <1>1, <1>8, <2>1, <2>3, <2>4, <2>6, <3>1 DEF WageHolds
    <2> QED BY <2>5, <2>6
<1>12. WageHolds(handler[d])'
    BY <1>10 DEF WageHolds, Wages!NoRequest
<1> QED BY <1>1, <1>8, <1>9, <1>10, <1>11, <1>12 DEF WagesInv

LEMMA WagesStep == ASSUME WagesInv, Wages!Next PROVE WagesInv'
<1>0. WageHolds(Wages!NoRequest) /\ WageRows(book)
    BY BooksAssumption DEF WageHolds, Wages!NoRequest, Wages!Nobody, WagesInv
<1>1. ASSUME NEW e \in Students, NEW s \in Salaries, Wages!SetSalary(e, s) PROVE WagesInv'
    <2>1. book' = [book EXCEPT !.salary[e] = s] /\ UNCHANGED <<handler, history>>
        BY <1>1 DEF Wages!SetSalary
    <2>2. PICK a : a = [book.salary EXCEPT ![e] = s]
        OBVIOUS
    <2>3. a \in [Students -> Salaries]
        BY <1>0, <2>2 DEF WageRows
    <2>4. book' = [salary |-> a, run |-> book.run, lines |-> book.lines, types |-> book.types]
        BY <1>0, <2>1, <2>2 DEF WageRows
    <2>5. WageRows(book') /\ book'.run = book.run /\ book'.lines = book.lines
        BY <1>0, <2>3, <2>4 DEF WageRows
    <2>6. DOMAIN history' = {"crossed", "seeds", "listed", "refused"} /\ history'.crossed = history.crossed
        BY <2>1 DEF WagesInv
    <2> QED BY <2>1, <2>5, <2>6, WagesBeside
<1>2. ASSUME NEW d \in Reqs, Wages!ComputeRead(d) \/ Wages!FinalizeRead(d) PROVE WagesInv'
    BY <1>2, WagesBegin DEF Wages!ComputeRead, Wages!FinalizeRead
<1>3. ASSUME NEW d \in Reqs, Wages!Clear(d) PROVE WagesInv'
    <2> DEFINE h == handler[d]
               k == IF h.was = Wages!NoRun THEN {} ELSE Wages!Paid(book.lines)
    <2>1. /\ h.op = "clear" /\ UNCHANGED <<book, history>> /\ WageHolds(h)
          /\ handler' = [handler EXCEPT ![d].op = "count", ![d].cleared = k]
        BY <1>3 DEF Wages!Clear, WagesInv
    <2>2. ~history.crossed => k = Wages!Paid(book.lines)
        BY <1>0, <2>1 DEF WageHolds, WageRows, Wages!NoRun
    <2> DEFINE n == [op |-> "count", was |-> h.was, cleared |-> k, pay |-> h.pay]
    <2>3. n.op = "count" /\ n.was = h.was /\ n.cleared = k /\ n.pay = h.pay
        OBVIOUS
    <2>4. handler' = [handler EXCEPT ![d] = n]
        <3>1. handler[d] = [op |-> h.op, was |-> h.was, cleared |-> h.cleared, pay |-> h.pay]
            BY <2>1 DEF WageHolds
        <3> HIDE DEF k, h
        <3>2. [handler[d] EXCEPT !.op = "count", !.cleared = k] = n
            <4>1. PICK g, o, w, c, p, v : /\ g = handler[d] /\ o = h.op /\ w = h.was /\ c = h.cleared /\ p = h.pay
                                          /\ v = k
                OBVIOUS
            <4>2. g = [op |-> o, was |-> w, cleared |-> c, pay |-> p]
                BY <3>1, <4>1
            <4>3. [g EXCEPT !.op = "count", !.cleared = v] = [op |-> "count", was |-> w, cleared |-> v, pay |-> p]
                <5>1. PICK r : r = [g EXCEPT !.op = "count", !.cleared = v]
                    OBVIOUS
                <5>2. r = [op |-> "count", was |-> w, cleared |-> v, pay |-> p]
                    BY <4>2, <5>1
                <5> QED BY <5>1, <5>2
            <4> QED BY <4>1, <4>3
        <3>3. handler' = [handler EXCEPT ![d] = [handler[d] EXCEPT !.op = "count", !.cleared = k]]
            BY <2>1 DEF WagesInv
        <3> HIDE DEF n
        <3> QED BY <3>2, <3>3
    <2> HIDE DEF k
    <2>5. WageHolds(n)
        BY <2>1, <2>2 DEF WageHolds
    <2>6. h # Wages!NoRequest
        BY <2>1 DEF Wages!NoRequest
    <2> HIDE DEF n, h
    <2> QED BY <2>1, <2>4, <2>5, <2>6, WagesWork DEF h
<1>4. ASSUME NEW d \in Reqs, Wages!ReadSalaries(d) PROVE WagesInv'
    <2> DEFINE h == handler[d]
    <2>1. /\ h.op = "count" /\ UNCHANGED <<book, history>> /\ WageHolds(h)
          /\ handler' = [handler EXCEPT ![d].op = "compute", ![d].pay = book.salary]
        BY <1>4 DEF Wages!ReadSalaries, WagesInv
    <2> DEFINE n == [op |-> "compute", was |-> h.was, cleared |-> h.cleared, pay |-> book.salary]
    <2>2. handler' = [handler EXCEPT ![d] = n]
        <3>1. handler[d] = [op |-> h.op, was |-> h.was, cleared |-> h.cleared, pay |-> h.pay]
            BY <2>1 DEF WageHolds
        <3>2. PICK s : s = book.salary
            OBVIOUS
        <3> HIDE DEF h
        <3>3. [handler[d] EXCEPT !.op = "compute", !.pay = s] = n
            <4>1. PICK g, o, w, c, p : g = handler[d] /\ o = h.op /\ w = h.was /\ c = h.cleared /\ p = h.pay
                OBVIOUS
            <4>2. g = [op |-> o, was |-> w, cleared |-> c, pay |-> p]
                BY <3>1, <4>1
            <4>3. [g EXCEPT !.op = "compute", !.pay = s] = [op |-> "compute", was |-> w, cleared |-> c, pay |-> s]
                <5>1. PICK r : r = [g EXCEPT !.op = "compute", !.pay = s]
                    OBVIOUS
                <5>2. r = [op |-> "compute", was |-> w, cleared |-> c, pay |-> s]
                    BY <4>2, <5>1
                <5> QED BY <5>1, <5>2
            <4> QED BY <3>2, <4>1, <4>3
        <3>4. handler' = [handler EXCEPT ![d] = [handler[d] EXCEPT !.op = "compute", !.pay = s]]
            BY <2>1, <3>2 DEF WagesInv
        <3> HIDE DEF n
        <3> QED BY <3>3, <3>4
    <2>3. WageHolds(n)
        BY <1>0, <2>1 DEF WageHolds, WageRows
    <2>4. h # Wages!NoRequest
        BY <2>1 DEF Wages!NoRequest
    <2> HIDE DEF n, h
    <2> QED BY <2>1, <2>2, <2>3, <2>4, WagesWork DEF h
<1>5. ASSUME NEW d \in Reqs, Wages!FinalizeCommit(d) PROVE WagesInv'
    <2> DEFINE h == handler[d]
    <2>1. /\ h.op = "finalize" /\ WageHolds(h) /\ UNCHANGED history
          /\ book' = [book EXCEPT !.run.status = "finalized"]
          /\ handler' = [handler EXCEPT ![d] = Wages!NoRequest]
        BY <1>5 DEF Wages!FinalizeCommit, Wages!Close, WagesInv
    <2>2. /\ book' = [salary |-> book.salary, run |-> book'.run, lines |-> book.lines, types |-> book.types]
          /\ book'.run = [status |-> "finalized", total |-> book.run.total, count |-> book.run.count]
        <3>1. /\ book = [salary |-> book.salary, run |-> book.run, lines |-> book.lines, types |-> book.types]
              /\ book.run = [status |-> book.run.status, total |-> book.run.total, count |-> book.run.count]
            BY <1>0 DEF WageRows, IsRun
        <3> QED BY <2>1, <3>1
    <2>3. WageRows(book')
        BY <1>0, <2>2 DEF WageRows, IsRun
    <2>4. Wages!RunAddsUp'
        BY <2>1, <2>2 DEF WagesInv, Wages!RunAddsUp
    <2>5. /\ handler' = [x \in Reqs |-> handler'[x]] /\ handler'[d] = Wages!NoRequest
          /\ \A x \in Reqs \ {d} : handler'[x] = handler[x]
        BY <2>1 DEF WagesInv
    <2>6. h # Wages!NoRequest
        BY <2>1 DEF Wages!NoRequest
    <2>7. WageHolds(handler[d])'
        BY <1>0, <2>5 DEF WageHolds, Wages!NoRequest
    <2>8. ASSUME NEW x \in Reqs \ {d} PROVE WageHolds(handler[x])'
        <3>1. WageHolds(handler[x]) /\ handler'[x] = handler[x]
            BY <2>5 DEF WagesInv
        <3>2. CASE ~history.crossed
            <4>1. handler[x] = Wages!NoRequest
                BY <2>6, <3>2 DEF WagesInv
            <4> QED BY <1>0, <3>1, <4>1 DEF WageHolds, Wages!NoRequest
        <3>3. CASE history.crossed
            BY <2>1, <2>2, <3>1, <3>3 DEF WageHolds
        <3> QED BY <3>2, <3>3
    <2>9. WageRows(book)'
        BY <2>3 DEF WageRows, Wages!Paid
    <2> QED BY <2>1, <2>4, <2>5, <2>7, <2>8, <2>9 DEF WagesInv
<1>6. ASSUME NEW d \in Reqs, Wages!Abandon(d) PROVE WagesInv'
    <2>1. handler' = [handler EXCEPT ![d] = Wages!NoRequest] /\ UNCHANGED <<book, history>>
        BY <1>6 DEF Wages!Abandon, Wages!Close
    <2> QED BY <1>0, <2>1, WagesWork
<1>7. ASSUME Wages!ListLeaveTypes \/ Wages!AskForLeave PROVE WagesInv'
    <2>1. /\ UNCHANGED handler
          /\ book' = book \/ \E t : book' = [book EXCEPT !.types = t]
        BY <1>7 DEF Wages!ListLeaveTypes, Wages!AskForLeave
    <2>2. DOMAIN history' = {"crossed", "seeds", "listed", "refused"} /\ history'.crossed = history.crossed
        <3>1. \E a, b, c : \/ history' = [history EXCEPT !.seeds = a, !.listed = b]
                           \/ history' = [history EXCEPT !.seeds = a, !.refused = c]
            BY <1>7 DEF Wages!ListLeaveTypes, Wages!AskForLeave
        <3> QED BY <3>1 DEF WagesInv
    <2>3. WageRows(book') /\ book'.run = book.run /\ book'.lines = book.lines
        BY <1>0, <2>1 DEF WageRows
    <2> QED BY <2>1, <2>2, <2>3, WagesBeside
<1> QED BY <1>1, <1>2, <1>3, <1>4, <1>5, <1>6, <1>7, WagesCompute DEF Wages!Next

LEMMA WagesSame == ASSUME WagesInv, UNCHANGED <<book, handler, history>> PROVE WagesInv'
<1>1. \A d \in Reqs : WageHolds(handler[d])'
    BY DEF WagesInv, WageHolds, Wages!Paid
<1>2. WageRows(book)' /\ Wages!RunAddsUp'
    BY DEF WagesInv, WageRows, Wages!RunAddsUp, Wages!Paid, Wages!Sum
<1> QED BY <1>1, <1>2 DEF WagesInv

\* Only who has read the run before it was finalized changes it.
LEMMA WagesFinal == ASSUME WagesInv, Wages!Next PROVE Wages!FinalizedStays
<1> SUFFICES ASSUME book.run.status = "finalized", ~history.crossed
             PROVE  book'.run = book.run /\ book'.lines = book.lines
    BY DEF Wages!FinalizedStays
<1>1. ASSUME NEW d \in Reqs PROVE handler[d].op = "none"
    BY <1>1 DEF WagesInv, WageHolds
<1>2. WageRows(book)
    BY DEF WagesInv
<1>3. ASSUME UNCHANGED book \/ (\E a : book' = [book EXCEPT !.salary = a]) \/ \E t : book' = [book EXCEPT !.types = t]
      PROVE  book'.run = book.run /\ book'.lines = book.lines
    BY <1>2, <1>3 DEF WageRows
<1>4. ASSUME NEW e \in Students, NEW s \in Salaries, Wages!SetSalary(e, s)
      PROVE  \E a : book' = [book EXCEPT !.salary = a]
    <2>1. book' = [book EXCEPT !.salary[e] = s]
        BY <1>4 DEF Wages!SetSalary
    <2>2. book' = [book EXCEPT !.salary = [book.salary EXCEPT ![e] = s]]
        BY <1>2, <2>1 DEF WageRows
    <2> QED BY <2>2
<1> QED BY <1>1, <1>3, <1>4
        DEF Wages!Next, Wages!ComputeRead, Wages!FinalizeRead, Wages!Begin, Wages!Clear, Wages!ReadSalaries,
            Wages!ComputeCommit, Wages!FinalizeCommit, Wages!Abandon, Wages!ListLeaveTypes, Wages!AskForLeave


-----------------------------------------------------------------------------
(* Circulars                                                               *)

NoticeRows == [status : {"none", "draft", "published", "archived"}, deleted : BOOLEAN,
               name : Uploads \cup {None}, file : Uploads \cup {None}]

AsRead(h) == h.was.status = book.status /\ h.was.deleted = book.deleted /\ h.was.name = book.name
Alone(d) == \A x \in Reqs \ {d} : handler[x] = Notices!NoRequest

\* Nobody puts what is published back to draft.  Until two requests overlap a
\* handler knows the row, and one that has touched the file will name it.
NoticeHolds(h) ==
    /\ h.op \in {"none", "row", "upload", "file"} /\ h.op = "none" => h = Notices!NoRequest
    /\ h.op # "none" => /\ h.was \in NoticeRows /\ h.now \in NoticeRows
                        /\ h.now.status # "none" /\ book.status # "none"
    /\ h.op \in {"row", "file"} => ~(h.was.status = "published" /\ h.now.status = "draft")
    /\ ~history.crossed =>
          /\ h.op # "none" => ~book.deleted
          /\ h.op \in {"row", "file"} => AsRead(h)
          /\ h.op = "row" => h.now.name = h.was.name
          /\ h.op = "file" /\ ~h.now.deleted => h.now.name = book.file

NoticesInv ==
    /\ book \in NoticeRows /\ handler = [d \in Reqs |-> handler[d]]
    /\ history \in [torn : BOOLEAN, crossed : BOOLEAN]
    /\ \A d \in Reqs : NoticeHolds(handler[d])
    /\ ~history.crossed => \A d, x \in Reqs :
           handler[d] # Notices!NoRequest /\ handler[x] # Notices!NoRequest => d = x
    /\ Notices!AttachmentIsThere
    /\ book.status = "none" => book.name = book.file

LEMMA NoticesStart == ASSUME Notices!Init PROVE NoticesInv
<1>1. NoticeHolds(Notices!NoRequest)
    BY DEF NoticeHolds, Notices!NoRequest
<1> QED BY <1>1 DEF Notices!Init, NoticesInv, NoticeRows, Notices!AttachmentIsThere

\* A handler that is to commit what it has read now, and may have touched the file.
LEMMA NoticesHold ==
    ASSUME NoticesInv, NEW d \in Reqs, NEW op \in {"row", "upload", "file"}, NEW now \in NoticeRows,
           Notices!Hold(d, op, now), NEW file \in Uploads \cup {None}, book' = [book EXCEPT !.file = file],
           op # "file" => UNCHANGED book,
           op # "upload" => ~(book.status = "published" /\ now.status = "draft"),
           op = "row" => now.name = book.name,
           op = "file" /\ ~now.deleted => now.name = file,
           handler[d].op # "file", Notices!Live, now.status # "none"
    PROVE  NoticesInv'
<1> DEFINE h == [op |-> op, was |-> book, now |-> now]
<1>1. /\ handler' = [handler EXCEPT ![d] = h]
      /\ history' = [history EXCEPT !.crossed = @ \/ \E x \in Reqs \ {d} : handler[x] # Notices!NoRequest]
    BY DEF Notices!Hold
<1>2. /\ history' \in [torn : BOOLEAN, crossed : BOOLEAN] /\ history'.torn = history.torn
      /\ ~history'.crossed => ~history.crossed /\ Alone(d)
    <2> DEFINE met == history.crossed \/ \E x \in Reqs \ {d} : handler[x] # Notices!NoRequest
    <2>1. history' = [history EXCEPT !.crossed = met]
        BY <1>1
    <2>2. met \in BOOLEAN /\ (~met => ~history.crossed /\ Alone(d))
        BY DEF NoticesInv, Alone
    <2> HIDE DEF met
    <2> QED BY <2>1, <2>2 DEF NoticesInv
<1>3. handler' = [x \in Reqs |-> handler'[x]] /\ handler'[d] = h /\ \A x \in Reqs \ {d} : handler'[x] = handler[x]
    BY <1>1 DEF NoticesInv
<1>4. h.op = op /\ h.now = now /\ h.was = book
    OBVIOUS
<1>5. /\ book' \in NoticeRows /\ book'.file = file /\ book'.status = book.status /\ book'.deleted = book.deleted
      /\ book'.name = book.name
    BY DEF NoticesInv, NoticeRows
<1> HIDE DEF h
<1>6. NoticeHolds(handler[d])'
    BY <1>3, <1>4, <1>5 DEF NoticeHolds, NoticesInv, AsRead, Notices!Live
<1>7. ASSUME NEW x \in Reqs \ {d} PROVE NoticeHolds(handler[x])'
    <2>1. CASE history'.crossed
        BY <1>3, <2>1 DEF NoticeHolds, NoticesInv
    <2>2. CASE ~history'.crossed
        BY <1>2, <1>3, <2>2 DEF NoticeHolds, NoticesInv, Alone, Notices!NoRequest
    <2> QED BY <2>1, <2>2
<1>8. Notices!AttachmentIsThere'
    <2>1. CASE op = "file"
        BY <1>3, <1>4, <2>1 DEF Notices!AttachmentIsThere
    <2>2. CASE op # "file"
        <3>1. UNCHANGED book /\ \A x \in Reqs : handler'[x].op # "file" => handler[x].op # "file"
            BY <1>3, <2>2
        <3> QED BY <1>2, <3>1 DEF Notices!AttachmentIsThere, NoticesInv, Notices!Live
    <2> QED BY <2>1, <2>2
<1>9. ~history'.crossed => \A y, x \in Reqs :
           handler'[y] # Notices!NoRequest /\ handler'[x] # Notices!NoRequest => y = x
    BY <1>2, <1>3 DEF Alone
<1> QED BY <1>2, <1>3, <1>5, <1>6, <1>7, <1>8, <1>9 DEF NoticesInv, Notices!Live

\* A handler that ends.
LEMMA NoticesEnd ==
    ASSUME NoticesInv, NEW d \in Reqs, Notices!Close(d), handler[d] # Notices!NoRequest, book' \in NoticeRows,
           history' \in [torn : BOOLEAN, crossed : BOOLEAN], history'.crossed = history.crossed,
           UNCHANGED book \/ book'.status # "none",
           (Notices!Live' /\ ~history'.torn /\ ~history'.crossed) => book'.name = book'.file
    PROVE  NoticesInv'
<1>1. /\ handler' = [x \in Reqs |-> handler'[x]] /\ handler'[d] = Notices!NoRequest
      /\ \A x \in Reqs \ {d} : handler'[x] = handler[x]
    BY DEF NoticesInv, Notices!Close
<1>2. NoticeHolds(handler[d])'
    BY <1>1 DEF NoticeHolds, Notices!NoRequest
<1>3. ASSUME NEW x \in Reqs \ {d} PROVE NoticeHolds(handler[x])'
    <2>1. NoticeHolds(handler[x]) /\ handler'[x] = handler[x]
        BY <1>1 DEF NoticesInv
    <2>2. CASE history.crossed
        BY <2>1, <2>2 DEF NoticeHolds
    <2>3. CASE ~history.crossed
        <3>1. handler[x] = Notices!NoRequest
            BY <2>3 DEF NoticesInv
        <3> QED BY <2>1, <3>1 DEF NoticeHolds, Notices!NoRequest
    <2> QED BY <2>2, <2>3
<1>4. Notices!AttachmentIsThere'
    BY DEF Notices!AttachmentIsThere
<1> QED BY <1>1, <1>2, <1>3, <1>4 DEF NoticesInv

LEMMA NoticesStep == ASSUME NoticesInv, Notices!Next PROVE NoticesInv'
<1>0. /\ book \in NoticeRows /\ book = [book EXCEPT !.file = book.file] /\ book.file \in Uploads \cup {None}
      /\ Notices!NoRequest.op = "none"
    BY DEF NoticesInv, NoticeRows, Notices!NoRequest
<1>1. ASSUME Notices!Create PROVE NoticesInv'
    <2>1. /\ book.status = "none" /\ book' = [book EXCEPT !.status = "draft"] /\ UNCHANGED <<handler, history>>
        BY <1>1 DEF Notices!Create
    <2>2. /\ book'.status = "draft" /\ book'.name = book.name /\ book'.file = book.file
          /\ book' \in NoticeRows /\ book'.name = book'.file
        BY <1>0, <2>1 DEF NoticeRows, NoticesInv
    <2>3. \A d \in Reqs : handler[d] = Notices!NoRequest
        BY <2>1 DEF NoticesInv, NoticeHolds
    <2>4. \A d \in Reqs : NoticeHolds(handler[d])'
        BY <1>0, <2>1, <2>3 DEF NoticeHolds
    <2> QED BY <2>1, <2>2, <2>3, <2>4 DEF NoticesInv, Notices!AttachmentIsThere
<1>2. ASSUME NEW d \in Reqs, NEW to \in {"draft", "published", "archived"}, handler[d] = Notices!NoRequest,
             Notices!Live, Notices!Allowed(book.status, to), Notices!Hold(d, "row", [book EXCEPT !.status = to]),
             UNCHANGED book
      PROVE  NoticesInv'
    <2> DEFINE now == [book EXCEPT !.status = to]
    <2>1. now \in NoticeRows /\ now.name = book.name /\ now.status = to
        BY <1>0 DEF NoticeRows
    <2>2. book.status # "none" /\ ~(book.status = "published" /\ to = "draft")
        BY <1>2 DEF Notices!Live, Notices!Allowed
    <2>3. Notices!Hold(d, "row", now)
        BY <1>2
    <2> HIDE DEF now
    <2>4. book' = [book EXCEPT !.file = book.file]
        BY <1>0, <1>2
    <2> QED BY <1>0, <1>2, <2>1, <2>2, <2>3, <2>4, NoticesHold
<1>3. ASSUME NEW d \in Reqs, NEW to \in Notices!Statuses, Notices!UpdateRead(d, to) PROVE NoticesInv'
    BY <1>2, <1>3 DEF Notices!UpdateRead, Notices!Statuses
<1>4. ASSUME NEW d \in Reqs, Notices!PublishRead(d) PROVE NoticesInv'
    <2>1. Notices!Allowed(book.status, "published")
        BY DEF Notices!Allowed
    <2> QED BY <1>2, <1>4, <2>1 DEF Notices!PublishRead
<1>5. ASSUME NEW d \in Reqs, Notices!DeleteRead(d) PROVE NoticesInv'
    <2> DEFINE now == [book EXCEPT !.deleted = TRUE]
    <2>1. now \in NoticeRows /\ now.status = book.status /\ now.deleted
        BY <1>0 DEF NoticeRows
    <2>2. /\ handler[d] = Notices!NoRequest /\ Notices!Live /\ book' = [book EXCEPT !.file = None]
          /\ Notices!Hold(d, "file", now)
        BY <1>5 DEF Notices!DeleteRead
    <2> HIDE DEF now
    <2> QED BY <1>0, <2>1, <2>2, NoticesHold DEF Notices!Live
<1>6. ASSUME NEW d \in Reqs, NEW u \in Uploads, Notices!UploadRead(d, u) PROVE NoticesInv'
    <2> DEFINE now == [book EXCEPT !.name = u]
    <2>1. now \in NoticeRows /\ now.status = book.status
        BY <1>0 DEF NoticeRows
    <2>2. /\ handler[d] = Notices!NoRequest /\ Notices!Live /\ book' = book
          /\ Notices!Hold(d, "upload", now)
        BY <1>6 DEF Notices!UploadRead
    <2> HIDE DEF now
    <2>3. book' = [book EXCEPT !.file = book.file]
        BY <1>0, <2>2
    <2> QED BY <1>0, <2>1, <2>2, <2>3, NoticesHold DEF Notices!Live
<1>7. ASSUME NEW d \in Reqs, Notices!UploadWrite(d) PROVE NoticesInv'
    <2> DEFINE u == handler[d].now.name
    <2>1. /\ handler[d].op = "upload" /\ book' = [book EXCEPT !.file = u]
          /\ IF Notices!Live THEN Notices!Hold(d, "file", [book EXCEPT !.name = u])
             ELSE Notices!Close(d) /\ history' = [history EXCEPT !.torn = TRUE]
        BY <1>7 DEF Notices!UploadWrite
    <2>2. u \in Uploads \cup {None} /\ book.status # "none"
        BY <2>1 DEF NoticesInv, NoticeHolds, NoticeRows
    <2> HIDE DEF u
    <2>3. CASE Notices!Live
        <3> DEFINE now == [book EXCEPT !.name = u]
        <3>1. now \in NoticeRows /\ now.status = book.status /\ now.name = u
            BY <1>0, <2>2 DEF NoticeRows
        <3>2. Notices!Hold(d, "file", now)
            BY <2>1, <2>3
        <3> HIDE DEF now
        <3> QED BY <1>0, <2>1, <2>2, <2>3, <3>1, <3>2, NoticesHold
    <2>4. CASE ~Notices!Live
        <3>1. Notices!Close(d) /\ history' = [history EXCEPT !.torn = TRUE]
            BY <2>1, <2>4
        <3>2. book' \in NoticeRows /\ book'.status # "none"
            BY <1>0, <2>1, <2>2 DEF NoticeRows
        <3>3. history' \in [torn : BOOLEAN, crossed : BOOLEAN] /\ history'.crossed = history.crossed /\ history'.torn
            BY <3>1 DEF NoticesInv
        <3> QED BY <1>0, <2>1, <3>1, <3>2, <3>3, NoticesEnd
    <2> QED BY <2>3, <2>4
<1>8. ASSUME NEW d \in Reqs, Notices!RemoveAttachment(d) PROVE NoticesInv'
    <2>1. /\ handler[d] = Notices!NoRequest /\ book.status # "none" /\ book' = [book EXCEPT !.file = None]
        BY <1>8 DEF Notices!RemoveAttachment
    <2>2. CASE Notices!Live
        <3> DEFINE now == Notices!Nameless
        <3>1. now \in NoticeRows /\ now.status = book.status /\ now.name = None
            BY <1>0 DEF NoticeRows, Notices!Nameless
        <3>2. Notices!Hold(d, "file", now)
            BY <1>8, <2>2 DEF Notices!RemoveAttachment
        <3> HIDE DEF now
        <3> QED BY <1>0, <2>1, <2>2, <3>1, <3>2, NoticesHold
    <2>3. CASE ~Notices!Live
        <3>1. UNCHANGED <<handler, history>>
            BY <1>8, <2>3 DEF Notices!RemoveAttachment
        <3>2. book' \in NoticeRows /\ book'.status = book.status /\ book'.deleted = book.deleted /\ book'.name = book.name
            BY <1>0, <2>1 DEF NoticeRows
        <3>3. book.deleted /\ ~Notices!Live'
            BY <2>1, <2>3, <3>2 DEF Notices!Live
        <3>4. ASSUME NEW x \in Reqs PROVE NoticeHolds(handler[x])'
            <4>1. NoticeHolds(handler[x])
                BY DEF NoticesInv
            <4> QED BY <1>0, <3>1, <3>2, <3>3, <4>1 DEF NoticeHolds, AsRead
        <3>5. Notices!AttachmentIsThere'
            BY <3>3 DEF Notices!AttachmentIsThere
        <3> QED BY <2>1, <3>1, <3>2, <3>4, <3>5 DEF NoticesInv
    <2> QED BY <2>2, <2>3
<1>9. ASSUME NEW d \in Reqs, Notices!Commit(d) PROVE NoticesInv'
    <2> DEFINE h == handler[d]
    <2>1. /\ h.op \in {"row", "file"} /\ NoticeHolds(h) /\ Notices!Close(d) /\ UNCHANGED history
          /\ book' = [k \in DOMAIN book |-> IF k \in Notices!Columns /\ h.now[k] # h.was[k] THEN h.now[k] ELSE book[k]]
        BY <1>9 DEF Notices!Commit, NoticesInv
    <2>2. h.now \in NoticeRows /\ h.was \in NoticeRows /\ h.now.status # "none" /\ book.status # "none"
        BY <2>1 DEF NoticeHolds
    <2>3. /\ DOMAIN book = {"status", "deleted", "name", "file"}
          /\ "status" \in Notices!Columns /\ "deleted" \in Notices!Columns /\ "name" \in Notices!Columns
          /\ "file" \notin Notices!Columns
        BY <1>0 DEF NoticeRows, Notices!Columns
    <2> HIDE DEF h
    <2>4. /\ book' = [status |-> book'.status, deleted |-> book'.deleted, name |-> book'.name, file |-> book'.file]
          /\ book'.status = IF h.now.status # h.was.status THEN h.now.status ELSE book.status
          /\ book'.deleted = IF h.now.deleted # h.was.deleted THEN h.now.deleted ELSE book.deleted
          /\ book'.name = IF h.now.name # h.was.name THEN h.now.name ELSE book.name
          /\ book'.file = book.file
        BY <2>1, <2>3
    <2>5. book' \in NoticeRows /\ book'.status # "none"
        BY <1>0, <2>2, <2>4 DEF NoticeRows
    <2>6. handler[d] # Notices!NoRequest
        BY <1>0, <2>1 DEF h
    <2>7. ASSUME Notices!Live', ~history.torn, ~history.crossed PROVE book'.name = book'.file
        <3>1. AsRead(h) /\ ~book'.deleted /\ ~book.deleted
            BY <2>1, <2>7 DEF NoticeHolds, Notices!Live
        <3>2. CASE h.op = "file"
            <4>1. ~h.now.deleted /\ h.now.name = book.file
                BY <2>1, <2>4, <2>7, <3>1, <3>2 DEF NoticeHolds, AsRead
            <4> QED BY <2>4, <3>1, <4>1 DEF AsRead
        <3>3. CASE h.op = "row"
            <4>1. h.now.name = h.was.name
                BY <2>1, <2>7, <3>3 DEF NoticeHolds
            <4>2. \A x \in Reqs : handler[x].op # "file"
                BY <1>0, <2>1, <2>7, <3>3 DEF NoticesInv, h
            <4>3. book.name = book.file
                BY <2>2, <2>7, <3>1, <4>2 DEF NoticesInv, Notices!AttachmentIsThere, Notices!Live
            <4> QED BY <2>4, <4>1, <4>3
        <3> QED BY <2>1, <3>2, <3>3
    <2> QED BY <2>1, <2>5, <2>6, <2>7, NoticesEnd DEF NoticesInv
<1>10. ASSUME NEW d \in Reqs, Notices!Abandon(d) PROVE NoticesInv'
    <2>1. /\ handler[d] # Notices!NoRequest /\ Notices!Close(d) /\ UNCHANGED book
          /\ history' = [history EXCEPT !.torn = @ \/ handler[d].op = "file"]
        BY <1>10 DEF Notices!Abandon
    <2>2. /\ history' \in [torn : BOOLEAN, crossed : BOOLEAN] /\ history'.crossed = history.crossed
          /\ ~history'.torn => ~history.torn /\ handler[d].op # "file"
        <3> DEFINE t == history.torn \/ handler[d].op = "file"
        <3>1. history' = [history EXCEPT !.torn = t] /\ t \in BOOLEAN
            BY <2>1 DEF NoticesInv
        <3>2. ~t => ~history.torn /\ handler[d].op # "file"
            OBVIOUS
        <3> HIDE DEF t
        <3> QED BY <3>1, <3>2 DEF NoticesInv
    <2>3. ASSUME Notices!Live', ~history'.torn, ~history'.crossed PROVE book'.name = book'.file
        <3>1. \A x \in Reqs : handler[x].op # "file"
            BY <1>0, <2>1, <2>2, <2>3 DEF NoticesInv
        <3> QED BY <2>1, <2>2, <2>3, <3>1 DEF NoticesInv, Notices!AttachmentIsThere, Notices!Live
    <2> QED BY <1>0, <2>1, <2>2, <2>3, NoticesEnd
<1> QED BY <1>1, <1>3, <1>4, <1>5, <1>6, <1>7, <1>8, <1>9, <1>10 DEF Notices!Next

LEMMA NoticesSame == ASSUME NoticesInv, UNCHANGED <<book, handler, history>> PROVE NoticesInv'
    BY DEF NoticesInv, NoticeHolds, AsRead, Notices!AttachmentIsThere, Notices!Live

\* Only a commit changes a status, and none from published to draft.
LEMMA NoticesFinal == ASSUME NoticesInv, Notices!Next PROVE Notices!PublishedStays
<1> SUFFICES ASSUME book.status = "published", ~history.crossed PROVE book'.status # "draft"
    BY DEF Notices!PublishedStays
<1>1. book \in NoticeRows
    BY DEF NoticesInv
<1>2. ASSUME NEW d \in Reqs, Notices!Commit(d) PROVE book'.status # "draft"
    <2> DEFINE h == handler[d]
    <2>1. /\ h.op \in {"row", "file"} /\ NoticeHolds(h)
          /\ book' = [k \in DOMAIN book |-> IF k \in Notices!Columns /\ h.now[k] # h.was[k] THEN h.now[k] ELSE book[k]]
        BY <1>2 DEF Notices!Commit, NoticesInv
    <2>2. "status" \in DOMAIN book /\ "status" \in Notices!Columns
        BY <1>1 DEF NoticeRows, Notices!Columns
    <2> HIDE DEF h
    <2>3. book'.status = IF h.now.status # h.was.status THEN h.now.status ELSE book.status
        BY <2>1, <2>2
    <2> QED BY <2>1, <2>3 DEF NoticeHolds, AsRead
<1>3. ASSUME NEW f, book' = [book EXCEPT !.file = f] PROVE book'.status # "draft"
    BY <1>1, <1>3 DEF NoticeRows
<1>4. ASSUME UNCHANGED book PROVE book'.status # "draft"
    BY <1>4
<1>5. ASSUME NEW d \in Reqs, Notices!DeleteRead(d) \/ Notices!UploadWrite(d) \/ Notices!RemoveAttachment(d)
      PROVE  book'.status # "draft"
    BY <1>3, <1>5 DEF Notices!DeleteRead, Notices!UploadWrite, Notices!RemoveAttachment
<1> QED BY <1>2, <1>4, <1>5
        DEF Notices!Next, Notices!Create, Notices!UpdateRead, Notices!UploadRead, Notices!PublishRead, Notices!Abandon


-----------------------------------------------------------------------------
(* Mark sheets                                                             *)

SetRows == [status : {"draft", "open", "closed"}, max : Marks \ {0}, live : BOOLEAN]
Scores == UNION {[S -> Marks] : S \in SUBSET Students}

\* Until two requests overlap there is one, and what it read still holds.
SheetHolds(h) ==
    /\ h.op \in {"none", "save", "edit"} /\ h.op = "none" => h = Sheets!NoRequest
    /\ h.op = "save" => /\ h.now \in Scores /\ h.was \in [Students -> Marks \cup {None}]
                        /\ ~history.crossed =>
                               /\ book.set.status = "open"
                               /\ \A s \in DOMAIN h.now : h.now[s] <= book.set.max
    /\ h.op = "edit" => h.now \in SetRows /\ h.was \in SetRows

SheetsInv ==
    /\ book \in [set : SetRows, marks : [Students -> Marks \cup {None}]]
    /\ handler = [d \in Reqs |-> handler[d]]
    /\ history \in [crossed : BOOLEAN, lowered : BOOLEAN]
    /\ \A d \in Reqs : SheetHolds(handler[d])
    /\ ~history.crossed => \A d, x \in Reqs :
           handler[d] # Sheets!NoRequest /\ handler[x] # Sheets!NoRequest => d = x
    /\ Sheets!MarksFit

LEMMA SheetsStart == ASSUME Sheets!Init PROVE SheetsInv
<1>1. /\ book = [set |-> Sheets!Set, marks |-> Sheets!Unmarked] /\ handler = [d \in Reqs |-> Sheets!NoRequest]
      /\ history = [crossed |-> FALSE, lowered |-> FALSE]
    BY DEF Sheets!Init
<1>2. Sheets!Set \in SetRows /\ Sheets!Unmarked \in [Students -> Marks \cup {None}]
    BY BooksAssumption DEF Sheets!Set, Sheets!Unmarked, SetRows
<1>3. SheetHolds(Sheets!NoRequest)
    BY DEF SheetHolds, Sheets!NoRequest
<1> QED BY <1>1, <1>2, <1>3 DEF SheetsInv, Sheets!MarksFit, Sheets!Unmarked

LEMMA SheetsHold ==
    ASSUME SheetsInv, NEW d \in Reqs, NEW op, NEW was, NEW now, Sheets!Hold(d, op, was, now),
           \/ op = "edit" /\ was \in SetRows /\ now \in SetRows
           \/ /\ op = "save" /\ now \in Scores /\ was = book.marks /\ book.set.status = "open"
              /\ \A s \in DOMAIN now : now[s] <= book.set.max
    PROVE  SheetsInv'
<1> DEFINE h == [op |-> op, was |-> was, now |-> now]
<1>1. /\ handler[d] = Sheets!NoRequest /\ handler' = [handler EXCEPT ![d] = h] /\ UNCHANGED book
      /\ history' = [history EXCEPT !.crossed = @ \/ \E x \in Reqs : handler[x] # Sheets!NoRequest]
    BY DEF Sheets!Hold
<1>2. /\ history' \in [crossed : BOOLEAN, lowered : BOOLEAN] /\ history'.lowered = history.lowered
      /\ ~history'.crossed => ~history.crossed /\ \A x \in Reqs : handler[x] = Sheets!NoRequest
    <2> DEFINE met == history.crossed \/ \E x \in Reqs : handler[x] # Sheets!NoRequest
    <2>1. history' = [history EXCEPT !.crossed = met]
        BY <1>1
    <2>2. met \in BOOLEAN /\ (~met => ~history.crossed /\ \A x \in Reqs : handler[x] = Sheets!NoRequest)
        BY DEF SheetsInv
    <2> HIDE DEF met
    <2> QED BY <2>1, <2>2 DEF SheetsInv
<1>3. handler' = [x \in Reqs |-> handler'[x]] /\ handler'[d] = h /\ \A x \in Reqs \ {d} : handler'[x] = handler[x]
    BY <1>1 DEF SheetsInv
<1>4. h.op = op /\ h.now = now /\ h.was = was
    OBVIOUS
<1> HIDE DEF h
<1>5. SheetHolds(handler[d])'
    BY <1>1, <1>3, <1>4 DEF SheetHolds, SheetsInv
<1>6. \A x \in Reqs \ {d} : SheetHolds(handler[x])'
    BY <1>1, <1>2, <1>3 DEF SheetHolds, SheetsInv
<1>7. Sheets!MarksFit'
    BY <1>1, <1>2 DEF Sheets!MarksFit, SheetsInv
<1> QED BY <1>1, <1>2, <1>3, <1>5, <1>6, <1>7 DEF SheetsInv

LEMMA SheetsEnd ==
    ASSUME SheetsInv, NEW d \in Reqs, Sheets!Close(d), book' \in [set : SetRows, marks : [Students -> Marks \cup {None}]],
           history' \in [crossed : BOOLEAN, lowered : BOOLEAN], history'.crossed = history.crossed, Sheets!MarksFit',
           UNCHANGED book \/ handler[d] # Sheets!NoRequest
    PROVE  SheetsInv'
<1>1. /\ handler' = [x \in Reqs |-> handler'[x]] /\ handler'[d] = Sheets!NoRequest
      /\ \A x \in Reqs \ {d} : handler'[x] = handler[x]
    BY DEF SheetsInv, Sheets!Close
<1>2. SheetHolds(handler[d])'
    BY <1>1 DEF SheetHolds, Sheets!NoRequest
<1>3. ASSUME NEW x \in Reqs \ {d} PROVE SheetHolds(handler[x])'
    <2>1. SheetHolds(handler[x]) /\ handler'[x] = handler[x]
        BY <1>1 DEF SheetsInv
    <2>2. CASE history.crossed
        BY <2>1, <2>2 DEF SheetHolds
    <2>3. CASE UNCHANGED book
        BY <2>1, <2>3 DEF SheetHolds
    <2>4. CASE ~history.crossed /\ handler[d] # Sheets!NoRequest
        <3>1. handler[x] = Sheets!NoRequest
            BY <2>4 DEF SheetsInv
        <3> QED BY <2>1, <3>1 DEF SheetHolds, Sheets!NoRequest
    <2> QED BY <2>2, <2>3, <2>4
<1> QED BY <1>1, <1>2, <1>3 DEF SheetsInv

LEMMA SheetsStep == ASSUME SheetsInv, Sheets!Next PROVE SheetsInv'
<1>1. ASSUME NEW d \in Reqs, NEW S \in SUBSET Students, NEW now \in [S -> Marks], Sheets!SaveRead(d, now) PROVE SheetsInv'
    <2>1. /\ Sheets!Hold(d, "save", book.marks, now) /\ book.set.status = "open"
          /\ \A s \in DOMAIN now : now[s] <= book.set.max
        BY <1>1 DEF Sheets!SaveRead, Sheets!TakesMarks, Sheets!Fits
    <2>2. now \in Scores
        BY DEF Scores
    <2> QED BY <2>1, <2>2, SheetsHold
<1>2. ASSUME NEW d \in Reqs, NEW to \in Sheets!Statuses, NEW max \in Marks \ {0},
             Sheets!EditRead(d, [book.set EXCEPT !.status = to, !.max = max])
      PROVE  SheetsInv'
    <2> DEFINE now == [book.set EXCEPT !.status = to, !.max = max]
    <2>1. now \in SetRows /\ book.set \in SetRows
        BY DEF SheetsInv, SetRows, Sheets!Statuses
    <2>2. Sheets!Hold(d, "edit", book.set, now)
        BY <1>2 DEF Sheets!EditRead
    <2> HIDE DEF now
    <2> QED BY <2>1, <2>2, SheetsHold
<1>3. ASSUME NEW d \in Reqs, Sheets!EditRead(d, [book.set EXCEPT !.live = FALSE]) PROVE SheetsInv'
    <2> DEFINE now == [book.set EXCEPT !.live = FALSE]
    <2>1. now \in SetRows /\ book.set \in SetRows
        BY DEF SheetsInv, SetRows
    <2>2. Sheets!Hold(d, "edit", book.set, now)
        BY <1>3 DEF Sheets!EditRead
    <2> HIDE DEF now
    <2> QED BY <2>1, <2>2, SheetsHold
<1>4. ASSUME NEW d \in Reqs, Sheets!SaveCommit(d) PROVE SheetsInv'
    <2> DEFINE h == handler[d]
               marks == [s \in Students |-> IF s \in DOMAIN h.now /\ h.now[s] # h.was[s] THEN h.now[s] ELSE book.marks[s]]
    <2>1. /\ h.op = "save" /\ SheetHolds(h) /\ Sheets!Close(d) /\ UNCHANGED history
          /\ book' = [book EXCEPT !.marks = marks]
        BY <1>4 DEF Sheets!SaveCommit, SheetsInv
    <2>2. PICK S \in SUBSET Students : h.now \in [S -> Marks]
        BY <2>1 DEF SheetHolds, Scores
    <2>3. marks \in [Students -> Marks \cup {None}]
        BY <2>2 DEF SheetsInv
    <2>4. book'.marks = marks /\ book'.set = book.set
          /\ book' \in [set : SetRows, marks : [Students -> Marks \cup {None}]]
        BY <2>1, <2>3 DEF SheetsInv
    <2>5. Sheets!MarksFit'
        <3> SUFFICES ASSUME NEW s \in Students, marks[s] # None, ~history.lowered, ~history.crossed
                     PROVE  marks[s] <= book.set.max
            BY <2>1, <2>4 DEF Sheets!MarksFit
        <3>1. CASE s \in DOMAIN h.now /\ h.now[s] # h.was[s]
            BY <2>1, <3>1 DEF SheetHolds
        <3>2. CASE ~(s \in DOMAIN h.now /\ h.now[s] # h.was[s])
            BY <3>2 DEF SheetsInv, Sheets!MarksFit
        <3> QED BY <3>1, <3>2
    <2>6. handler[d] # Sheets!NoRequest /\ history' \in [crossed : BOOLEAN, lowered : BOOLEAN]
        BY <2>1 DEF Sheets!NoRequest, SheetsInv
    <2> HIDE DEF h, marks
    <2> QED BY <2>1, <2>4, <2>5, <2>6, SheetsEnd
<1>5. ASSUME NEW d \in Reqs, Sheets!EditCommit(d) PROVE SheetsInv'
    <2> DEFINE h == handler[d]
               set == [k \in DOMAIN h.now |-> IF h.now[k] = h.was[k] THEN book.set[k] ELSE h.now[k]]
    <2>1. /\ h.op = "edit" /\ SheetHolds(h) /\ Sheets!Close(d) /\ book' = [book EXCEPT !.set = set]
          /\ history' = [history EXCEPT !.lowered = @ \/ set.max < book.set.max]
        BY <1>5 DEF Sheets!EditCommit, SheetsInv
    <2>2. h.now \in SetRows /\ h.was \in SetRows /\ book.set \in SetRows
        BY <2>1 DEF SheetHolds, SheetsInv
    <2>3. set \in SetRows
        <3>1. DOMAIN h.now = {"status", "max", "live"}
            BY <2>2 DEF SetRows
        <3>2. /\ set = [status |-> set.status, max |-> set.max, live |-> set.live]
              /\ set.status = IF h.now.status = h.was.status THEN book.set.status ELSE h.now.status
              /\ set.max = IF h.now.max = h.was.max THEN book.set.max ELSE h.now.max
              /\ set.live = IF h.now.live = h.was.live THEN book.set.live ELSE h.now.live
            BY <3>1
        <3> HIDE DEF set, h
        <3> QED BY <2>2, <3>2 DEF SetRows
    <2> HIDE DEF set, h
    <2>4. book'.marks = book.marks /\ book'.set = set
          /\ book' \in [set : SetRows, marks : [Students -> Marks \cup {None}]]
        BY <2>1, <2>3 DEF SheetsInv
    <2>5. /\ history' \in [crossed : BOOLEAN, lowered : BOOLEAN] /\ history'.crossed = history.crossed
          /\ ~history'.lowered => ~history.lowered /\ ~(set.max < book.set.max)
        <3> DEFINE low == history.lowered \/ set.max < book.set.max
        <3>1. history' = [history EXCEPT !.lowered = low] /\ low \in BOOLEAN
            BY <2>1 DEF SheetsInv
        <3>2. ~low => ~history.lowered /\ ~(set.max < book.set.max)
            OBVIOUS
        <3> HIDE DEF low
        <3> QED BY <3>1, <3>2 DEF SheetsInv
    <2>6. Sheets!MarksFit'
        <3> SUFFICES ASSUME NEW s \in Students, book.marks[s] # None, ~history'.lowered, ~history'.crossed
                     PROVE  book.marks[s] <= set.max
            BY <2>4 DEF Sheets!MarksFit
        <3>1. book.marks[s] <= book.set.max /\ book.marks[s] \in Marks
            BY <2>5 DEF SheetsInv, Sheets!MarksFit
        <3>2. set.max \in Nat /\ book.set.max \in Nat /\ book.marks[s] \in Nat
            BY <2>2, <2>3, <3>1, BooksAssumption DEF SetRows
        <3> QED BY <2>5, <3>1, <3>2
    <2>7. handler[d] # Sheets!NoRequest
        BY <2>1 DEF h, Sheets!NoRequest
    <2> QED BY <2>1, <2>4, <2>5, <2>6, <2>7, SheetsEnd
<1>6. ASSUME NEW d \in Reqs, Sheets!Abandon(d) PROVE SheetsInv'
    <2>1. Sheets!Close(d) /\ UNCHANGED <<book, history>>
        BY <1>6 DEF Sheets!Abandon
    <2>2. Sheets!MarksFit'
        BY <2>1 DEF SheetsInv, Sheets!MarksFit
    <2>3. book' \in [set : SetRows, marks : [Students -> Marks \cup {None}]]
          /\ history' \in [crossed : BOOLEAN, lowered : BOOLEAN]
        BY <2>1 DEF SheetsInv
    <2> QED BY <2>1, <2>2, <2>3, SheetsEnd
<1> QED BY <1>1, <1>2, <1>3, <1>4, <1>5, <1>6 DEF Sheets!Next

LEMMA SheetsSame == ASSUME SheetsInv, UNCHANGED <<book, handler, history>> PROVE SheetsInv'
    BY DEF SheetsInv, SheetHolds, Sheets!MarksFit

\* Marks change only while the set is open.
LEMMA SheetsFinal == ASSUME SheetsInv, Sheets!Next PROVE Sheets!ClosedStays
<1> SUFFICES ASSUME book.set.status # "open", ~history.crossed PROVE book'.marks = book.marks
    BY DEF Sheets!ClosedStays
<1>1. ASSUME NEW d \in Reqs, Sheets!SaveCommit(d) PROVE FALSE
    BY <1>1 DEF Sheets!SaveCommit, SheetsInv, SheetHolds
<1>2. ASSUME NEW d \in Reqs, Sheets!EditCommit(d) PROVE book'.marks = book.marks
    <2>1. \E set : book' = [book EXCEPT !.set = set]
        BY <1>2 DEF Sheets!EditCommit
    <2> QED BY <2>1 DEF SheetsInv
<1>3. ASSUME UNCHANGED book PROVE book'.marks = book.marks
    BY <1>3
<1> QED BY <1>1, <1>2, <1>3 DEF Sheets!Next, Sheets!SaveRead, Sheets!EditRead, Sheets!Hold, Sheets!Abandon

-----------------------------------------------------------------------------
(* The books: what the five parts keep                                     *)

BooksInv ==
    /\ part = "admissions" => PlacesInv
    /\ part = "payroll" => WagesInv
    /\ part = "school" => ProfileInv
    /\ part = "notices" => NoticesInv
    /\ part = "sheets" => SheetsInv

LEMMA BooksHold == Spec => []BooksInv
<1>1. Init => BooksInv
    <2> SUFFICES ASSUME Init PROVE BooksInv
        OBVIOUS
    <2>1. CASE part = "admissions"
        <3>1. Places!Init
            BY <2>1 DEF Init
        <3> QED BY <2>1, <3>1, PlacesStart DEF BooksInv
    <2>2. CASE part = "payroll"
        <3>1. Wages!Init
            BY <2>2 DEF Init
        <3> QED BY <2>2, <3>1, WagesStart DEF BooksInv
    <2>3. CASE part = "school"
        <3>1. Profile!Init
            BY <2>3 DEF Init
        <3> QED BY <2>3, <3>1, ProfileStarts DEF BooksInv
    <2>4. CASE part = "notices"
        <3>1. Notices!Init
            BY <2>4 DEF Init
        <3> QED BY <2>4, <3>1, NoticesStart DEF BooksInv
    <2>5. CASE part = "sheets"
        <3>1. Sheets!Init
            BY <2>5 DEF Init
        <3> QED BY <2>5, <3>1, SheetsStart DEF BooksInv
    <2>6. CASE part \notin Books
        BY <2>6 DEF BooksInv, Books
    <2> QED BY <2>1, <2>2, <2>3, <2>4, <2>5, <2>6 DEF Books
<1>2. BooksInv /\ [Next]_campus => BooksInv'
    <2> SUFFICES ASSUME BooksInv, [Next]_campus PROVE BooksInv'
        OBVIOUS
    <2>1. CASE UNCHANGED <<part, book, handler, history>>
        BY <2>1, PlacesSame, WagesSame, ProfileSame, NoticesSame, SheetsSame DEF BooksInv
    <2>2. CASE BooksNext /\ UNCHANGED part
        BY <2>2, PlacesStep, WagesStep, ProfileStep, NoticesStep, SheetsStep DEF BooksInv, BooksNext
    <2> QED BY <2>1, <2>2 DEF Next, campus, books
<1> QED BY <1>1, <1>2, PTL DEF Spec

\* Whatever overlaps, an import or an enrolment gives a number that nobody has or
\* has had, and until a row of a list fails a reference that was counted is free of
\* all that was registered before (generate_student_number, next_reference_number).
THEOREM NumbersAreGivenOnce == Spec => []NumbersGivenOnce
<1>1. BooksInv => NumbersGivenOnce
    BY ProfileHolds, PlacesHold DEF BooksInv, NumbersGivenOnce
<1> QED BY <1>1, BooksHold, PTL

\* Until two edits of the profile overlap, one that sends the version of its page
\* replaces what the page shows (patch_school).
THEOREM StaleEditsAreRefused == Spec => []StaleIsRefused
<1>1. BooksInv => StaleIsRefused
    BY ProfileHolds DEF BooksInv, StaleIsRefused
<1> QED BY <1>1, BooksHold, PTL

\* Who is enrolled has a student record, a run has the totals of its lines, a
\* circular names the file there is, and no mark is above the highest, each except
\* what overlapped or failed half way (link_enrollment, compute_payroll_run,
\* remove_circular_attachment, save_marks).
THEOREM RowsAgree == Spec => []RowsAddUp
<1>1. BooksInv => RowsAddUp
    BY PlacesHold DEF BooksInv, RowsAddUp, WagesInv, NoticesInv, SheetsInv
<1> QED BY <1>1, BooksHold, PTL

\* Until two requests overlap, nothing that is enrolled, finalized, published or
\* closed goes back (update_application, compute_payroll_run, update_circular,
\* save_marks).
THEOREM FinalIsFinal == Spec => FinalStaysFinal
<1> DEFINE A == /\ part = "admissions" => Places!EnrolledStays
                /\ part = "payroll" => Wages!FinalizedStays
                /\ part = "notices" => Notices!PublishedStays
                /\ part = "sheets" => Sheets!ClosedStays
<1>1. BooksInv /\ [Next]_campus => [A]_books
    <2> SUFFICES ASSUME BooksInv, [Next]_campus, ~UNCHANGED books PROVE A
        BY DEF books
    <2>1. BooksNext
        BY DEF Next, campus
    <2> QED BY <2>1, PlacesFinal, WagesFinal, NoticesFinal, SheetsFinal DEF BooksNext, BooksInv
<1> QED BY <1>1, BooksHold, PTL DEF Spec, FinalStaysFinal

-----------------------------------------------------------------------------
(* The academic calendar                                                   *)

LEMMA CalendarCardinality == \A S : Calendar!Cardinality(S) = Cardinality(S)
BY DEF Calendar!Cardinality, Cardinality

Clerks == [op : {"away", "editYear", "editTerm", "activateYear", "activateTerm"}, y : Years \cup {None},
           n : Numbers \cup {None}, to : {"upcoming", "active", "archived", "closed", None},
           seen : {"none", "upcoming", "active", "archived", None}, met : BOOLEAN]

\* What a handler is about exists, and alone it knows whether its year is active.
ClerkHolds(w) ==
    /\ w.op = "away" => w = Calendar!Away
    /\ w.op \in {"editYear", "activateYear"} => w.y \in Years /\ year[w.y] # "none"
    /\ w.op = "editYear" => w.to \in {"upcoming", "active", "archived"}
    /\ w.op \in {"editTerm", "activateTerm"} => <<w.y, w.n>> \in Calendar!Terms /\ term[<<w.y, w.n>>] # "none"
    /\ w.op = "editTerm" => w.to \in {"upcoming", "active", "closed"}
    /\ w.op \in {"activateYear", "activateTerm"} /\ ~w.met => w.seen = year[w.y]

Same(S) == \A a, b \in S : a = b

CalendarInv ==
    /\ Calendar!TypeOK
    /\ clerk \in [Reqs -> Clerks]
    /\ \A c \in Reqs : ClerkHolds(clerk[c])
    /\ \A c, x \in Reqs : (c # x /\ clerk[c] # Calendar!Away /\ clerk[x] # Calendar!Away) => clerk[c].met
    /\ "years" \notin muddled => Same(Calendar!ActiveYears)
    /\ "terms" \notin muddled => Same(Calendar!ActiveTerms)
    /\ muddled = {} => \A t \in Calendar!ActiveTerms : t[1] \in Calendar!ActiveYears

LEMMA AtMostOne == ASSUME NEW S, Same(S) PROVE Calendar!Cardinality(S) <= 1
<1>1. CASE S = {}
    BY <1>1, CalendarCardinality, FS_EmptySet
<1>2. CASE S # {}
    <2>1. PICK a : a \in S
        BY <1>2
    <2>2. S = {a}
        BY <2>1 DEF Same
    <2>3. Cardinality({a}) = 1
        BY FS_Singleton
    <2> QED BY <2>2, <2>3, CalendarCardinality
<1> QED BY <1>1, <1>2

\* A day falls into one term of a year.
LEMMA SeededFacts ==
    ASSUME NEW y \in Years, NEW today \in Calendar!Days
    PROVE  /\ \A t \in Calendar!Terms : t[1] = y => Calendar!Seeded(t, today) \in {"upcoming", "active", "closed"}
           /\ \A t, u \in Calendar!Terms : (/\ t[1] = y /\ Calendar!Seeded(t, today) = "active"
                                            /\ u[1] = y /\ Calendar!Seeded(u, today) = "active") => t = u
<1> DEFINE m == Calendar!Cardinality(Numbers)
           k == (y - 1) * m
<1>1. m \in Nat /\ Numbers \subseteq Nat /\ y \in Nat /\ y - 1 \in Nat
    BY CalendarCardinality, CalendarAssumption, FS_CardinalityType
<1>2. k \in Nat
    <2> HIDE DEF m
    <2> QED BY <1>1
<1>3. today \in Nat
    BY DEF Calendar!Days
<1>4. \A t \in Calendar!Terms : t[1] = y => Calendar!Position(t) = k + t[2]
    BY DEF Calendar!Position
<1> HIDE DEF k, m
<1>5. ASSUME NEW t \in Calendar!Terms, t[1] = y
      PROVE  /\ t = <<y, t[2]>> /\ t[2] \in Nat /\ Calendar!Position(t) \in Nat
             /\ Calendar!Seeded(t, today) \in {"upcoming", "active", "closed"}
             /\ Calendar!Seeded(t, today) = "active" => today = 2 * Calendar!Position(t)
    <2>1. t = <<y, t[2]>> /\ t[2] \in Nat
        <3>1. PICK a \in Years, b \in Numbers : t = <<a, b>>
            BY DEF Calendar!Terms
        <3> QED BY <1>1, <1>5, <3>1
    <2>2. Calendar!Position(t) \in Nat
        BY <1>2, <1>4, <1>5, <2>1
    <2>3. \/ today < 2 * Calendar!Position(t) \/ today = 2 * Calendar!Position(t)
          \/ today > 2 * Calendar!Position(t)
        BY <1>3, <2>2
    <2>4. CASE today < 2 * Calendar!Position(t)
        BY <1>3, <2>1, <2>2, <2>4 DEF Calendar!Seeded
    <2>5. CASE today = 2 * Calendar!Position(t)
        BY <1>3, <2>1, <2>2, <2>5 DEF Calendar!Seeded
    <2>6. CASE today > 2 * Calendar!Position(t)
        BY <1>3, <2>1, <2>2, <2>6 DEF Calendar!Seeded
    <2> QED BY <2>1, <2>2, <2>3, <2>4, <2>5, <2>6
<1>6. ASSUME NEW t \in Calendar!Terms, NEW u \in Calendar!Terms, t[1] = y, Calendar!Seeded(t, today) = "active",
             u[1] = y, Calendar!Seeded(u, today) = "active"
      PROVE  t = u
    <2>1. 2 * (k + t[2]) = 2 * (k + u[2])
        BY <1>4, <1>5, <1>6
    <2>2. t[2] = u[2]
        BY <1>2, <1>5, <1>6, <2>1
    <2> QED BY <1>5, <1>6, <2>2
<1> QED BY <1>5, <1>6

LEMMA CalendarStarts == ASSUME Calendar!Init PROVE CalendarInv
<1>1. PICK y \in Years, today \in Calendar!Days :
         /\ year = [x \in Years |-> IF x = y THEN "active" ELSE "none"]
         /\ term = [t \in Calendar!Terms |-> IF t[1] = y THEN Calendar!Seeded(t, today) ELSE "none"]
         /\ clerk = [c \in Reqs |-> Calendar!Away] /\ muddled = {}
    BY DEF Calendar!Init
<1>2. /\ \A t \in Calendar!Terms : t[1] \in Years /\ term[t] = IF t[1] = y THEN Calendar!Seeded(t, today) ELSE "none"
      /\ Calendar!ActiveYears = {y}
    BY <1>1 DEF Calendar!Terms, Calendar!ActiveYears
<1>3. \A t \in Calendar!Terms : t[1] = y => Calendar!Seeded(t, today) \in {"upcoming", "active", "closed"}
    BY SeededFacts
<1>4. Calendar!TypeOK
    BY <1>1, <1>2, <1>3 DEF Calendar!TypeOK
<1>5. Same(Calendar!ActiveTerms)
    BY <1>2, SeededFacts DEF Same, Calendar!ActiveTerms
<1>6. Calendar!Away \in Clerks /\ Calendar!Away.op = "away"
    BY DEF Calendar!Away, Clerks
<1>7. \A t \in Calendar!ActiveTerms : t[1] \in Calendar!ActiveYears
    BY <1>2 DEF Calendar!ActiveTerms
<1> QED BY <1>1, <1>2, <1>4, <1>5, <1>6, <1>7 DEF CalendarInv, ClerkHolds, Same

LEMMA ComeStep ==
    ASSUME CalendarInv, NEW c \in Reqs, NEW w \in Clerks, Calendar!Come(c, w), w.op # "away", ~w.met,
           ClerkHolds(w)
    PROVE  CalendarInv'
<1> DEFINE busy == {x \in Reqs : clerk[x] # Calendar!Away}
<1>1. /\ clerk[c] = Calendar!Away /\ UNCHANGED <<year, term, muddled>>
      /\ clerk' = [x \in Reqs |-> CASE x = c -> [w EXCEPT !.met = busy # {}]
                                    [] x \in busy -> [clerk[x] EXCEPT !.met = TRUE]
                                    [] OTHER -> clerk[x]]
    BY DEF Calendar!Come
<1>2. PICK b \in BOOLEAN : b = (busy # {})
    OBVIOUS
<1>3. PICK v : v = [w EXCEPT !.met = b]
    OBVIOUS
<1>4. /\ v \in Clerks /\ v.op = w.op /\ v.y = w.y /\ v.n = w.n /\ v.to = w.to /\ v.seen = w.seen /\ v.met = b
    BY <1>3 DEF Clerks
<1>5. clerk'[c] = v
    BY <1>1, <1>2, <1>3
<1>6. \A x \in Reqs \ busy : x # c => clerk'[x] = clerk[x]
    BY <1>1
<1>7. \A x \in busy : /\ clerk'[x] \in Clerks /\ clerk'[x].op = clerk[x].op /\ clerk'[x].y = clerk[x].y
                      /\ clerk'[x].n = clerk[x].n /\ clerk'[x].to = clerk[x].to
                      /\ clerk'[x].seen = clerk[x].seen /\ clerk'[x].met
    <2> SUFFICES ASSUME NEW x \in busy
                 PROVE  /\ clerk'[x] \in Clerks /\ clerk'[x].op = clerk[x].op /\ clerk'[x].y = clerk[x].y
                        /\ clerk'[x].n = clerk[x].n /\ clerk'[x].to = clerk[x].to
                        /\ clerk'[x].seen = clerk[x].seen /\ clerk'[x].met
        OBVIOUS
    <2>1. clerk'[x] = [clerk[x] EXCEPT !.met = TRUE] /\ clerk[x] \in Clerks
        BY <1>1 DEF CalendarInv
    <2>2. PICK g, n : g = clerk[x] /\ n = clerk'[x]
        OBVIOUS
    <2>3. n = [g EXCEPT !.met = TRUE] /\ g \in Clerks
        BY <2>1, <2>2
    <2>4. /\ n \in Clerks /\ n.op = g.op /\ n.y = g.y /\ n.n = g.n /\ n.to = g.to /\ n.seen = g.seen /\ n.met
        BY <2>3 DEF Clerks
    <2> QED BY <2>2, <2>4
<1>8. /\ \A x \in busy : x \in Reqs /\ x # c /\ clerk[x].op # "away"
      /\ \A x \in Reqs \ busy : clerk[x] = Calendar!Away
    BY <1>1 DEF CalendarInv, ClerkHolds
<1> HIDE DEF busy
<1>9. clerk' \in [Reqs -> Clerks]
    <2>1. \A x \in Reqs : clerk'[x] \in Clerks
        BY <1>4, <1>5, <1>6, <1>7 DEF CalendarInv
    <2>2. clerk' = [x \in Reqs |-> clerk'[x]]
        BY <1>1
    <2> QED BY <2>1, <2>2
<1>10. ASSUME NEW x \in Reqs PROVE ClerkHolds(clerk[x])'
    <2>1. CASE x = c
        <3>1. ClerkHolds(v)
            BY <1>4 DEF ClerkHolds
        <3> QED BY <1>1, <1>5, <2>1, <3>1 DEF ClerkHolds, Calendar!Terms
    <2>2. CASE x \in busy
        <3>1. ClerkHolds(clerk[x])
            BY DEF CalendarInv
        <3> QED BY <1>1, <1>7, <1>8, <2>2, <3>1 DEF ClerkHolds, Calendar!Terms
    <2>3. CASE x # c /\ x \notin busy
        <3>1. ClerkHolds(clerk[x])
            BY DEF CalendarInv
        <3> QED BY <1>1, <1>6, <2>3, <3>1 DEF ClerkHolds, Calendar!Terms
    <2> QED BY <2>1, <2>2, <2>3
<1>11. \A d, x \in Reqs : (d # x /\ clerk'[d] # Calendar!Away /\ clerk'[x] # Calendar!Away) => clerk'[d].met
    <2> SUFFICES ASSUME NEW d \in Reqs, NEW x \in Reqs, d # x, clerk'[d] # Calendar!Away, clerk'[x] # Calendar!Away
                 PROVE  clerk'[d].met
        OBVIOUS
    <2>1. CASE d \in busy
        BY <1>7, <2>1
    <2>2. CASE d \notin busy
        <3>1. d = c
            BY <1>6, <1>8, <2>2
        <3>2. x \in busy
            BY <1>6, <1>8, <3>1
        <3> QED BY <1>2, <1>4, <1>5, <3>1, <3>2
    <2> QED BY <2>1, <2>2
<1> QED BY <1>1, <1>9, <1>10, <1>11
        DEF CalendarInv, Calendar!TypeOK, Calendar!Terms, Calendar!ActiveYears, Calendar!ActiveTerms

\* A handler that ends: alone it answers for what it writes.
LEMMA LeaveStep ==
    ASSUME CalendarInv, NEW c \in Reqs, clerk[c] # Calendar!Away, NEW muddles, NEW settles,
           Calendar!Leave(c, muddles, settles), Calendar!TypeOK',
           \A y \in Years : year[y] # "none" => year'[y] # "none",
           \A t \in Calendar!Terms : term[t] # "none" => term'[t] # "none",
           ~clerk[c].met =>
               /\ "years" \notin muddled' => Same(Calendar!ActiveYears)'
               /\ "terms" \notin muddled' => Same(Calendar!ActiveTerms)'
               /\ muddled' = {} => \A t \in Calendar!ActiveTerms' : t[1] \in Calendar!ActiveYears'
    PROVE  CalendarInv'
<1>1. /\ clerk' = [clerk EXCEPT ![c] = Calendar!Away]
      /\ muddled' = IF clerk[c].met THEN {"years", "terms"} ELSE (muddled \cup muddles) \ settles
    BY DEF Calendar!Leave
<1>2. Calendar!Away \in Clerks /\ Calendar!Away.op = "away"
    BY DEF Calendar!Away, Clerks
<1>3. /\ clerk' \in [Reqs -> Clerks] /\ clerk'[c] = Calendar!Away
      /\ \A x \in Reqs \ {c} : clerk'[x] = clerk[x]
    BY <1>1, <1>2 DEF CalendarInv
<1>4. ASSUME NEW x \in Reqs PROVE ClerkHolds(clerk[x])'
    <2>1. CASE x = c \/ clerk[x] = Calendar!Away
        BY <1>2, <1>3, <2>1 DEF ClerkHolds
    <2>2. CASE x # c /\ clerk[x] # Calendar!Away
        <3>1. ClerkHolds(clerk[x]) /\ clerk[x].met /\ clerk'[x] = clerk[x]
            BY <1>3, <2>2 DEF CalendarInv
        <3> QED BY <3>1 DEF ClerkHolds, Calendar!Terms
    <2> QED BY <2>1, <2>2
<1>5. \A d, x \in Reqs : (d # x /\ clerk'[d] # Calendar!Away /\ clerk'[x] # Calendar!Away) => clerk'[d].met
    BY <1>3 DEF CalendarInv
<1>6. CASE clerk[c].met
    BY <1>1, <1>3, <1>4, <1>5, <1>6 DEF CalendarInv
<1>7. CASE ~clerk[c].met
    BY <1>1, <1>3, <1>4, <1>5, <1>7 DEF CalendarInv
<1> QED BY <1>6, <1>7

\* An activated year is the active one.
LEMMA YearsAfterFacts ==
    ASSUME Calendar!TypeOK, NEW y \in Years, NEW seen, year[y] # "none"
    PROVE  LET after == Calendar!YearsAfter(y, seen)
           IN  /\ after \in [Years -> {"none", "upcoming", "active", "archived"}]
               /\ \A x \in Years : (after[x] = "none") <=> (year[x] = "none")
               /\ \A x \in Years : after[x] = "active" => x = y
               /\ seen = year[y] => after[y] = "active"
BY DEF Calendar!TypeOK, Calendar!YearsAfter

LEMMA TermsAfterFacts ==
    ASSUME Calendar!TypeOK, NEW t \in Calendar!Terms, term[t] # "none"
    PROVE  LET after == Calendar!TermsAfter(t)
           IN  /\ after \in [Calendar!Terms -> {"none", "upcoming", "active", "closed"}]
               /\ \A x \in Calendar!Terms : (after[x] = "none") <=> (term[x] = "none")
               /\ \A x \in Calendar!Terms : after[x] = "active" <=> x = t
BY DEF Calendar!TypeOK, Calendar!TermsAfter

LEMMA CalendarStep == ASSUME CalendarInv, Calendar!Next PROVE CalendarInv'
<1>0. /\ Calendar!TypeOK /\ Calendar!Away \in Clerks /\ Calendar!Away.op = "away"
      /\ \A t \in Calendar!Terms : t = <<t[1], t[2]>> /\ t[1] \in Years /\ t[2] \in Numbers
    BY DEF CalendarInv, Calendar!Away, Clerks, Calendar!Terms
<1>1. ASSUME NEW y \in Years, NEW today \in Calendar!Days, Calendar!CreateYear(y, today) PROVE CalendarInv'
    <2>1. /\ year[y] = "none" /\ year' = [year EXCEPT ![y] = "upcoming"] /\ UNCHANGED clerk
          /\ term' = [t \in Calendar!Terms |-> IF t[1] = y THEN Calendar!Seeded(t, today) ELSE term[t]]
          /\ muddled' = muddled \cup {"terms" : t \in {t \in Calendar!Terms : t[1] = y /\ term'[t] = "active"}}
        BY <1>1 DEF Calendar!CreateYear
    <2>2. \A t \in Calendar!Terms : t[1] = y => Calendar!Seeded(t, today) \in {"upcoming", "active", "closed"}
        BY SeededFacts
    <2>3. /\ \A x \in Years : year'[x] = IF x = y THEN "upcoming" ELSE year[x]
          /\ \A t \in Calendar!Terms : term'[t] = IF t[1] = y THEN Calendar!Seeded(t, today) ELSE term[t]
          /\ \A t \in Calendar!Terms : t[1] = y => term[t] = "none"
        BY <1>0, <2>1 DEF Calendar!TypeOK
    <2>4. Calendar!TypeOK'
        <3>1. year' \in [Years -> {"none", "upcoming", "active", "archived"}]
            BY <1>0, <2>1 DEF Calendar!TypeOK
        <3>2. term' \in [Calendar!Terms -> {"none", "upcoming", "active", "closed"}]
            BY <1>0, <2>1, <2>2 DEF Calendar!TypeOK
        <3>3. \A t \in Calendar!Terms : (term'[t] = "none") <=> (year'[t[1]] = "none")
            BY <1>0, <2>2, <2>3 DEF Calendar!TypeOK
        <3>4. muddled' \subseteq {"years", "terms"}
            BY <1>0, <2>1 DEF Calendar!TypeOK
        <3> QED BY <3>1, <3>2, <3>3, <3>4 DEF Calendar!TypeOK, Calendar!Terms
    <2>5. ASSUME NEW x \in Reqs PROVE ClerkHolds(clerk[x])'
        <3>1. ClerkHolds(clerk[x])
            BY DEF CalendarInv
        <3> QED BY <2>1, <2>2, <2>3, <3>1 DEF ClerkHolds, Calendar!Terms
    <2>6. Calendar!ActiveYears' = Calendar!ActiveYears
        BY <2>1, <2>3 DEF Calendar!ActiveYears
    <2>7. "terms" \notin muddled' => Calendar!ActiveTerms' = Calendar!ActiveTerms
        <3> SUFFICES ASSUME "terms" \notin muddled' PROVE Calendar!ActiveTerms' = Calendar!ActiveTerms
            OBVIOUS
        <3>1. \A t \in Calendar!Terms : t[1] = y => term'[t] # "active"
            BY <2>1
        <3>2. \A t \in Calendar!Terms : term'[t] = "active" <=> term[t] = "active"
            BY <2>3, <3>1
        <3> QED BY <3>2 DEF Calendar!ActiveTerms, Calendar!Terms
    <2>8. muddled \subseteq muddled'
        BY <2>1
    <2> QED BY <2>1, <2>4, <2>5, <2>6, <2>7, <2>8 DEF CalendarInv, Same
<1>2. ASSUME NEW c \in Reqs, NEW y \in Years, NEW to \in {"upcoming", "active", "archived"},
             Calendar!EditYearRead(c, y, to)
      PROVE  CalendarInv'
    <2> DEFINE w == [Calendar!Away EXCEPT !.op = "editYear", !.y = y, !.to = to]
    <2>1. w \in Clerks /\ w.op = "editYear" /\ w.y = y /\ w.to = to /\ ~w.met
        BY DEF Calendar!Away, Clerks
    <2>2. Calendar!Come(c, w) /\ year[y] # "none"
        BY <1>2 DEF Calendar!EditYearRead
    <2> HIDE DEF w
    <2>3. ClerkHolds(w)
        BY <2>1, <2>2 DEF ClerkHolds
    <2> QED BY <2>1, <2>2, <2>3, ComeStep
<1>3. ASSUME NEW c \in Reqs, NEW t \in Calendar!Terms, NEW to \in {"upcoming", "active", "closed"},
             Calendar!EditTermRead(c, t, to)
      PROVE  CalendarInv'
    <2> DEFINE w == [Calendar!Away EXCEPT !.op = "editTerm", !.y = t[1], !.n = t[2], !.to = to]
    <2>1. w \in Clerks /\ w.op = "editTerm" /\ w.y = t[1] /\ w.n = t[2] /\ w.to = to /\ ~w.met
        BY <1>0 DEF Calendar!Away, Clerks
    <2>2. Calendar!Come(c, w) /\ term[t] # "none"
        BY <1>3 DEF Calendar!EditTermRead
    <2> HIDE DEF w
    <2>3. ClerkHolds(w)
        BY <1>0, <2>1, <2>2 DEF ClerkHolds
    <2> QED BY <2>1, <2>2, <2>3, ComeStep
<1>4. ASSUME NEW c \in Reqs, NEW y \in Years, Calendar!ActivateYearRead(c, y) PROVE CalendarInv'
    <2> DEFINE w == [Calendar!Away EXCEPT !.op = "activateYear", !.y = y, !.seen = year[y]]
    <2>1. w \in Clerks /\ w.op = "activateYear" /\ w.y = y /\ w.seen = year[y] /\ ~w.met
        BY <1>0 DEF Calendar!Away, Clerks, Calendar!TypeOK
    <2>2. Calendar!Come(c, w) /\ year[y] # "none"
        BY <1>4 DEF Calendar!ActivateYearRead
    <2> HIDE DEF w
    <2>3. ClerkHolds(w)
        BY <2>1, <2>2 DEF ClerkHolds
    <2> QED BY <2>1, <2>2, <2>3, ComeStep
<1>5. ASSUME NEW c \in Reqs, NEW t \in Calendar!Terms, Calendar!ActivateTermRead(c, t) PROVE CalendarInv'
    <2> DEFINE w == [Calendar!Away EXCEPT !.op = "activateTerm", !.y = t[1], !.n = t[2], !.seen = year[t[1]]]
    <2>1. w \in Clerks /\ w.op = "activateTerm" /\ w.y = t[1] /\ w.n = t[2] /\ w.seen = year[t[1]] /\ ~w.met
        BY <1>0 DEF Calendar!Away, Clerks, Calendar!TypeOK
    <2>2. Calendar!Come(c, w) /\ term[t] # "none"
        BY <1>5 DEF Calendar!ActivateTermRead
    <2> HIDE DEF w
    <2>3. ClerkHolds(w)
        BY <1>0, <2>1, <2>2 DEF ClerkHolds
    <2> QED BY <2>1, <2>2, <2>3, ComeStep
<1>6. ASSUME NEW c \in Reqs, Calendar!EditYearCommit(c) PROVE CalendarInv'
    <2> DEFINE w == clerk[c]
    <2>1. /\ w.op = "editYear" /\ ClerkHolds(w) /\ w # Calendar!Away
          /\ year' = [year EXCEPT ![w.y] = w.to] /\ UNCHANGED term /\ Calendar!Leave(c, {"years"}, {})
        BY <1>0, <1>6 DEF Calendar!EditYearCommit, CalendarInv
    <2>2. w.y \in Years /\ year[w.y] # "none" /\ w.to \in {"upcoming", "active", "archived"}
        BY <2>1 DEF ClerkHolds
    <2>3. "years" \in muddled' /\ muddled \subseteq muddled' /\ muddled' \subseteq {"years", "terms"}
        BY <1>0, <2>1 DEF Calendar!Leave, Calendar!TypeOK
    <2> HIDE DEF w
    <2>4. /\ year' \in [Years -> {"none", "upcoming", "active", "archived"}]
          /\ \A x \in Years : (year'[x] = "none") <=> (year[x] = "none")
        BY <1>0, <2>1, <2>2 DEF Calendar!TypeOK
    <2>5. Calendar!TypeOK'
        BY <1>0, <2>1, <2>3, <2>4 DEF Calendar!TypeOK, Calendar!Terms
    <2>6. Calendar!ActiveTerms' = Calendar!ActiveTerms
        BY <2>1 DEF Calendar!ActiveTerms, Calendar!Terms
    <2>7. "terms" \notin muddled' => Same(Calendar!ActiveTerms)'
        BY <2>3, <2>6 DEF CalendarInv, Same
    <2> QED BY <2>1, <2>3, <2>4, <2>5, <2>7, LeaveStep DEF w
<1>7. ASSUME NEW c \in Reqs, Calendar!EditTermCommit(c) PROVE CalendarInv'
    <2> DEFINE w == clerk[c]
    <2>1. /\ w.op = "editTerm" /\ ClerkHolds(w) /\ w # Calendar!Away
          /\ term' = [term EXCEPT ![<<w.y, w.n>>] = w.to] /\ UNCHANGED year /\ Calendar!Leave(c, {"terms"}, {})
        BY <1>0, <1>7 DEF Calendar!EditTermCommit, CalendarInv
    <2>2. <<w.y, w.n>> \in Calendar!Terms /\ term[<<w.y, w.n>>] # "none" /\ w.to \in {"upcoming", "active", "closed"}
        BY <2>1 DEF ClerkHolds
    <2>3. "terms" \in muddled' /\ muddled \subseteq muddled' /\ muddled' \subseteq {"years", "terms"}
        BY <1>0, <2>1 DEF Calendar!Leave, Calendar!TypeOK
    <2> HIDE DEF w
    <2>4. /\ term' \in [Calendar!Terms -> {"none", "upcoming", "active", "closed"}]
          /\ \A x \in Calendar!Terms : (term'[x] = "none") <=> (term[x] = "none")
        BY <1>0, <2>1, <2>2 DEF Calendar!TypeOK
    <2>5. Calendar!TypeOK'
        BY <1>0, <2>1, <2>3, <2>4 DEF Calendar!TypeOK, Calendar!Terms
    <2>6. Calendar!ActiveYears' = Calendar!ActiveYears
        BY <2>1 DEF Calendar!ActiveYears
    <2>7. "years" \notin muddled' => Same(Calendar!ActiveYears)'
        BY <2>3, <2>6 DEF CalendarInv, Same
    <2> QED BY <2>1, <2>3, <2>4, <2>5, <2>7, LeaveStep DEF w
<1>8. ASSUME NEW c \in Reqs, Calendar!ActivateYearCommit(c) PROVE CalendarInv'
    <2> DEFINE w == clerk[c]
    <2>1. /\ w.op = "activateYear" /\ ClerkHolds(w) /\ w # Calendar!Away
          /\ year' = Calendar!YearsAfter(w.y, w.seen) /\ term' \in Calendar!TermsAfterYear(w.y)
          /\ Calendar!Leave(c, {}, {"years"})
        BY <1>0, <1>8 DEF Calendar!ActivateYearCommit, CalendarInv
    <2>2. w.y \in Years /\ year[w.y] # "none" /\ (~w.met => w.seen = year[w.y])
        BY <2>1 DEF ClerkHolds
    <2>3. muddled' = IF w.met THEN {"years", "terms"} ELSE muddled \ {"years"}
        BY <2>1 DEF Calendar!Leave
    <2> DEFINE t == <<w.y, 1>>
    <2>4. t \in Calendar!Terms /\ t[1] = w.y /\ term[t] # "none"
        BY <1>0, <2>2, CalendarAssumption DEF Calendar!Terms, Calendar!TypeOK
    <2> HIDE DEF w, t
    <2>5. /\ year' \in [Years -> {"none", "upcoming", "active", "archived"}]
          /\ \A x \in Years : (year'[x] = "none") <=> (year[x] = "none")
          /\ \A x \in Years : year'[x] = "active" => x = w.y
          /\ w.seen = year[w.y] => year'[w.y] = "active"
        BY <1>0, <2>1, <2>2, YearsAfterFacts
    <2>6. \/ term' = Calendar!TermsAfter(t)
          \/ term' = term /\ \E found \in Calendar!ActiveTerms : found[1] = w.y
        BY <2>1 DEF Calendar!TermsAfterYear, t
    <2>7. /\ term' \in [Calendar!Terms -> {"none", "upcoming", "active", "closed"}]
          /\ \A x \in Calendar!Terms : (term'[x] = "none") <=> (term[x] = "none")
        BY <1>0, <2>4, <2>6, TermsAfterFacts DEF Calendar!TypeOK
    <2>8. Calendar!TypeOK'
        BY <1>0, <2>3, <2>5, <2>7 DEF Calendar!TypeOK, Calendar!Terms
    <2>9. ASSUME ~w.met PROVE /\ Same(Calendar!ActiveYears)' /\ w.y \in Calendar!ActiveYears'
        BY <2>2, <2>5, <2>9 DEF Same, Calendar!ActiveYears
    <2>10. ASSUME ~w.met, "terms" \notin muddled'
           PROVE  Same(Calendar!ActiveTerms)' /\ \A x \in Calendar!ActiveTerms' : x[1] = w.y
        <3>1. CASE term' = Calendar!TermsAfter(t)
            <4>1. \A x \in Calendar!Terms : term'[x] = "active" => x = t
                BY <1>0, <2>4, <3>1, TermsAfterFacts
            <4>2. \A x \in Calendar!ActiveTerms' : x = t
                BY <4>1 DEF Calendar!ActiveTerms, Calendar!Terms
            <4> QED BY <2>4, <4>2 DEF Same
        <3>2. CASE term' = term /\ \E found \in Calendar!ActiveTerms : found[1] = w.y
            <4>1. Same(Calendar!ActiveTerms)
                BY <2>3, <2>10 DEF CalendarInv
            <4>2. Calendar!ActiveTerms' = Calendar!ActiveTerms
                BY <3>2 DEF Calendar!ActiveTerms, Calendar!Terms
            <4> QED BY <3>2, <4>1, <4>2 DEF Same
        <3> QED BY <2>6, <3>1, <3>2
    <2>11. ~w.met /\ muddled' = {} => \A x \in Calendar!ActiveTerms' : x[1] \in Calendar!ActiveYears'
        BY <2>9, <2>10
    <2> QED BY <2>1, <2>5, <2>7, <2>8, <2>9, <2>10, <2>11, LeaveStep DEF w
<1>9. ASSUME NEW c \in Reqs, Calendar!ActivateTermCommit(c) PROVE CalendarInv'
    <2> DEFINE w == clerk[c]
               t == <<w.y, w.n>>
    <2>1. /\ w.op = "activateTerm" /\ ClerkHolds(w) /\ w # Calendar!Away
          /\ term' = Calendar!TermsAfter(t)
          /\ year' = IF w.seen = "active" THEN year ELSE Calendar!YearsAfter(w.y, w.seen)
          /\ Calendar!Leave(c, {}, {"terms"})
        BY <1>0, <1>9 DEF Calendar!ActivateTermCommit, CalendarInv
    <2>2. /\ t \in Calendar!Terms /\ term[t] # "none" /\ (~w.met => w.seen = year[w.y]) /\ t[1] = w.y
        BY <2>1 DEF ClerkHolds
    <2>3. muddled' = IF w.met THEN {"years", "terms"} ELSE muddled \ {"terms"}
        BY <2>1 DEF Calendar!Leave
    <2> HIDE DEF w, t
    <2>4. w.y \in Years /\ year[w.y] # "none"
        BY <1>0, <2>2 DEF Calendar!TypeOK
    <2>5. /\ year' \in [Years -> {"none", "upcoming", "active", "archived"}]
          /\ \A x \in Years : (year'[x] = "none") <=> (year[x] = "none")
          /\ w.seen = year[w.y] => year'[w.y] = "active"
        BY <1>0, <2>1, <2>4, YearsAfterFacts DEF Calendar!TypeOK
    <2>6. /\ term' \in [Calendar!Terms -> {"none", "upcoming", "active", "closed"}]
          /\ \A x \in Calendar!Terms : (term'[x] = "none") <=> (term[x] = "none")
          /\ \A x \in Calendar!Terms : term'[x] = "active" => x = t
        BY <1>0, <2>1, <2>2, TermsAfterFacts
    <2>7. Calendar!TypeOK'
        BY <1>0, <2>3, <2>5, <2>6 DEF Calendar!TypeOK, Calendar!Terms
    <2>8. \A x \in Calendar!ActiveTerms' : x = t
        BY <2>6 DEF Calendar!ActiveTerms, Calendar!Terms
    <2>9. Same(Calendar!ActiveTerms)'
        BY <2>8 DEF Same
    <2>10. ASSUME ~w.met, "years" \notin muddled' PROVE Same(Calendar!ActiveYears)'
        <3>1. CASE w.seen = "active"
            <4>1. Same(Calendar!ActiveYears) /\ year' = year
                BY <2>1, <2>3, <2>10, <3>1 DEF CalendarInv
            <4> QED BY <4>1 DEF Calendar!ActiveYears, Same
        <3>2. CASE w.seen # "active"
            <4>1. \A x \in Years : year'[x] = "active" => x = w.y
                BY <1>0, <2>1, <2>4, <3>2, YearsAfterFacts
            <4> QED BY <4>1 DEF Calendar!ActiveYears, Same
        <3> QED BY <3>1, <3>2
    <2>11. ~w.met => \A x \in Calendar!ActiveTerms' : x[1] \in Calendar!ActiveYears'
        BY <2>2, <2>4, <2>5, <2>8 DEF Calendar!ActiveYears
    <2> QED BY <2>1, <2>5, <2>6, <2>7, <2>9, <2>10, <2>11, LeaveStep DEF w
<1>10. ASSUME NEW c \in Reqs, Calendar!Rollback(c) PROVE CalendarInv'
    <2>1. clerk[c] # Calendar!Away /\ clerk' = [clerk EXCEPT ![c] = Calendar!Away] /\ UNCHANGED <<year, term, muddled>>
        BY <1>10 DEF Calendar!Rollback
    <2>2. /\ clerk' \in [Reqs -> Clerks] /\ clerk'[c] = Calendar!Away
          /\ \A x \in Reqs \ {c} : clerk'[x] = clerk[x]
        BY <1>0, <2>1 DEF CalendarInv
    <2>3. ASSUME NEW x \in Reqs PROVE ClerkHolds(clerk[x])'
        <3>1. CASE x = c
            BY <1>0, <2>2, <3>1 DEF ClerkHolds
        <3>2. CASE x # c
            <4>1. ClerkHolds(clerk[x])
                BY DEF CalendarInv
            <4> QED BY <2>1, <2>2, <3>2, <4>1 DEF ClerkHolds, Calendar!Terms
        <3> QED BY <3>1, <3>2
    <2>4. \A d, x \in Reqs : (d # x /\ clerk'[d] # Calendar!Away /\ clerk'[x] # Calendar!Away) => clerk'[d].met
        BY <2>2 DEF CalendarInv
    <2> QED BY <2>1, <2>2, <2>3, <2>4
            DEF CalendarInv, Calendar!TypeOK, Calendar!Terms, Calendar!ActiveYears, Calendar!ActiveTerms
<1> QED BY <1>1, <1>2, <1>3, <1>4, <1>5, <1>6, <1>7, <1>8, <1>9, <1>10 DEF Calendar!Next

LEMMA CalendarSame == ASSUME CalendarInv, UNCHANGED <<year, term, clerk, muddled>> PROVE CalendarInv'
<1>1. \A c \in Reqs : ClerkHolds(clerk[c])'
    BY DEF CalendarInv, ClerkHolds, Calendar!Terms
<1> QED BY <1>1 DEF CalendarInv, Calendar!TypeOK, Calendar!Terms, Calendar!ActiveYears, Calendar!ActiveTerms

CalendarHolds == part = "calendar" => CalendarInv

LEMMA CalendarInvariant == Spec => []CalendarHolds
<1>1. Init => CalendarHolds
    BY CalendarStarts DEF Init, CalendarHolds
<1>2. CalendarHolds /\ [Next]_campus => CalendarHolds'
    BY CalendarStep, CalendarSame DEF Next, campus, calendar, CalendarHolds
<1> QED BY <1>1, <1>2, PTL DEF Spec

\* The school is in one year and one term of that year, except what was set by hand
\* or seeded since the last undisturbed activation (activate_year, activate_term).
THEOREM OneYearOneTerm == Spec => []CalendarAgrees
<1>1. CalendarHolds => CalendarAgrees
    BY AtMostOne DEF CalendarHolds, CalendarInv, CalendarAgrees, Calendar!CalendarAgrees
<1> QED BY <1>1, CalendarInvariant, PTL

-----------------------------------------------------------------------------
(* Term registration                                                       *)

Rows == {"none", "on", "off", "deleted"}
Seen == Registers!Answers \cup {"none"}
Nothing == <<>>
Findings == UNION {[R -> Seen] : R \in SUBSET Requirements}
Offices == [op : {"free", "read", "flushed", "complete"}, g : Regs \cup {None},
            items : Registers!Items \cup {Nothing}, seen : Findings \cup {Nothing},
            needed : (SUBSET Registers!Demands) \cup {None}, fresh : BOOLEAN]

\* The answers of a registration once a handler w has written what it holds.
Shows(w, r) == IF r \in DOMAIN w.items THEN w.items[r] ELSE answer[w.g][r]
\* A demand as those answers meet it.
WillMeet(w, n) == Shows(w, n[1]) \in n[2]

\* A handler alone with its registration finds it as it was read, and what it
\* made of the checklist is true of the answers it leaves.
OfficeAlone(w) ==
    /\ w.op \in {"read", "flushed"} =>
          registration[w.g] = "in_progress" /\ \A r \in DOMAIN w.items : w.seen[r] = answer[w.g][r]
    /\ w.op = "flushed" /\ w.needed # None => \A n \in w.needed : WillMeet(w, n)
    /\ w.op = "flushed" /\ w.needed = None /\ w.fresh /\ Registers!Needed # {} =>
          \E n \in Registers!Needed : ~WillMeet(w, n)
    /\ w.op = "flushed" /\ ~w.fresh => w.g \in drifted
    /\ w.op = "complete" => \A n \in w.needed : Registers!Meets(answer[w.g], n)

OfficeHolds(w) ==
    /\ w.op = "free" => w = Registers!Free
    /\ w.op # "free" => w.g \in Regs /\ registration[w.g] # "none"
    /\ w.op \in {"read", "flushed"} => w.items \in Registers!Items /\ w.seen \in [DOMAIN w.items -> Seen]
    /\ w.op = "complete" => w.needed \in SUBSET Registers!Demands
    /\ w.op # "free" /\ w.g \notin raced => OfficeAlone(w)

Sound == {w \in Offices : OfficeHolds(w)}

RegistersInv ==
    /\ Registers!TypeOK
    /\ work \in [Reqs -> Sound]
    /\ basis \in [Regs -> SUBSET Registers!Demands]
    /\ \A p, q \in Reqs : p # q /\ work[p].op # "free" /\ work[p].g = work[q].g => work[p].g \in raced
    /\ Registers!CompletedMeansAnswered
    /\ Registers!AnsweredGetsCompleted

LEMMA FreeRow ==
    Registers!Free = [op |-> "free", g |-> None, items |-> Nothing, seen |-> Nothing, needed |-> None, fresh |-> FALSE]
BY DEF Registers!Free, Nothing

LEMMA FreeIsSound == Registers!Free \in Sound /\ Registers!Free \in Sound' /\ Registers!Free.op = "free" /\ Registers!Free.g = None
<1>2. Registers!Free \in Offices
    BY FreeRow DEF Offices
<1>3. Registers!Free.op = "free" /\ Registers!Free.g = None
    BY DEF Registers!Free
<1> QED BY <1>2, <1>3 DEF Sound, OfficeHolds

LEMMA SoundFacts ==
    ASSUME RegistersInv, NEW q \in Reqs
    PROVE  /\ work[q] \in Sound /\ work[q] \in Offices
           /\ work[q].op \in {"free", "read", "flushed", "complete"}
           /\ work[q].op = "free" => work[q] = Registers!Free /\ work[q].g = None
           /\ work[q].op # "free" => work[q].g \in Regs
<1>1. work[q] \in Sound
    BY DEF RegistersInv
<1> QED BY <1>1, FreeIsSound DEF Sound, OfficeHolds, Offices

LEMMA SoundAfterFacts ==
    ASSUME work' \in [Reqs -> Sound'], NEW q \in Reqs
    PROVE  /\ work'[q].op \in {"free", "read", "flushed", "complete"}
           /\ work'[q].op = "free" => work'[q].g = None
           /\ work'[q].op # "free" => work'[q].g \in Regs
<1>1. work'[q] \in Sound'
    OBVIOUS
<1> QED BY <1>1, FreeIsSound DEF Sound, OfficeHolds, Offices

LEMMA RegistersStart == Registers!Init => RegistersInv
<1> SUFFICES ASSUME Registers!Init PROVE RegistersInv
    OBVIOUS
<1>1. work \in [Reqs -> Sound] /\ \A q \in Reqs : work[q].op = "free" /\ work[q].g = None
    BY FreeIsSound DEF Registers!Init
<1> QED BY <1>1
        DEF Registers!Init, RegistersInv, Registers!TypeOK, Registers!CompletedMeansAnswered,
            Registers!AnsweredGetsCompleted

\* A handler begins: from then on a registration it shares with another is raced.
LEMMA TakeStep ==
    ASSUME RegistersInv, NEW q \in Reqs, NEW w \in Sound, w.op # "free", Registers!Take(q, w)
    PROVE  RegistersInv'
<1>1. /\ work'[q] = w /\ \A p \in Reqs \ {q} : work'[p] = work[p]
      /\ UNCHANGED <<section, requirement, changes, registration, answer, basis, drifted>>
    BY DEF RegistersInv, Registers!Take, Registers!checklist
<1>2. /\ raced \subseteq raced'
      /\ \A p \in Reqs : work[p].g = w.g => w.g \in raced'
    BY DEF Registers!Take
<1>3. Registers!Needed' = Registers!Needed
    BY <1>1 DEF Registers!Needed, Registers!Shown, Registers!Accepts
<1>4. ASSUME NEW v \in Sound PROVE v \in Sound'
    <2>1. v \in Offices /\ OfficeHolds(v)
        BY DEF Sound
    <2>2. OfficeAlone(v) => OfficeAlone(v)'
        BY <1>1, <1>3 DEF OfficeAlone, Shows, WillMeet, Registers!Meets
    <2> QED BY <1>1, <1>2, <2>1, <2>2 DEF OfficeHolds, Sound
<1>5. work' \in [Reqs -> Sound']
    BY <1>4 DEF RegistersInv, Registers!Take
<1>6. \A p, x \in Reqs : p # x /\ work'[p].op # "free" /\ work'[p].g = work'[x].g => work'[p].g \in raced'
    BY <1>1, <1>2 DEF RegistersInv
<1>7. Registers!TypeOK'
    BY <1>1, <1>5, SoundAfterFacts DEF RegistersInv, Registers!TypeOK
<1>8. Registers!CompletedMeansAnswered' /\ Registers!AnsweredGetsCompleted'
    BY <1>1, <1>2, <1>3 DEF RegistersInv, Registers!CompletedMeansAnswered, Registers!AnsweredGetsCompleted
<1> QED BY <1>1, <1>5, <1>6, <1>7, <1>8 DEF RegistersInv

\* A handler ends, having written its own registration at most.
LEMMA FinishStep ==
    ASSUME RegistersInv, NEW q \in Reqs, work[q].op # "free", NEW g \in Regs, g = work[q].g, Registers!Finish(q),
           registration' \in [Regs -> {"none", "in_progress", "complete"}], registration'[g] # "none",
           answer' \in [Regs -> [Requirements -> Seen]],
           basis' \in [Regs -> SUBSET Registers!Demands],
           \A x \in Regs \ {g} : /\ registration'[x] = registration[x] /\ answer'[x] = answer[x]
                                 /\ basis'[x] = basis[x] /\ (x \in drifted <=> x \in drifted'),
           g \notin raced /\ registration'[g] = "complete" =>
               \A n \in basis'[g] : Registers!Meets(answer'[g], n),
           g \notin raced \cup drifted' /\ registration'[g] = "in_progress" /\ Registers!Needed # {} =>
               \E n \in Registers!Needed : ~Registers!Meets(answer'[g], n)
    PROVE  RegistersInv'
<1>1. /\ work' = [work EXCEPT ![q] = Registers!Free]
      /\ work'[q] = Registers!Free /\ \A p \in Reqs \ {q} : work'[p] = work[p]
      /\ UNCHANGED <<section, requirement, changes, raced>>
    BY DEF RegistersInv, Registers!Finish, Registers!checklist
<1>2. Registers!Needed' = Registers!Needed
    BY <1>1 DEF Registers!Needed, Registers!Shown, Registers!Accepts
<1>3. ASSUME NEW u \in Sound, u.op # "free" /\ u.g = g => g \in raced
      PROVE  u \in Sound'
    <2>0. u \in Offices /\ OfficeHolds(u)
        BY DEF Sound
    <2>1. CASE u.op = "free"
        BY <2>0, <2>1 DEF OfficeHolds, Sound
    <2>2. CASE u.op # "free" /\ u.g = g
        BY <1>1, <1>3, <2>0, <2>2 DEF OfficeHolds, Sound
    <2>3. CASE u.op # "free" /\ u.g # g
        <3>1. u.g \in Regs \ {g}
            BY <2>0, <2>3 DEF OfficeHolds
        <3>2. OfficeAlone(u) => OfficeAlone(u)'
            BY <1>2, <3>1 DEF OfficeAlone, Shows, WillMeet, Registers!Meets
        <3> QED BY <1>1, <2>0, <2>3, <3>1, <3>2 DEF OfficeHolds, Sound
    <2> QED BY <2>1, <2>2, <2>3
<1>4. ASSUME NEW p \in Reqs PROVE work'[p] \in Sound'
    <2>1. CASE p = q
        BY <1>1, <2>1, FreeIsSound
    <2>2. CASE p # q
        <3>1. work[p].op # "free" /\ work[p].g = g => g \in raced
            BY <2>2 DEF RegistersInv
        <3> QED BY <1>1, <1>3, <2>2, <3>1, SoundFacts
    <2> QED BY <2>1, <2>2
<1>5. work' \in [Reqs -> Sound']
    BY <1>1, <1>4 DEF RegistersInv
<1>6. \A p, x \in Reqs : p # x /\ work'[p].op # "free" /\ work'[p].g = work'[x].g => work'[p].g \in raced'
    <2>1. \A p \in Reqs : work'[p].op # "free" => work'[p].g # None
        BY <1>5, SoundAfterFacts, RegistersAssumption
    <2> QED BY <1>1, <2>1, FreeIsSound DEF RegistersInv
<1>7. Registers!TypeOK'
    <2>1. ASSUME NEW x \in Regs, registration'[x] = "none" PROVE answer'[x] = [r \in Requirements |-> "none"]
        BY <2>1 DEF RegistersInv, Registers!TypeOK
    <2>2. answer' \in [Regs -> [Requirements -> Registers!Answers \cup {"none"}]]
        BY DEF Seen
    <2> QED BY <1>1, <1>5, <2>1, <2>2, SoundAfterFacts DEF RegistersInv, Registers!TypeOK
<1>8. Registers!CompletedMeansAnswered'
    BY <1>1 DEF RegistersInv, Registers!CompletedMeansAnswered
<1>9. Registers!AnsweredGetsCompleted'
    BY <1>1, <1>2 DEF RegistersInv, Registers!AnsweredGetsCompleted
<1> QED BY <1>5, <1>6, <1>7, <1>8, <1>9 DEF RegistersInv

\* The checklist changes: every registration has drifted, no verdict is fresh.
LEMMA ChecklistStep ==
    ASSUME RegistersInv, Registers!ChecklistChanged, section' \in [Sections -> Rows],
           requirement' \in [Requirements -> [row : Rows, required : BOOLEAN, checkbox : BOOLEAN]]
    PROVE  RegistersInv'
<1>0. UNCHANGED <<registration, answer, basis, raced>> /\ drifted' = Regs
    BY DEF Registers!ChecklistChanged
<1> DEFINE Stale(v) == [v EXCEPT !.fresh = FALSE]
<1>1. work' = [q \in Reqs |-> Stale(work[q])]
    BY DEF Registers!ChecklistChanged
<1>2. ASSUME NEW v \in Offices
      PROVE  /\ Stale(v) \in Offices /\ Stale(v).op = v.op /\ Stale(v).g = v.g /\ Stale(v).items = v.items
             /\ Stale(v).seen = v.seen /\ Stale(v).needed = v.needed /\ Stale(v).fresh = FALSE
    BY DEF Offices
<1>3. ASSUME NEW v \in Offices, v.fresh = FALSE PROVE Stale(v) = v
    BY <1>3 DEF Offices
<1> HIDE DEF Stale
<1>4. ASSUME NEW v \in Sound PROVE Stale(v) \in Sound'
    <2>1. v \in Offices /\ OfficeHolds(v)
        BY DEF Sound
    <2>2. CASE v.op = "free"
        <3>1. v = Registers!Free /\ Registers!Free.fresh = FALSE
            BY <2>1, <2>2 DEF OfficeHolds, Registers!Free
        <3> QED BY <1>3, <2>1, <3>1, FreeIsSound
    <2>3. CASE v.op # "free"
        <3>1. PICK u : /\ u = Stale(v) /\ u.op = v.op /\ u.g = v.g /\ u.items = v.items
                       /\ u.seen = v.seen /\ u.needed = v.needed /\ u.fresh = FALSE
            BY <1>2, <2>1
        <3>2. v.g \in Regs
            BY <2>1, <2>3 DEF OfficeHolds
        <3>3. OfficeAlone(v) => OfficeAlone(u)'
            BY <1>0, <3>1, <3>2 DEF OfficeAlone, Shows, WillMeet, Registers!Meets
        <3>4. u \in Sound'
            BY <1>0, <1>2, <2>1, <2>3, <3>1, <3>2, <3>3 DEF OfficeHolds, Sound
        <3> QED BY <3>1, <3>4
    <2> QED BY <2>2, <2>3
<1>5. work' \in [Reqs -> Sound']
    BY <1>1, <1>4 DEF RegistersInv
<1>6. \A p \in Reqs : work'[p].op = work[p].op /\ work'[p].g = work[p].g
    BY <1>1, <1>2, SoundFacts
<1>7. \A p, x \in Reqs : p # x /\ work'[p].op # "free" /\ work'[p].g = work'[x].g => work'[p].g \in raced'
    BY <1>0, <1>6 DEF RegistersInv
<1>8. Registers!TypeOK'
    BY <1>0, <1>5, SoundAfterFacts DEF RegistersInv, Registers!TypeOK, Rows
<1>9. Registers!CompletedMeansAnswered' /\ Registers!AnsweredGetsCompleted'
    BY <1>0 DEF RegistersInv, Registers!CompletedMeansAnswered, Registers!AnsweredGetsCompleted
<1> QED BY <1>0, <1>5, <1>7, <1>8, <1>9 DEF RegistersInv

LEMMA ItemsFacts ==
    ASSUME NEW items \in Registers!Items
    PROVE  DOMAIN items \in SUBSET Requirements /\ items \in [DOMAIN items -> Registers!Answers]
BY DEF Registers!Items

LEMMA FindingsFacts == ASSUME NEW R \in SUBSET Requirements, NEW f \in [R -> Seen] PROVE f \in Findings
BY DEF Findings

LEMMA TypeFacts ==
    ASSUME RegistersInv
    PROVE  /\ registration \in [Regs -> {"none", "in_progress", "complete"}]
           /\ answer \in [Regs -> [Requirements -> Seen]]
           /\ basis \in [Regs -> SUBSET Registers!Demands]
           /\ section \in [Sections -> Rows]
           /\ requirement \in [Requirements -> [row : Rows, required : BOOLEAN, checkbox : BOOLEAN]]
           /\ Registers!Needed \in SUBSET Registers!Demands
BY DEF RegistersInv, Registers!TypeOK, Seen, Rows, Registers!Needed, Registers!Shown

LEMMA RegistersStep == RegistersInv /\ Registers!Next => RegistersInv'
<1> SUFFICES ASSUME RegistersInv, Registers!Next PROVE RegistersInv'
    OBVIOUS
<1>1. ASSUME Registers!EnsureDefaultConfig PROVE RegistersInv'
    <2>1. section' \in [Sections -> Rows]
        BY <1>1, TypeFacts DEF Registers!EnsureDefaultConfig, Rows
    <2>2. requirement' \in [Requirements -> [row : Rows, required : BOOLEAN, checkbox : BOOLEAN]]
        BY <1>1, TypeFacts DEF Registers!EnsureDefaultConfig, Rows
    <2> QED BY <1>1, <2>1, <2>2, ChecklistStep DEF Registers!EnsureDefaultConfig
<1>2. ASSUME NEW s \in Sections, Registers!CreateSection(s) PROVE RegistersInv'
    BY <1>2, TypeFacts, ChecklistStep DEF Registers!CreateSection, Rows
<1>3. ASSUME NEW s \in Sections, NEW row \in {"on", "off", "deleted"}, Registers!UpdateSection(s, row)
      PROVE  RegistersInv'
    BY <1>3, TypeFacts, ChecklistStep DEF Registers!UpdateSection, Rows
<1>4. ASSUME NEW r \in Requirements, NEW required \in BOOLEAN, NEW checkbox \in BOOLEAN,
             Registers!CreateRequirement(r, required, checkbox)
      PROVE  RegistersInv'
    <2>1. requirement' \in [Requirements -> [row : Rows, required : BOOLEAN, checkbox : BOOLEAN]]
        BY <1>4, TypeFacts DEF Registers!CreateRequirement, Rows
    <2> QED BY <1>4, <2>1, TypeFacts, ChecklistStep DEF Registers!CreateRequirement
<1>5. ASSUME NEW r \in Requirements, NEW required \in BOOLEAN, NEW checkbox \in BOOLEAN,
             NEW row \in {"on", "off", "deleted"}, Registers!UpdateRequirement(r, row, required, checkbox)
      PROVE  RegistersInv'
    <2>1. requirement' \in [Requirements -> [row : Rows, required : BOOLEAN, checkbox : BOOLEAN]]
        BY <1>5, TypeFacts DEF Registers!UpdateRequirement, Rows
    <2> QED BY <1>5, <2>1, TypeFacts, ChecklistStep DEF Registers!UpdateRequirement
<1>6. ASSUME NEW g \in Regs, Registers!StartRegistration(g) PROVE RegistersInv'
    <2>1. /\ registration' = [registration EXCEPT ![g] = "in_progress"] /\ registration[g] = "none"
          /\ UNCHANGED <<section, requirement, changes, answer, work, basis, raced, drifted>>
        BY <1>6 DEF Registers!StartRegistration, Registers!checklist
    <2>2. Registers!Needed' = Registers!Needed /\ Registers!Needed \subseteq Registers!Demands
        BY <2>1, TypeFacts DEF Registers!Needed, Registers!Shown, Registers!Accepts
    <2>3. /\ answer[g] = [r \in Requirements |-> "none"]
          /\ registration'[g] = "in_progress" /\ \A x \in Regs \ {g} : registration'[x] = registration[x]
        BY <2>1 DEF RegistersInv, Registers!TypeOK
    <2>4. ASSUME NEW v \in Sound PROVE v \in Sound'
        <3>1. v \in Offices /\ OfficeHolds(v)
            BY DEF Sound
        <3>2. CASE v.op = "free"
            BY <3>1, <3>2 DEF OfficeHolds, Sound
        <3>3. CASE v.op # "free"
            <4>1. v.g \in Regs \ {g}
                BY <2>1, <3>1, <3>3 DEF OfficeHolds
            <4>2. OfficeAlone(v) => OfficeAlone(v)'
                BY <2>1, <2>2, <2>3, <4>1 DEF OfficeAlone, Shows, WillMeet, Registers!Meets
            <4> QED BY <2>1, <2>3, <3>1, <3>3, <4>1, <4>2 DEF OfficeHolds, Sound
        <3> QED BY <3>2, <3>3
    <2>5. work' \in [Reqs -> Sound']
        BY <2>1, <2>4 DEF RegistersInv
    <2>6. Registers!TypeOK'
        BY <2>1, <2>3 DEF RegistersInv, Registers!TypeOK
    <2>7. Registers!CompletedMeansAnswered'
        BY <2>1, <2>3 DEF RegistersInv, Registers!CompletedMeansAnswered
    <2>8. Registers!AnsweredGetsCompleted'
        <3>1. \A n \in Registers!Demands : ~Registers!Meets(answer[g], n)
            BY <2>3 DEF Registers!Meets, Registers!Demands
        <3> QED BY <2>1, <2>2, <2>3, <3>1 DEF RegistersInv, Registers!AnsweredGetsCompleted
    <2> QED BY <2>1, <2>5, <2>6, <2>7, <2>8 DEF RegistersInv
<1>7. ASSUME NEW q \in Reqs, NEW g \in Regs, NEW items \in Registers!Items, Registers!ResponsesRead(q, g, items)
      PROVE  RegistersInv'
    <2> DEFINE seen == [r \in DOMAIN items |-> answer[g][r]]
    <2>1. PICK w : w = [Registers!Free EXCEPT !.op = "read", !.g = g, !.items = items, !.seen = seen]
        OBVIOUS
    <2>3. Registers!Take(q, w) /\ registration[g] = "in_progress"
        BY <1>7, <2>1 DEF Registers!ResponsesRead
    <2>4. DOMAIN items \in SUBSET Requirements
        BY ItemsFacts
    <2>5. seen \in [DOMAIN items -> Seen] /\ \A r \in DOMAIN items : seen[r] = answer[g][r]
        BY <2>4, TypeFacts
    <2> HIDE DEF seen
    <2>6. seen \in Findings
        BY <2>4, <2>5, FindingsFacts
    <2>7. w \in Offices /\ w.op = "read" /\ w.g = g /\ w.items = items /\ w.seen = seen
        BY <2>1, <2>6, FreeRow DEF Offices
    <2>8. w \in Sound
        BY <2>3, <2>5, <2>7 DEF Sound, OfficeHolds, OfficeAlone
    <2> QED BY <2>3, <2>7, <2>8, TakeStep
<1>8. ASSUME NEW q \in Reqs, NEW g \in Regs, Registers!CompleteRead(q, g) PROVE RegistersInv'
    <2>1. PICK n : n = Registers!Needed /\ n \in SUBSET Registers!Demands
        BY TypeFacts
    <2>2. PICK w : w = [Registers!Free EXCEPT !.op = "complete", !.g = g, !.needed = n]
        OBVIOUS
    <2>3. /\ Registers!Take(q, w) /\ registration[g] # "none"
          /\ \A m \in Registers!Needed : Registers!Meets(answer[g], m)
        BY <1>8, <2>1, <2>2 DEF Registers!CompleteRead
    <2>5. w \in Offices /\ w.op = "complete" /\ w.g = g /\ w.needed = n
        BY <2>1, <2>2, FreeRow DEF Offices
    <2>6. w \in Sound
        BY <2>1, <2>3, <2>5, TypeFacts DEF Sound, OfficeHolds, OfficeAlone
    <2> QED BY <2>3, <2>5, <2>6, TakeStep
<1>9. ASSUME NEW q \in Reqs, Registers!ResponsesFlush(q) PROVE RegistersInv'
    <2>1. PICK v \in Sound : v = work[q]
        BY SoundFacts
    <2>2. PICK n : n = Registers!Verdict(q)
        OBVIOUS
    <2>3. PICK w : w = [[[v EXCEPT !.op = "flushed"] EXCEPT !.needed = n] EXCEPT !.fresh = TRUE]
        OBVIOUS
    <2>4. v.op = "read" /\ v \in Offices /\ OfficeHolds(v)
        BY <1>9, <2>1 DEF Registers!ResponsesFlush, Sound
    <2>5. /\ work' = [work EXCEPT ![q].op = "flushed", ![q].needed = n, ![q].fresh = TRUE]
          /\ UNCHANGED <<section, requirement, changes, registration, answer, basis, raced, drifted>>
        BY <1>9, <2>2 DEF Registers!ResponsesFlush, Registers!checklist
    <2>6. work' = [work EXCEPT ![q] = w]
        BY <2>1, <2>3, <2>5 DEF RegistersInv
    <2>7. \A m \in Registers!Needed : Registers!Meets(Registers!View(q), m) <=> WillMeet(v, m)
        BY <2>1, TypeFacts DEF Registers!View, Shows, WillMeet, Registers!Meets, Registers!Demands
    <2>8. /\ n \in (SUBSET Registers!Demands) \cup {None}
          /\ n # None => n = Registers!Needed /\ \A m \in n : WillMeet(v, m)
          /\ n = None /\ Registers!Needed # {} => \E m \in Registers!Needed : ~WillMeet(v, m)
        BY <2>2, <2>7, TypeFacts, RegistersAssumption DEF Registers!Verdict
    <2>9. /\ w \in Offices
          /\ w.op = "flushed" /\ w.g = v.g /\ w.items = v.items /\ w.seen = v.seen /\ w.needed = n /\ w.fresh = TRUE
        BY <2>3, <2>4, <2>8 DEF Offices
    <2>10. \A m : WillMeet(w, m) <=> WillMeet(v, m)
        BY <2>9 DEF WillMeet, Shows
    <2>11. OfficeAlone(v) => OfficeAlone(w)
        BY <2>4, <2>8, <2>9, <2>10 DEF OfficeAlone
    <2>12. w \in Sound
        BY <2>4, <2>9, <2>11 DEF Sound, OfficeHolds
    <2>13. Registers!Needed' = Registers!Needed
        BY <2>5 DEF Registers!Needed, Registers!Shown, Registers!Accepts
    <2>14. ASSUME NEW u \in Sound PROVE u \in Sound'
        <3>1. u \in Offices /\ OfficeHolds(u)
            BY DEF Sound
        <3>2. OfficeAlone(u) => OfficeAlone(u)'
            BY <2>5, <2>13 DEF OfficeAlone, Shows, WillMeet, Registers!Meets
        <3> QED BY <2>5, <3>1, <3>2 DEF OfficeHolds, Sound
    <2>15. work' \in [Reqs -> Sound']
        BY <2>6, <2>12, <2>14 DEF RegistersInv
    <2>16. work'[q] = w /\ \A p \in Reqs \ {q} : work'[p] = work[p]
        BY <2>6 DEF RegistersInv
    <2>17. \A p, x \in Reqs : p # x /\ work'[p].op # "free" /\ work'[p].g = work'[x].g => work'[p].g \in raced'
        BY <2>1, <2>4, <2>5, <2>9, <2>16 DEF RegistersInv
    <2>18. Registers!TypeOK'
        BY <2>5, <2>15, SoundAfterFacts DEF RegistersInv, Registers!TypeOK
    <2>19. Registers!CompletedMeansAnswered' /\ Registers!AnsweredGetsCompleted'
        BY <2>5, <2>13 DEF RegistersInv, Registers!CompletedMeansAnswered, Registers!AnsweredGetsCompleted
    <2> QED BY <2>5, <2>15, <2>17, <2>18, <2>19 DEF RegistersInv
<1>10. ASSUME NEW q \in Reqs, Registers!ResponsesCommit(q) PROVE RegistersInv'
    <2>1. PICK v \in Sound : v = work[q]
        BY SoundFacts
    <2>2. /\ v.op = "flushed" /\ v \in Offices /\ OfficeHolds(v)
          /\ v.g \in Regs /\ v.items \in Registers!Items
        BY <1>10, <2>1 DEF Registers!ResponsesCommit, Sound, OfficeHolds
    <2>3. DOMAIN v.items \in SUBSET Requirements /\ v.items \in [DOMAIN v.items -> Registers!Answers]
        BY <2>2, ItemsFacts
    <2> DEFINE written == {r \in DOMAIN v.items : v.items[r] # v.seen[r]}
               row == [r \in Requirements |-> IF r \in written THEN v.items[r] ELSE answer[v.g][r]]
    <2>4. /\ answer' = [answer EXCEPT ![v.g] = row]
          /\ v.needed = None => UNCHANGED <<registration, basis>>
          /\ v.needed # None => /\ registration' = [registration EXCEPT ![v.g] = "complete"]
                                /\ basis' = [basis EXCEPT ![v.g] = v.needed]
          /\ drifted' = IF v.fresh THEN drifted \ {v.g} ELSE drifted
          /\ Registers!Finish(q)
        BY <1>10, <2>1 DEF Registers!ResponsesCommit
    <2>5. /\ row \in [Requirements -> Seen]
          /\ (\A r \in DOMAIN v.items : v.seen[r] = answer[v.g][r]) => \A r \in Requirements : row[r] = Shows(v, r)
        BY <2>2, <2>3, TypeFacts DEF Seen, Shows
    <2> HIDE DEF row, written
    <2>6. answer' \in [Regs -> [Requirements -> Seen]] /\ answer'[v.g] = row
        BY <2>2, <2>4, <2>5, TypeFacts
    <2>7. /\ registration' \in [Regs -> {"none", "in_progress", "complete"}]
          /\ registration'[v.g] = IF v.needed = None THEN registration[v.g] ELSE "complete"
          /\ registration'[v.g] # "none"
        BY <2>2, <2>4, TypeFacts DEF OfficeHolds
    <2>8. v.needed \in (SUBSET Registers!Demands) \cup {None}
        BY <2>2 DEF Offices
    <2>9. /\ basis' \in [Regs -> SUBSET Registers!Demands]
          /\ v.needed # None => basis'[v.g] = v.needed
        BY <2>2, <2>4, <2>8, TypeFacts
    <2>10. \A x \in Regs \ {v.g} : /\ registration'[x] = registration[x] /\ answer'[x] = answer[x]
                                   /\ basis'[x] = basis[x] /\ (x \in drifted <=> x \in drifted')
        BY <2>2, <2>4, TypeFacts
    <2>11. v.g \notin raced => OfficeAlone(v) /\ \A r \in Requirements : answer'[v.g][r] = Shows(v, r)
        BY <2>2, <2>5, <2>6 DEF OfficeHolds, OfficeAlone
    <2>12. ASSUME v.g \notin raced, NEW n \in Registers!Demands
           PROVE  Registers!Meets(answer'[v.g], n) <=> WillMeet(v, n)
        BY <2>11, <2>12 DEF WillMeet, Registers!Meets, Registers!Demands
    <2>13. v.g \notin raced /\ registration'[v.g] = "complete" =>
               \A n \in basis'[v.g] : Registers!Meets(answer'[v.g], n)
        BY <2>2, <2>7, <2>8, <2>9, <2>11, <2>12 DEF OfficeAlone
    <2>14. v.g \notin raced \cup drifted' /\ registration'[v.g] = "in_progress" /\ Registers!Needed # {} =>
               \E n \in Registers!Needed : ~Registers!Meets(answer'[v.g], n)
        <3> SUFFICES ASSUME v.g \notin raced, v.g \notin drifted', registration'[v.g] = "in_progress",
                            Registers!Needed # {}
                     PROVE  \E n \in Registers!Needed : ~Registers!Meets(answer'[v.g], n)
            OBVIOUS
        <3>1. v.needed = None /\ OfficeAlone(v)
            BY <2>7, <2>11
        <3>2. v.fresh = TRUE
            BY <2>2, <2>4, <3>1 DEF OfficeAlone, Offices
        <3> QED BY <2>2, <2>12, <3>1, <3>2, TypeFacts DEF OfficeAlone
    <2> QED BY <2>1, <2>2, <2>4, <2>6, <2>7, <2>9, <2>10, <2>13, <2>14, FinishStep
<1>11. ASSUME NEW q \in Reqs, Registers!CompleteCommit(q) PROVE RegistersInv'
    <2>1. PICK v \in Sound : v = work[q]
        BY SoundFacts
    <2>2. /\ v.op = "complete" /\ OfficeHolds(v) /\ v.g \in Regs /\ v.needed \in SUBSET Registers!Demands
        BY <1>11, <2>1 DEF Registers!CompleteCommit, Sound, OfficeHolds
    <2>3. /\ registration' = [registration EXCEPT ![v.g] = "complete"]
          /\ basis' = [basis EXCEPT ![v.g] = v.needed]
          /\ UNCHANGED <<answer, drifted>> /\ Registers!Finish(q)
        BY <1>11, <2>1 DEF Registers!CompleteCommit
    <2>4. /\ registration' \in [Regs -> {"none", "in_progress", "complete"}] /\ registration'[v.g] = "complete"
          /\ basis' \in [Regs -> SUBSET Registers!Demands] /\ basis'[v.g] = v.needed
          /\ answer' \in [Regs -> [Requirements -> Seen]]
          /\ \A x \in Regs \ {v.g} : registration'[x] = registration[x] /\ basis'[x] = basis[x]
        BY <2>2, <2>3, TypeFacts
    <2>5. v.g \notin raced => \A n \in basis'[v.g] : Registers!Meets(answer'[v.g], n)
        BY <2>2, <2>3, <2>4 DEF OfficeHolds, OfficeAlone
    <2> QED BY <2>1, <2>2, <2>3, <2>4, <2>5, FinishStep
<1>12. ASSUME NEW q \in Reqs, Registers!Rollback(q) PROVE RegistersInv'
    <2>1. /\ work[q] # Registers!Free /\ Registers!Finish(q) /\ UNCHANGED <<registration, answer, basis, drifted>>
        BY <1>12 DEF Registers!Rollback
    <2>2. PICK g \in Regs : g = work[q].g
        BY <2>1, SoundFacts
    <2>3. work[q].op # "free" /\ registration[g] # "none"
        BY <2>1, <2>2, SoundFacts DEF Sound, OfficeHolds
    <2>4. /\ g \notin raced /\ registration[g] = "complete" => \A n \in basis[g] : Registers!Meets(answer[g], n)
          /\ g \notin raced \cup drifted /\ registration[g] = "in_progress" /\ Registers!Needed # {} =>
               \E n \in Registers!Needed : ~Registers!Meets(answer[g], n)
        BY DEF RegistersInv, Registers!CompletedMeansAnswered, Registers!AnsweredGetsCompleted
    <2> QED BY <2>1, <2>2, <2>3, <2>4, TypeFacts, FinishStep
<1> QED BY <1>1, <1>2, <1>3, <1>4, <1>5, <1>6, <1>7, <1>8, <1>9, <1>10, <1>11, <1>12 DEF Registers!Next

LEMMA RegistersSame == ASSUME RegistersInv, UNCHANGED registers PROVE RegistersInv'
<1>1. UNCHANGED <<section, requirement, changes, registration, answer, work, basis, raced, drifted>>
    BY DEF registers
<1>2. Registers!Needed' = Registers!Needed
    BY <1>1 DEF Registers!Needed, Registers!Shown, Registers!Accepts
<1>3. \A v \in Sound : v \in Sound'
    BY <1>1, <1>2 DEF Sound, OfficeHolds, OfficeAlone, Shows, WillMeet, Registers!Meets
<1> QED BY <1>1, <1>2, <1>3
        DEF RegistersInv, Registers!TypeOK, Registers!CompletedMeansAnswered, Registers!AnsweredGetsCompleted

RegistersHold == part = "registers" => RegistersInv

LEMMA RegistersInvariant == Spec => []RegistersHold
<1>1. Init => RegistersHold
    BY RegistersStart DEF Init, RegistersHold
<1>2. RegistersHold /\ [Next]_campus => RegistersHold'
    BY RegistersStep, RegistersSame DEF Next, campus, RegistersHold
<1> QED BY <1>1, <1>2, PTL DEF Spec

\* What was needed when a registration completed stays answered, and the last
\* required answer completes it, unless two requests worked on it at once or the
\* checklist changed since (upsert_responses, complete_registration,
\* _maybe_auto_complete).
THEOREM AnsweredAndComplete == Spec => []CompletedAsAnswered
<1>1. RegistersHold => CompletedAsAnswered
    BY DEF RegistersHold, RegistersInv, CompletedAsAnswered
<1> QED BY <1>1, RegistersInvariant, PTL

-----------------------------------------------------------------------------
(* Boarding                                                                *)

Stays == [hostel : Hostels \cup {None}, room : Rooms \cup {None}]
Chores == [op : {"rest", "demolish", "admit", "update"}, s : Students \cup {None},
           place : Boarding!Places \cup {None}, seen : Stays, want : Stays,
           on : {"active", "inactive", None}, gone : SUBSET Boarding!Places]

\* A bed is in a room of its hostel, and both are open.
Sits(b) == b.hostel # None /\ (b.room # None => HostelOf[b.room] = b.hostel)
Stands(b) == built[b.hostel] = "open" /\ (b.room # None => built[b.room] = "open")

Lives(s) == student[s] \in {"active", "inactive"}

\* There is a place left for s beside the occupants that are not excepted.
Fits(p, s) == Boarding!Limit(p) # None
                 => Cardinality(Boarding!Occupants(p) \ ({s} \cup crowded)) < Boarding!Limit(p)

\* A demolition leaves nobody without a bed.
Vacates(t) ==
    \A s \in Students \ crowded :
        Lives(s) /\ bed[s].hostel = Boarding!House(t.place) => t.place \in Rooms /\ bed[s].room # t.place

Moves(t) == ({t.want.hostel, t.want.room} \cap Boarding!Places) \ {t.seen.hostel, t.seen.room}

ChoreHolds(t) ==
    /\ t.op = "rest" => t = Boarding!Resting
    /\ t.op = "demolish" =>
          /\ t.place \in Boarding!Places
          /\ \A x \in t.gone : Boarding!House(x) = Boarding!House(t.place)
          /\ t.place \in Rooms => t.gone = {t.place}
          /\ Boarding!House(t.place) \notin crowded => Vacates(t)
    /\ t.op \in {"admit", "update"} =>
          /\ t.s \in Students
          /\ t.op = "admit" => t.seen = Boarding!NoBed
          /\ t.op = "update" /\ t.s \notin crowded => bed[t.s] = t.seen
          /\ t.s \notin crowded /\ t.want # Boarding!NoBed => Sits(t.want)
          /\ t.s \notin crowded /\ t.want # Boarding!NoBed /\ t.want.hostel \notin crowded =>
                Stands(t.want) /\ \A p \in Moves(t) : Fits(p, t.s)

Housed(s) ==
    s \notin crowded /\ Lives(s) /\ bed[s] # Boarding!NoBed =>
        Sits(bed[s]) /\ (bed[s].hostel \notin crowded => Stands(bed[s]))

Doable == {t \in Chores : ChoreHolds(t)}

BoardingInv ==
    /\ Boarding!TypeOK
    /\ capacity = [p \in Boarding!Places |-> capacity[p]]
    /\ task \in [Reqs -> Doable]
    /\ \A p, q \in Reqs : p # q => Boarding!Footprint(task[p]) \cap Boarding!Footprint(task[q]) \subseteq crowded
    /\ \A s \in Students : Housed(s)

LEMMA BoardingCardinality == \A S : Boarding!Cardinality(S) = Cardinality(S)
BY DEF Boarding!Cardinality, Cardinality

\* The capacities c of the rooms R, one room after the other.
SumOf(c, R) == (CHOOSE it : IsSum(it, c, Rooms))[R]

LEMMA SumOfIs == ASSUME NEW c PROVE IsSum(CHOOSE it : IsSum(it, c, Rooms), c, Rooms)
BY SumExists, BoardingAssumption

LEMMA SumOfNat ==
    ASSUME NEW c, \A r \in Rooms : c[r] \in Nat, NEW R \in SUBSET Rooms
    PROVE  SumOf(c, R) \in Nat
BY SumOfIs, SumIsNat, BoardingAssumption DEF SumOf

LEMMA SumOfAgrees ==
    ASSUME NEW c, NEW d, NEW R \in SUBSET Rooms, \A r \in R : c[r] = d[r]
    PROVE  SumOf(c, R) = SumOf(d, R)
BY SumOfIs, SumsAgree, BoardingAssumption DEF SumOf

LEMMA RoomSumIs ==
    \A h : /\ Boarding!RoomSum(h) = SumOf(capacity, Boarding!OpenRooms(h))
          /\ Boarding!RoomSum(h)' = SumOf(capacity', Boarding!OpenRooms(h)')
BY DEF Boarding!RoomSum, SumOf, IsSum, One

LEMMA LimitIsNat ==
    ASSUME Boarding!TypeOK, NEW p \in Boarding!Places, Boarding!Limit(p) # None
    PROVE  Boarding!Limit(p) \in Nat
<1>0. /\ \A h \in Hostels : capacity[h] \in Capacities \cup {None}
      /\ \A r \in Rooms : capacity[r] \in Capacities \cup {0}
    BY DEF Boarding!TypeOK
<1>1. \A r \in Rooms : capacity[r] \in Nat
    <2>1. \A x \in Capacities \cup {0} : x \in Nat
        BY BoardingAssumption
    <2> QED BY <1>0, <2>1
<1>2. Boarding!RoomSum(p) \in Nat
    BY <1>1, SumOfNat, RoomSumIs DEF Boarding!OpenRooms
<1>3. p \in Hostels => capacity[p] \in Nat \cup {None}
    BY <1>0, BoardingAssumption
<1> QED BY <1>1, <1>2, <1>3 DEF Boarding!Limit, Boarding!Places

\* Where nobody builds, resizes or demolishes, a limit stays.
LEMMA LimitStays ==
    ASSUME NEW p \in Boarding!Places,
           \A x \in Boarding!Places : Boarding!House(x) = Boarding!House(p) =>
               capacity'[x] = capacity[x] /\ (built'[x] = "open" <=> built[x] = "open")
    PROVE  Boarding!Limit(p)' = Boarding!Limit(p)
<1>1. capacity'[p] = capacity[p]
    OBVIOUS
<1>2. CASE p \in Rooms
    <2>1. p \notin Hostels
        BY <1>2, BoardingAssumption
    <2> QED BY <1>1, <1>2, <2>1 DEF Boarding!Limit
<1>3. CASE p \in Hostels
    <2>1. p \notin Rooms
        BY <1>3, BoardingAssumption
    <2>2. \A r \in Rooms : HostelOf[r] = p => capacity'[r] = capacity[r] /\ (built'[r] = "open" <=> built[r] = "open")
        BY <2>1 DEF Boarding!House, Boarding!Places
    <2>3. Boarding!OpenRooms(p)' = Boarding!OpenRooms(p)
        BY <2>2 DEF Boarding!OpenRooms
    <2>4. SumOf(capacity', Boarding!OpenRooms(p)) = SumOf(capacity, Boarding!OpenRooms(p))
        <3>1. PICK R : R = Boarding!OpenRooms(p)
            OBVIOUS
        <3>2. R \in SUBSET Rooms /\ \A r \in R : capacity'[r] = capacity[r]
            BY <2>2, <3>1 DEF Boarding!OpenRooms
        <3> QED BY <3>1, <3>2, SumOfAgrees
    <2>5. Boarding!RoomSum(p)' = Boarding!RoomSum(p)
        BY <2>3, <2>4, RoomSumIs
    <2> QED BY <1>1, <1>3, <2>1, <2>5 DEF Boarding!Limit
<1> QED BY <1>2, <1>3 DEF Boarding!Places

LEMMA HouseFacts ==
    /\ \A h \in Hostels : Boarding!House(h) = h /\ h \in Boarding!Places /\ h # None
    /\ \A r \in Rooms : Boarding!House(r) = HostelOf[r] /\ r \in Boarding!Places /\ r # None
    /\ \A p \in Boarding!Places : Boarding!House(p) \in Hostels /\ Boarding!House(p) # None
    /\ Boarding!House(None) = None
BY BoardingAssumption DEF Boarding!House, Boarding!Places

\* The house of a place somebody moves into is the hostel moved into.
LEMMA BedHouse ==
    ASSUME NEW b \in Stays, Sits(b), NEW p \in Boarding!Places, p \in {b.hostel, b.room}
    PROVE  Boarding!House(p) = b.hostel /\ b.hostel \in Hostels
<1>1. b.hostel \in Hostels /\ b.room \in Rooms \cup {None}
    BY DEF Stays, Sits
<1> QED BY <1>1, HouseFacts DEF Sits

LEMMA RestFacts ==
    /\ Boarding!Resting \in Doable /\ Boarding!Resting \in Doable'
    /\ Boarding!Resting.op = "rest" /\ Boarding!Footprint(Boarding!Resting) = {}
<1>1. /\ Boarding!Resting = [op |-> "rest", s |-> None, place |-> None, seen |-> Boarding!NoBed,
                             want |-> Boarding!NoBed, on |-> None, gone |-> {}]
      /\ Boarding!NoBed = [hostel |-> None, room |-> None]
    BY DEF Boarding!Resting, Boarding!NoBed
<1>2. Boarding!Resting \in Chores
    BY <1>1 DEF Chores, Stays
<1> QED BY <1>1, <1>2, HouseFacts DEF Doable, ChoreHolds, Boarding!Footprint

LEMMA DoableFacts ==
    ASSUME BoardingInv, NEW q \in Reqs
    PROVE  task[q] \in Doable /\ task[q] \in Chores /\ ChoreHolds(task[q])
BY DEF BoardingInv, Doable

LEMMA BoardingTypes ==
    ASSUME BoardingInv
    PROVE  /\ student \in [Students -> {"none", "active", "inactive", "deleted"}]
           /\ bed \in [Students -> Stays]
           /\ built \in [Boarding!Places -> {"none", "open", "deleted"}]
           /\ capacity = [p \in Boarding!Places |-> capacity[p]]
           /\ \A h \in Hostels : capacity[h] \in Capacities \cup {None}
           /\ \A r \in Rooms : capacity[r] \in Capacities \cup {0}
           /\ task \in [Reqs -> Doable]
BY DEF BoardingInv, Boarding!TypeOK, Stays

\* What a handler may count on stays true when others leave it alone.
LEMMA ChoreStays ==
    ASSUME NEW u \in Doable, Boarding!TypeOK, crowded \subseteq crowded',
           u.op = "demolish" /\ Boarding!House(u.place) \notin crowded' /\ Vacates(u) => Vacates(u)',
           u.op = "update" /\ u.s \notin crowded' => bed'[u.s] = bed[u.s],
           u.op \in {"admit", "update"} /\ u.s \notin crowded' /\ u.want # Boarding!NoBed
                /\ u.want.hostel \notin crowded' /\ Sits(u.want) /\ Stands(u.want)
             => /\ Stands(u.want)'
                /\ \A p \in Moves(u) :
                      /\ Boarding!Limit(p)' = Boarding!Limit(p)
                      /\ Boarding!Occupants(p)' \ ({u.s} \cup crowded') \subseteq Boarding!Occupants(p) \ ({u.s} \cup crowded)
    PROVE  u \in Doable'
<1>1. u \in Chores /\ ChoreHolds(u)
    BY DEF Doable
<1>2. ASSUME NEW p \in Boarding!Places, Fits(p, u.s), Boarding!Limit(p)' = Boarding!Limit(p),
             Boarding!Occupants(p)' \ ({u.s} \cup crowded') \subseteq Boarding!Occupants(p) \ ({u.s} \cup crowded)
      PROVE  Fits(p, u.s)'
    <2> DEFINE old == Boarding!Occupants(p) \ ({u.s} \cup crowded)
    <2>1. PICK n : n = Boarding!Occupants(p)' \ ({u.s} \cup crowded')
        OBVIOUS
    <2>2. IsFiniteSet(old)
        BY FS_Subset, BooksAssumption DEF Boarding!Occupants, Boarding!Assigned
    <2>3. n \subseteq old
        BY <1>2, <2>1
    <2>4. Cardinality(n) <= Cardinality(old) /\ Cardinality(n) \in Nat /\ Cardinality(old) \in Nat
        <3> HIDE DEF old
        <3> QED BY <2>2, <2>3, FS_Subset, FS_CardinalityType
    <2>5. Boarding!Limit(p) # None => Boarding!Limit(p) \in Nat /\ Cardinality(old) < Boarding!Limit(p)
        BY <1>2, LimitIsNat DEF Fits
    <2> HIDE DEF old
    <2>6. Boarding!Limit(p) # None => Cardinality(n) < Boarding!Limit(p)
        BY <2>4, <2>5
    <2> QED BY <1>2, <2>1, <2>6 DEF Fits
<1>3. Moves(u) \subseteq Boarding!Places
    BY DEF Moves
<1>4. u.op = "demolish" /\ Boarding!House(u.place) \notin crowded' => Vacates(u)'
    BY <1>1 DEF ChoreHolds
<1>5. u.op = "update" /\ u.s \notin crowded' => bed'[u.s] = u.seen
    BY <1>1 DEF ChoreHolds
<1>6. u.op \in {"admit", "update"} /\ u.s \notin crowded' /\ u.want # Boarding!NoBed => Sits(u.want)
    BY <1>1 DEF ChoreHolds
<1>7. ASSUME u.op \in {"admit", "update"}, u.s \notin crowded', u.want # Boarding!NoBed, u.want.hostel \notin crowded'
      PROVE  Stands(u.want)' /\ \A p \in Moves(u) : Fits(p, u.s)'
    <2>1. Stands(u.want) /\ \A p \in Moves(u) : Fits(p, u.s)
        BY <1>1, <1>7 DEF ChoreHolds
    <2> QED BY <1>2, <1>3, <1>6, <1>7, <2>1
<1>8. Moves(u)' = Moves(u)
    BY DEF Moves
<1>9. ChoreHolds(u)'
    BY <1>1, <1>4, <1>5, <1>6, <1>7 DEF ChoreHolds
<1> QED BY <1>1, <1>9 DEF Doable

\* A handler begins: whatever it shares with another is crowded from then on.
LEMMA BeginChore ==
    ASSUME BoardingInv, NEW q \in Reqs, NEW t \in Doable, Boarding!Start(q, t)
    PROVE  BoardingInv'
<1>1. /\ task[q] = Boarding!Resting /\ task' = [task EXCEPT ![q] = t]
      /\ UNCHANGED <<student, bed, built, capacity, works>>
      /\ crowded \subseteq crowded'
      /\ \A p \in Reqs : Boarding!Footprint(t) \cap Boarding!Footprint(task[p]) \subseteq crowded'
    BY DEF Boarding!Start, Boarding!Crowd
<1>2. \A p \in Boarding!Places : Boarding!Limit(p)' = Boarding!Limit(p)
    BY <1>1, LimitStays
<1>3. ASSUME NEW u \in Doable PROVE u \in Doable'
    <2>1. Vacates(u) => Vacates(u)'
        BY <1>1 DEF Vacates, Lives
    <2>2. Stands(u.want) => Stands(u.want)'
        BY <1>1 DEF Stands
    <2>3. \A p : Boarding!Occupants(p)' = Boarding!Occupants(p)
        BY <1>1 DEF Boarding!Occupants, Boarding!Assigned
    <2> QED BY <1>1, <1>2, <2>1, <2>2, <2>3, ChoreStays DEF BoardingInv, Moves
<1>4. task' \in [Reqs -> Doable']
    BY <1>1, <1>3, BoardingTypes
<1>5. \A p, x \in Reqs : p # x => Boarding!Footprint(task'[p]) \cap Boarding!Footprint(task'[x]) \subseteq crowded'
    BY <1>1, BoardingTypes DEF BoardingInv
<1>6. \A s \in Students : Housed(s)'
    BY <1>1 DEF BoardingInv, Housed, Sits, Stands, Lives
<1> QED BY <1>1, <1>4, <1>5, <1>6 DEF BoardingInv, Boarding!TypeOK

LEMMA EndFacts ==
    ASSUME BoardingInv, NEW q \in Reqs, Boarding!End(q)
    PROVE  /\ crowded' = crowded /\ task'[q] = Boarding!Resting /\ \A p \in Reqs \ {q} : task'[p] = task[p]
           /\ (\A p \in Reqs \ {q} : task[p] \in Doable') => task' \in [Reqs -> Doable']
           /\ \A p, x \in Reqs : p # x => Boarding!Footprint(task'[p]) \cap Boarding!Footprint(task'[x]) \subseteq crowded'
<1>1. /\ crowded' = crowded /\ task' = [task EXCEPT ![q] = Boarding!Resting]
      /\ task'[q] = Boarding!Resting /\ \A p \in Reqs \ {q} : task'[p] = task[p]
    BY BoardingTypes DEF Boarding!End
<1>2. (\A p \in Reqs \ {q} : task[p] \in Doable') => task' \in [Reqs -> Doable']
    BY <1>1, RestFacts, BoardingTypes
<1>3. \A p, x \in Reqs : p # x => Boarding!Footprint(task'[p]) \cap Boarding!Footprint(task'[x]) \subseteq crowded'
    BY <1>1, RestFacts DEF BoardingInv
<1> QED BY <1>1, <1>2, <1>3

\* The learner t.s gets the bed b: the one asked for, unless others worked on the
\* learner meanwhile.
LEMMA MoveStep ==
    ASSUME BoardingInv, NEW q \in Reqs, NEW t, t = task[q], t.op \in {"admit", "update"},
           NEW b \in Stays, t.s \notin crowded => b = t.want,
           NEW st \in {"none", "active", "inactive", "deleted"},
           bed' = [bed EXCEPT ![t.s] = b], student' = [student EXCEPT ![t.s] = st],
           Boarding!End(q), UNCHANGED <<built, capacity, works>>
    PROVE  BoardingInv'
<1>1. t \in Doable /\ t \in Chores /\ ChoreHolds(t) /\ t.s \in Students /\ t.s # None
    <2>1. t \in Doable /\ t \in Chores /\ ChoreHolds(t)
        BY DoableFacts
    <2> QED BY <2>1, BooksAssumption DEF ChoreHolds
<1>2. /\ bed' \in [Students -> Stays] /\ bed'[t.s] = b /\ \A x \in Students \ {t.s} : bed'[x] = bed[x]
      /\ student' \in [Students -> {"none", "active", "inactive", "deleted"}]
      /\ \A x \in Students \ {t.s} : student'[x] = student[x]
    BY <1>1, BoardingTypes
<1>3. crowded' = crowded
    BY EndFacts
<1>4. \A p \in Boarding!Places : Boarding!Limit(p)' = Boarding!Limit(p)
    BY LimitStays
<1>5. t.s \notin crowded /\ t.want # Boarding!NoBed =>
          /\ Sits(t.want) /\ t.want \in Stays /\ t.want.hostel \in Boarding!Footprint(t)
          /\ t.want.hostel \notin crowded => Stands(t.want)
    BY <1>1 DEF ChoreHolds, Chores, Sits, Boarding!Footprint
<1>6. t.s \in Boarding!Footprint(t)
    BY <1>1 DEF Boarding!Footprint
<1>7. ASSUME NEW p \in Reqs \ {q} PROVE task[p] \in Doable'
    <2>1. PICK u \in Doable : u = task[p]
        BY <1>7, BoardingTypes
    <2>2. u \in Chores /\ ChoreHolds(u) /\ Boarding!Footprint(t) \cap Boarding!Footprint(u) \subseteq crowded
        BY <1>7, <2>1, DoableFacts DEF BoardingInv
    <2>3. ASSUME u.op = "demolish", Boarding!House(u.place) \notin crowded', Vacates(u) PROVE Vacates(u)'
        <3>1. Boarding!House(u.place) \in Boarding!Footprint(u) /\ Boarding!House(u.place) # None
            BY <2>2, <2>3, HouseFacts DEF ChoreHolds, Boarding!Footprint
        <3>2. t.s \notin crowded => b.hostel # Boarding!House(u.place)
            BY <1>1, <1>3, <2>2, <2>3, <3>1 DEF Boarding!Footprint
        <3> QED BY <1>2, <1>3, <2>3, <3>2 DEF Vacates, Lives
    <2>4. u.op \in {"admit", "update"} /\ u.s \notin crowded => u.s \in Students /\ u.s # t.s
        <3>1. u.op \in {"admit", "update"} => u.s \in Students /\ u.s \in Boarding!Footprint(u)
            BY <2>2, BooksAssumption DEF ChoreHolds, Boarding!Footprint
        <3> QED BY <1>6, <2>2, <3>1
    <2>5. ASSUME u.op \in {"admit", "update"}, u.s \notin crowded', u.want # Boarding!NoBed,
                 u.want.hostel \notin crowded', Sits(u.want), Stands(u.want)
          PROVE  /\ Stands(u.want)'
                 /\ \A z \in Moves(u) :
                       /\ Boarding!Limit(z)' = Boarding!Limit(z)
                       /\ Boarding!Occupants(z)' \ ({u.s} \cup crowded')
                               \subseteq Boarding!Occupants(z) \ ({u.s} \cup crowded)
        <3>1. Stands(u.want)'
            BY <2>5 DEF Stands
        <3>2. ASSUME NEW z \in Moves(u), NEW x \in Boarding!Occupants(z)', x # u.s, x \notin crowded
              PROVE  x \in Boarding!Occupants(z)
            <4>1. z \in Boarding!Places /\ z \in {u.want.hostel, u.want.room} /\ z # None
                BY HouseFacts, BoardingAssumption DEF Moves, Boarding!Places
            <4>2. u.want \in Stays
                BY <2>2 DEF Chores
            <4>3. Boarding!House(z) = u.want.hostel /\ u.want.hostel \in Boarding!Footprint(u)
                BY <2>5, <4>1, <4>2, BedHouse DEF Boarding!Footprint, Sits
            <4>4. CASE x = t.s
                <5>1. z \in {t.want.hostel, t.want.room}
                    BY <1>2, <3>2, <4>4 DEF Boarding!Occupants, Boarding!Assigned
                <5>2. t.want # Boarding!NoBed
                    BY <4>1, <5>1 DEF Boarding!NoBed
                <5>3. Boarding!House(z) = t.want.hostel
                    BY <1>5, <3>2, <4>1, <4>4, <5>1, <5>2, BedHouse
                <5>4. u.want.hostel \in crowded
                    BY <1>5, <2>2, <3>2, <4>3, <4>4, <5>2, <5>3
                <5> QED BY <1>3, <2>5, <5>4
            <4>5. CASE x # t.s
                BY <1>2, <3>2, <4>5 DEF Boarding!Occupants, Boarding!Assigned
            <4> QED BY <4>4, <4>5
        <3> QED BY <1>3, <1>4, <3>1, <3>2 DEF Moves
    <2>6. u.op = "update" /\ u.s \notin crowded' => bed'[u.s] = bed[u.s]
        BY <1>2, <1>3, <2>4
    <2>7. Boarding!TypeOK /\ crowded \subseteq crowded'
        BY <1>3 DEF BoardingInv
    <2>8. u \in Doable'
        BY <2>3, <2>5, <2>6, <2>7, ChoreStays
    <2> QED BY <2>1, <2>8
<1>8. task' \in [Reqs -> Doable']
    BY <1>7, EndFacts
<1>9. \A p, x \in Reqs : p # x => Boarding!Footprint(task'[p]) \cap Boarding!Footprint(task'[x]) \subseteq crowded'
    BY EndFacts
<1>10. ASSUME NEW x \in Students PROVE Housed(x)'
    <2>1. CASE x = t.s
        BY <1>2, <1>3, <1>5, <2>1 DEF Housed, Sits, Stands
    <2>2. CASE x # t.s
        BY <1>2, <1>3, <2>2 DEF BoardingInv, Housed, Sits, Stands, Lives
    <2> QED BY <2>1, <2>2
<1>11. Boarding!TypeOK'
    BY <1>2 DEF BoardingInv, Boarding!TypeOK, Stays
<1> QED BY <1>8, <1>9, <1>10, <1>11 DEF BoardingInv

\* A place is built or resized: nothing closes, and who works on its house is crowded.
LEMMA BuildStep ==
    ASSUME BoardingInv, NEW p \in Boarding!Places, Boarding!Crowd({Boarding!House(p)}),
           built' \in [Boarding!Places -> {"none", "open", "deleted"}], built'[p] = "open",
           capacity' = [x \in Boarding!Places |-> capacity'[x]],
           p \in Hostels => capacity'[p] \in Capacities \cup {None},
           p \in Rooms => capacity'[p] \in Capacities,
           \A x \in Boarding!Places \ {p} : built'[x] = built[x] /\ capacity'[x] = capacity[x],
           UNCHANGED <<student, bed, task>>
    PROVE  BoardingInv'
<1>1. /\ crowded \subseteq crowded'
      /\ \A q \in Reqs : Boarding!House(p) \in Boarding!Footprint(task[q]) => Boarding!House(p) \in crowded'
    BY DEF Boarding!Crowd
<1>2. \A x \in Boarding!Places : built[x] = "open" => built'[x] = "open"
    OBVIOUS
<1>3. ASSUME NEW b \in Stays, Sits(b), Stands(b) PROVE Stands(b)'
    BY <1>2, <1>3, HouseFacts DEF Stands, Sits, Stays
<1>4. ASSUME NEW q \in Reqs PROVE task[q] \in Doable'
    <2>1. PICK u \in Doable : u = task[q]
        BY BoardingTypes
    <2>2. u \in Chores /\ ChoreHolds(u) /\ u.want \in Stays
        BY <2>1, DoableFacts DEF Chores
    <2>3. Vacates(u) => Vacates(u)'
        BY <1>1 DEF Vacates, Lives
    <2>4. ASSUME u.want.hostel \notin crowded', Sits(u.want), Stands(u.want), NEW z \in Moves(u)
          PROVE  /\ Boarding!Limit(z)' = Boarding!Limit(z)
                 /\ Boarding!Occupants(z)' \ ({u.s} \cup crowded') \subseteq Boarding!Occupants(z) \ ({u.s} \cup crowded)
        <3>1. z \in Boarding!Places /\ z \in {u.want.hostel, u.want.room}
            BY DEF Moves
        <3>2. Boarding!House(z) = u.want.hostel /\ u.want.hostel \in Boarding!Footprint(u)
            BY <2>2, <2>4, <3>1, BedHouse DEF Boarding!Footprint, Sits
        <3>3. Boarding!House(z) # Boarding!House(p)
            BY <1>1, <2>1, <2>4, <3>2
        <3>4. Boarding!Limit(z)' = Boarding!Limit(z)
            BY <3>1, <3>3, LimitStays
        <3> QED BY <1>1, <3>4 DEF Boarding!Occupants, Boarding!Assigned
    <2>5. Boarding!TypeOK
        BY DEF BoardingInv
    <2>6. u \in Doable'
        BY <1>1, <1>3, <2>2, <2>3, <2>4, <2>5, ChoreStays
    <2> QED BY <2>1, <2>6
<1>5. task' \in [Reqs -> Doable']
    BY <1>4, BoardingTypes
<1>6. \A q, x \in Reqs : q # x => Boarding!Footprint(task'[q]) \cap Boarding!Footprint(task'[x]) \subseteq crowded'
    BY <1>1 DEF BoardingInv
<1>7. ASSUME NEW s \in Students PROVE Housed(s)'
    <2>1. Housed(s) /\ bed[s] \in Stays
        BY BoardingTypes DEF BoardingInv
    <2>2. Sits(bed[s]) /\ Stands(bed[s]) => Stands(bed[s])'
        <3>1. PICK b \in Stays : b = bed[s]
            BY <2>1
        <3> QED BY <1>3, <3>1 DEF Stands
    <2> QED BY <1>1, <2>1, <2>2 DEF Housed, Lives, Sits
<1>8. Boarding!TypeOK'
    BY BoardingTypes DEF BoardingInv, Boarding!TypeOK, Boarding!Places
<1> QED BY <1>5, <1>6, <1>7, <1>8 DEF BoardingInv

LEMMA DemolishStep == ASSUME BoardingInv, NEW q \in Reqs, Boarding!DemolishCommit(q) PROVE BoardingInv'
<1>1. PICK t \in Doable : t = task[q]
    BY BoardingTypes
<1>2. /\ t.op = "demolish" /\ Boarding!End(q) /\ UNCHANGED <<student, bed, capacity>>
      /\ built' = [p \in Boarding!Places |-> IF p \in t.gone THEN "deleted" ELSE built[p]]
    BY <1>1 DEF Boarding!DemolishCommit
<1>3. t \in Chores /\ ChoreHolds(t) /\ t.place \in Boarding!Places
    BY <1>1, <1>2, DoableFacts DEF ChoreHolds
<1> DEFINE h == Boarding!House(t.place)
<1>4. /\ h \in Hostels /\ h \in Boarding!Footprint(t) /\ \A x \in t.gone : Boarding!House(x) = h
      /\ h \notin crowded => Vacates(t)
      /\ t.place \in Rooms => t.gone = {t.place}
    BY <1>2, <1>3, HouseFacts DEF ChoreHolds, Boarding!Footprint
<1> HIDE DEF h
<1>5. \A x \in Boarding!Places : Boarding!House(x) # h => built'[x] = built[x]
    BY <1>2, <1>4
<1>6. crowded' = crowded
    BY <1>2, EndFacts
<1>7. ASSUME NEW b \in Stays, Sits(b), Stands(b), b.hostel # h PROVE Stands(b)'
    BY <1>5, <1>7, HouseFacts DEF Stands, Sits, Stays
<1>8. ASSUME NEW p \in Reqs \ {q} PROVE task[p] \in Doable'
    <2>1. PICK u \in Doable : u = task[p]
        BY BoardingTypes
    <2>2. u \in Chores /\ ChoreHolds(u) /\ u.want \in Stays
          /\ Boarding!Footprint(t) \cap Boarding!Footprint(u) \subseteq crowded
        BY <1>1, <2>1, DoableFacts DEF Chores, BoardingInv
    <2>3. Vacates(u) => Vacates(u)'
        BY <1>2, <1>6 DEF Vacates, Lives
    <2>4. u.want.hostel \notin crowded /\ Sits(u.want) => u.want.hostel # h
        BY <1>4, <2>2 DEF Boarding!Footprint, Sits
    <2>5. ASSUME u.want.hostel \notin crowded', Sits(u.want), NEW z \in Moves(u)
          PROVE  /\ Boarding!Limit(z)' = Boarding!Limit(z)
                 /\ Boarding!Occupants(z)' \ ({u.s} \cup crowded') \subseteq Boarding!Occupants(z) \ ({u.s} \cup crowded)
        <3>1. z \in Boarding!Places /\ Boarding!House(z) # h
            BY <1>6, <2>2, <2>4, <2>5, BedHouse DEF Moves
        <3>2. Boarding!Limit(z)' = Boarding!Limit(z)
            BY <1>2, <1>5, <3>1, LimitStays
        <3> QED BY <1>2, <1>6, <3>2 DEF Boarding!Occupants, Boarding!Assigned
    <2>6. u \in Doable'
        <3>1. u.want.hostel \notin crowded' /\ Sits(u.want) /\ Stands(u.want) => Stands(u.want)'
            BY <1>6, <1>7, <2>2, <2>4
        <3> QED BY <1>2, <1>6, <2>3, <2>5, <3>1, ChoreStays DEF BoardingInv
    <2> QED BY <2>1, <2>6
<1>9. task' \in [Reqs -> Doable']
    BY <1>2, <1>8, EndFacts
<1>10. ASSUME NEW s \in Students PROVE Housed(s)'
    <2>1. PICK b \in Stays : b = bed[s]
        BY BoardingTypes
    <2>2. Housed(s) /\ bed'[s] = b
        BY <1>2, <2>1 DEF BoardingInv
    <2>3. ASSUME s \notin crowded, Lives(s), b # Boarding!NoBed, b.hostel \notin crowded PROVE Stands(b)'
        <3>1. Sits(b) /\ Stands(b)
            BY <2>1, <2>2, <2>3 DEF Housed
        <3>2. CASE b.hostel # h
            BY <1>7, <3>1, <3>2
        <3>3. CASE b.hostel = h
            <4>1. t.place \in Rooms /\ b.room # t.place /\ t.gone = {t.place}
                BY <1>4, <2>1, <2>3, <3>3 DEF Vacates, h
            <4>2. b.hostel \in Boarding!Places /\ b.hostel # t.place /\ (b.room # None => b.room \in Boarding!Places)
                BY <1>4, <3>3, <4>1, BoardingAssumption, HouseFacts DEF Stays
            <4> QED BY <1>2, <3>1, <4>1, <4>2 DEF Stands
        <3> QED BY <3>2, <3>3
    <2> QED BY <1>2, <1>6, <2>1, <2>2, <2>3 DEF Housed, Lives, Sits, Stands
<1>11. Boarding!TypeOK'
    BY <1>2, BoardingTypes DEF BoardingInv, Boarding!TypeOK
<1>12. \A p, x \in Reqs : p # x => Boarding!Footprint(task'[p]) \cap Boarding!Footprint(task'[x]) \subseteq crowded'
    BY <1>2, EndFacts
<1> QED BY <1>2, <1>9, <1>10, <1>11, <1>12 DEF BoardingInv

LEMMA LeaveSchoolStep == ASSUME BoardingInv, NEW s \in Students, Boarding!DeleteStudent(s) PROVE BoardingInv'
<1>1. /\ student' = [student EXCEPT ![s] = "deleted"] /\ UNCHANGED <<bed, built, capacity, works, task>>
      /\ crowded \subseteq crowded'
    BY DEF Boarding!DeleteStudent, Boarding!Crowd
<1>2. /\ student' \in [Students -> {"none", "active", "inactive", "deleted"}]
      /\ \A x \in Students : student'[x] = student[x] \/ student'[x] = "deleted"
    BY <1>1, BoardingTypes
<1>3. \A p \in Boarding!Places : Boarding!Limit(p)' = Boarding!Limit(p)
    BY <1>1, LimitStays
<1>4. ASSUME NEW u \in Doable PROVE u \in Doable'
    <2>1. Vacates(u) => Vacates(u)'
        BY <1>1, <1>2 DEF Vacates, Lives
    <2>2. Stands(u.want) => Stands(u.want)'
        BY <1>1 DEF Stands
    <2>3. \A p : Boarding!Occupants(p)' \subseteq Boarding!Occupants(p)
        BY <1>1, <1>2 DEF Boarding!Occupants, Boarding!Assigned
    <2> QED BY <1>1, <1>3, <2>1, <2>2, <2>3, ChoreStays DEF BoardingInv, Moves
<1>5. task' \in [Reqs -> Doable']
    BY <1>1, <1>4, BoardingTypes
<1>6. \A p, x \in Reqs : p # x => Boarding!Footprint(task'[p]) \cap Boarding!Footprint(task'[x]) \subseteq crowded'
    BY <1>1 DEF BoardingInv
<1>7. \A x \in Students : Housed(x)'
    BY <1>1, <1>2 DEF BoardingInv, Housed, Sits, Stands, Lives
<1> QED BY <1>1, <1>2, <1>5, <1>6, <1>7 DEF BoardingInv, Boarding!TypeOK

\* A placement that was not refused fits.
LEMMA PlaceableFits ==
    ASSUME NEW s \in Students, NEW want, Boarding!Placeable(s, want)
    PROVE  /\ want \in Stays /\ want # Boarding!NoBed /\ Sits(want) /\ Stands(want)
           /\ Boarding!TypeOK => \A p \in {want.hostel, want.room} \cap Boarding!Places : Fits(p, s)
<1>1. want \in Boarding!Beds /\ want.hostel \in Hostels /\ want.room \in Rooms \cup {None}
    BY DEF Boarding!Placeable, Boarding!Beds
<1>2. want \in Stays /\ want # Boarding!NoBed /\ Sits(want) /\ Stands(want)
    BY <1>1, BoardingAssumption DEF Boarding!Placeable, Boarding!Beds, Stays, Sits, Stands, Boarding!NoBed
<1>3. ASSUME Boarding!TypeOK, NEW p \in Boarding!Places, p \in {want.hostel, want.room} PROVE Fits(p, s)
    <2>1. ~Boarding!Full(p, s)
        BY <1>1, <1>3, HouseFacts, BoardingAssumption DEF Boarding!Placeable, Boarding!Places
    <2> DEFINE all == Boarding!Occupants(p) \ {s}
               some == Boarding!Occupants(p) \ ({s} \cup crowded)
    <2>2. IsFiniteSet(all) /\ some \subseteq all
        BY FS_Subset, BooksAssumption DEF Boarding!Occupants, Boarding!Assigned
    <2>3. Cardinality(some) <= Cardinality(all) /\ Cardinality(some) \in Nat /\ Cardinality(all) \in Nat
        <3> HIDE DEF all, some
        <3> QED BY <2>2, FS_Subset, FS_CardinalityType
    <2>4. Boarding!Limit(p) # None => Boarding!Limit(p) \in Nat /\ ~(Cardinality(all) >= Boarding!Limit(p))
        BY <1>3, <2>1, LimitIsNat, BoardingCardinality DEF Boarding!Full
    <2>5. Boarding!Limit(p) # None => Cardinality(some) < Boarding!Limit(p)
        <3> HIDE DEF all, some
        <3> QED BY <2>3, <2>4
    <2> QED BY <2>5 DEF Fits
<1> QED BY <1>2, <1>3

LEMMA RestRow ==
    Boarding!Resting = [op |-> "rest", s |-> None, place |-> None, seen |-> Boarding!NoBed,
                        want |-> Boarding!NoBed, on |-> None, gone |-> {}]
BY DEF Boarding!Resting

LEMMA BoardingStarts == Boarding!Init => BoardingInv
<1> SUFFICES ASSUME Boarding!Init PROVE BoardingInv
    OBVIOUS
<1>1. /\ student = [s \in Students |-> "none"] /\ bed = [s \in Students |-> Boarding!NoBed]
      /\ built = [p \in Boarding!Places |-> "none"] /\ task = [q \in Reqs |-> Boarding!Resting]
      /\ capacity = [p \in Boarding!Places |-> IF p \in Hostels THEN None ELSE 0]
    BY DEF Boarding!Init
<1>2. Boarding!NoBed \in Stays
    BY DEF Boarding!NoBed, Stays
<1>3. Boarding!TypeOK
    <2>1. \A h \in Hostels : capacity[h] \in Capacities \cup {None}
        BY <1>1 DEF Boarding!Places
    <2>2. \A r \in Rooms : capacity[r] \in Capacities \cup {0}
        BY <1>1, BoardingAssumption DEF Boarding!Places
    <2> QED BY <1>1, <1>2, <2>1, <2>2 DEF Boarding!TypeOK, Stays
<1>4. task \in [Reqs -> Doable] /\ \A q \in Reqs : Boarding!Footprint(task[q]) = {}
    BY <1>1, RestFacts
<1>5. capacity = [p \in Boarding!Places |-> capacity[p]]
    BY <1>1
<1>6. \A s \in Students : Housed(s)
    BY <1>1 DEF Housed
<1> QED BY <1>3, <1>4, <1>5, <1>6 DEF BoardingInv

LEMMA BoardingStep == BoardingInv /\ Boarding!Next => BoardingInv'
<1> SUFFICES ASSUME BoardingInv, Boarding!Next PROVE BoardingInv'
    OBVIOUS
<1>1. ASSUME NEW p \in Boarding!Places, NEW n \in Capacities \cup {None}, Boarding!Build(p, n) PROVE BoardingInv'
    <2>1. /\ built' = [built EXCEPT ![p] = "open"] /\ capacity' = [capacity EXCEPT ![p] = n]
          /\ Boarding!Crowd({Boarding!House(p)}) /\ UNCHANGED <<student, bed, task>>
          /\ p \in Hostels => n \in Capacities \cup {None}
          /\ p \in Rooms => n \in Capacities
        BY <1>1, BoardingAssumption DEF Boarding!Build
    <2>2. /\ built' \in [Boarding!Places -> {"none", "open", "deleted"}] /\ built'[p] = "open" /\ capacity'[p] = n
          /\ capacity' = [x \in Boarding!Places |-> capacity'[x]]
          /\ \A x \in Boarding!Places \ {p} : built'[x] = built[x] /\ capacity'[x] = capacity[x]
        BY <2>1, BoardingTypes
    <2> QED BY <2>1, <2>2, BuildStep
<1>2. ASSUME NEW p \in Boarding!Places, NEW n \in Capacities \cup {None}, Boarding!SetCapacity(p, n) PROVE BoardingInv'
    <2>1. /\ built[p] = "open" /\ built' = built /\ capacity' = [capacity EXCEPT ![p] = n]
          /\ Boarding!Crowd({Boarding!House(p)}) /\ UNCHANGED <<student, bed, task>>
          /\ p \in Hostels => n \in Capacities \cup {None}
          /\ p \in Rooms => n \in Capacities
        BY <1>2, BoardingAssumption DEF Boarding!SetCapacity
    <2>2. /\ built' \in [Boarding!Places -> {"none", "open", "deleted"}] /\ built'[p] = "open" /\ capacity'[p] = n
          /\ capacity' = [x \in Boarding!Places |-> capacity'[x]]
          /\ \A x \in Boarding!Places \ {p} : built'[x] = built[x] /\ capacity'[x] = capacity[x]
        BY <2>1, BoardingTypes
    <2> QED BY <2>1, <2>2, BuildStep
<1>3. ASSUME NEW s \in Students, Boarding!DeleteStudent(s) PROVE BoardingInv'
    BY <1>3, LeaveSchoolStep
<1>4. ASSUME NEW q \in Reqs, NEW p \in Boarding!Places, Boarding!DemolishRead(q, p) PROVE BoardingInv'
    <2>1. PICK gone : gone = {p} \cup (IF p \in Hostels THEN Boarding!OpenRooms(p) ELSE {})
        OBVIOUS
    <2>2. PICK t : t = [Boarding!Resting EXCEPT !.op = "demolish", !.place = p, !.gone = gone]
        OBVIOUS
    <2>3. Boarding!Start(q, t) /\ Boarding!Residents(p) = {}
        BY <1>4, <2>1, <2>2 DEF Boarding!DemolishRead
    <2>4. /\ gone \in SUBSET Boarding!Places
          /\ \A x \in gone : Boarding!House(x) = Boarding!House(p)
          /\ p \in Rooms => gone = {p}
        BY <2>1, HouseFacts, BoardingAssumption DEF Boarding!OpenRooms, Boarding!Places
    <2>5. t \in Chores /\ t.op = "demolish" /\ t.place = p /\ t.gone = gone
        BY <2>2, <2>4, RestRow DEF Chores, Stays, Boarding!NoBed
    <2>6. Vacates(t)
        <3>1. \A s \in Students : Lives(s) => p # bed[s].hostel /\ p # bed[s].room
            BY <2>3 DEF Boarding!Residents, Boarding!Assigned, Lives
        <3> QED BY <2>5, <3>1, HouseFacts DEF Vacates, Boarding!Places
    <2>7. t \in Doable
        BY <2>4, <2>5, <2>6 DEF Doable, ChoreHolds
    <2> QED BY <2>3, <2>7, BeginChore
<1>5. ASSUME NEW q \in Reqs, NEW s \in Students, NEW want \in Boarding!Beds \cup {Boarding!NoBed},
             Boarding!AdmitRead(q, s, want)
      PROVE  BoardingInv'
    <2>1. PICK t : t = [Boarding!Resting EXCEPT !.op = "admit", !.s = s, !.want = want]
        OBVIOUS
    <2>2. Boarding!Start(q, t) /\ (want = Boarding!NoBed \/ Boarding!Placeable(s, want))
        BY <1>5, <2>1 DEF Boarding!AdmitRead
    <2>3. want \in Stays
        BY DEF Boarding!Beds, Boarding!NoBed, Stays
    <2>4. t \in Chores /\ t.op = "admit" /\ t.s = s /\ t.seen = Boarding!NoBed /\ t.want = want
        BY <2>1, <2>3, RestRow DEF Chores, Stays, Boarding!NoBed
    <2>5. want # Boarding!NoBed => Sits(want) /\ Stands(want) /\ \A p \in Moves(t) : Fits(p, s)
        BY <2>2, <2>4, PlaceableFits DEF Moves, BoardingInv
    <2>6. t \in Doable
        BY <2>4, <2>5 DEF Doable, ChoreHolds
    <2> QED BY <2>2, <2>6, BeginChore
<1>6. ASSUME NEW q \in Reqs, NEW s \in Students, NEW want \in Boarding!Beds \cup {Boarding!NoBed},
             NEW on \in {"active", "inactive"}, Boarding!UpdateRead(q, s, want, on)
      PROVE  BoardingInv'
    <2>1. PICK o \in {"active", "inactive", None} : o = IF on = student[s] THEN None ELSE on
        OBVIOUS
    <2>2. PICK b \in Stays : b = bed[s]
        BY BoardingTypes
    <2>3. PICK t : t = [Boarding!Resting EXCEPT !.op = "update", !.s = s, !.seen = b, !.want = want, !.on = o]
        OBVIOUS
    <2>4. Boarding!Start(q, t) /\ Lives(s) /\ (want \in {b, Boarding!NoBed} \/ Boarding!Placeable(s, want))
        BY <1>6, <2>1, <2>2, <2>3 DEF Boarding!UpdateRead, Lives
    <2>5. want \in Stays
        BY DEF Boarding!Beds, Boarding!NoBed, Stays
    <2>6. t \in Chores /\ t.op = "update" /\ t.s = s /\ t.seen = b /\ t.want = want
        BY <2>2, <2>3, <2>5, RestRow DEF Chores
    <2>7. s \notin crowded /\ want # Boarding!NoBed =>
              Sits(want) /\ (want.hostel \notin crowded => Stands(want) /\ \A p \in Moves(t) : Fits(p, s))
        <3>1. CASE want = b
            BY <2>2, <2>4, <2>6, <3>1 DEF BoardingInv, Housed, Moves
        <3>2. CASE Boarding!Placeable(s, want)
            BY <2>6, <3>2, PlaceableFits DEF Moves, BoardingInv
        <3> QED BY <2>4, <3>1, <3>2
    <2>8. t \in Doable
        BY <2>2, <2>6, <2>7 DEF Doable, ChoreHolds
    <2> QED BY <2>4, <2>8, BeginChore
<1>7. ASSUME NEW q \in Reqs, Boarding!AdmitCommit(q) PROVE BoardingInv'
    <2>1. PICK t \in Chores : t = task[q]
        BY DoableFacts
    <2>2. /\ t.op = "admit" /\ student' = [student EXCEPT ![t.s] = "active"] /\ bed' = [bed EXCEPT ![t.s] = t.want]
          /\ Boarding!End(q) /\ UNCHANGED <<built, capacity, works>> /\ t.want \in Stays
        BY <1>7, <2>1 DEF Boarding!AdmitCommit, Chores
    <2> QED BY <2>1, <2>2, MoveStep
<1>8. ASSUME NEW q \in Reqs, Boarding!UpdateCommit(q) PROVE BoardingInv'
    <2>1. PICK t \in Chores : t = task[q] /\ ChoreHolds(t)
        BY DoableFacts
    <2>2. PICK b : b = Boarding!Merge(bed[t.s], t.seen, t.want)
        OBVIOUS
    <2>3. PICK st : st = IF t.on = None \/ student[t.s] = "deleted" THEN student[t.s] ELSE t.on
        OBVIOUS
    <2>4. /\ t.op = "update" /\ student' = [student EXCEPT ![t.s] = st] /\ bed' = [bed EXCEPT ![t.s] = b]
          /\ Boarding!End(q) /\ UNCHANGED <<built, capacity, works>>
        BY <1>8, <2>1, <2>2, <2>3 DEF Boarding!UpdateCommit
    <2>5. t.s \in Students /\ t.want \in Stays /\ bed[t.s] \in Stays /\ (t.s \notin crowded => bed[t.s] = t.seen)
        BY <2>1, <2>4, BoardingTypes DEF ChoreHolds, Chores
    <2>6. b \in Stays /\ (t.s \notin crowded => b = t.want)
        BY <2>2, <2>5 DEF Boarding!Merge, Stays
    <2>7. st \in {"none", "active", "inactive", "deleted"}
        BY <2>1, <2>3, <2>5, BoardingTypes DEF Chores
    <2> QED BY <2>1, <2>4, <2>6, <2>7, MoveStep
<1>9. ASSUME NEW q \in Reqs, Boarding!DemolishCommit(q) PROVE BoardingInv'
    BY <1>9, DemolishStep
<1>10. ASSUME NEW q \in Reqs, Boarding!GiveUp(q) PROVE BoardingInv'
    <2>1. Boarding!End(q) /\ UNCHANGED <<student, bed, built, capacity, works>>
        BY <1>10 DEF Boarding!GiveUp
    <2>2. crowded' = crowded
        BY <2>1, EndFacts
    <2>3. \A u \in Doable : u \in Doable'
        <3>1. \A p \in Boarding!Places : Boarding!Limit(p)' = Boarding!Limit(p)
            BY <2>1, LimitStays
        <3>2. \A p : Boarding!Occupants(p)' = Boarding!Occupants(p)
            BY <2>1 DEF Boarding!Occupants, Boarding!Assigned
        <3> SUFFICES ASSUME NEW u \in Doable PROVE u \in Doable'
            OBVIOUS
        <3>3. (Vacates(u) => Vacates(u)') /\ (Stands(u.want) => Stands(u.want)')
            BY <2>1, <2>2 DEF Vacates, Lives, Stands
        <3> QED BY <2>1, <2>2, <3>1, <3>2, <3>3, ChoreStays DEF BoardingInv, Moves
    <2>4. task' \in [Reqs -> Doable']
        BY <2>1, <2>3, EndFacts, BoardingTypes
    <2>5. \A s \in Students : Housed(s)'
        BY <2>1, <2>2 DEF BoardingInv, Housed, Sits, Stands, Lives
    <2>6. \A p, x \in Reqs : p # x => Boarding!Footprint(task'[p]) \cap Boarding!Footprint(task'[x]) \subseteq crowded'
        BY <2>1, EndFacts
    <2> QED BY <2>1, <2>4, <2>5, <2>6 DEF BoardingInv, Boarding!TypeOK
<1> QED BY <1>1, <1>2, <1>3, <1>4, <1>5, <1>6, <1>7, <1>8, <1>9, <1>10 DEF Boarding!Next

LEMMA BoardingSame == ASSUME BoardingInv, UNCHANGED boarding PROVE BoardingInv'
<1>1. UNCHANGED <<student, bed, built, capacity, works, task, crowded>>
    BY DEF boarding
<1>2. \A p \in Boarding!Places : Boarding!Limit(p)' = Boarding!Limit(p)
    BY <1>1, LimitStays
<1>3. ASSUME NEW u \in Doable PROVE u \in Doable'
    <2>1. \A p : Boarding!Occupants(p)' = Boarding!Occupants(p)
        BY <1>1 DEF Boarding!Occupants, Boarding!Assigned
    <2>2. (Vacates(u) => Vacates(u)') /\ (Stands(u.want) => Stands(u.want)')
        BY <1>1 DEF Vacates, Lives, Stands
    <2> QED BY <1>1, <1>2, <2>1, <2>2, ChoreStays DEF BoardingInv, Moves
<1>4. task' \in [Reqs -> Doable']
    BY <1>1, <1>3, BoardingTypes
<1>5. \A s \in Students : Housed(s)'
    BY <1>1 DEF BoardingInv, Housed, Sits, Stands, Lives
<1>6. \A p, x \in Reqs : p # x => Boarding!Footprint(task'[p]) \cap Boarding!Footprint(task'[x]) \subseteq crowded'
    BY <1>1 DEF BoardingInv
<1> QED BY <1>1, <1>4, <1>5, <1>6 DEF BoardingInv, Boarding!TypeOK

BoardingHolds == part = "boarding" => BoardingInv

LEMMA BoardingInvariant == Spec => []BoardingHolds
<1>1. Init => BoardingHolds
    BY BoardingStarts DEF Init, BoardingHolds
<1>2. BoardingHolds /\ [Next]_campus => BoardingHolds'
    BY BoardingStep, BoardingSame DEF Next, campus, BoardingHolds
<1> QED BY <1>1, <1>2, PTL DEF Spec

\* Learners with a bed sleep in a room and hostel that exist and belong together,
\* unless two requests worked on one of them at once (delete_hostel, delete_room,
\* validate_allocation).
THEOREM BedsAreThere == Spec => []BedsExist
<1>1. BoardingHolds => BedsExist
    <2> SUFFICES ASSUME BoardingInv PROVE Boarding!BedsExist
        BY DEF BoardingHolds, BedsExist
    <2> QED BY DEF BoardingInv, Housed, Lives, Sits, Stands, Boarding!BedsExist
<1> QED BY <1>1, BoardingInvariant, PTL

LEMMA MovingFits == ASSUME BoardingInv, Boarding!Next PROVE Boarding!PlacingFits
<1> SUFFICES ASSUME NEW s \in Students, NEW p \in Boarding!Places, Boarding!MovesIn(s, p) PROVE ~Boarding!Overfull(p)'
    BY DEF Boarding!PlacingFits
<1>1. /\ p \notin {bed[s].hostel, bed[s].room} /\ p \in {bed'[s].hostel, bed'[s].room} /\ student'[s] = "active"
      /\ bed'[s].hostel \notin crowded /\ Boarding!Assigned(p)' \cap crowded = {}
    BY DEF Boarding!MovesIn
<1>2. s \notin crowded /\ bed' # bed
    BY <1>1 DEF Boarding!Assigned
<1>3. PICK q \in Reqs : Boarding!AdmitCommit(q) \/ Boarding!UpdateCommit(q)
    BY <1>2 DEF Boarding!Next, Boarding!Build, Boarding!SetCapacity, Boarding!DeleteStudent, Boarding!DemolishRead,
                Boarding!AdmitRead, Boarding!UpdateRead, Boarding!Start, Boarding!DemolishCommit, Boarding!GiveUp
<1>4. PICK t \in Chores : t = task[q] /\ ChoreHolds(t)
    BY DoableFacts
<1>5. /\ t.op \in {"admit", "update"} /\ t.s \in Students /\ UNCHANGED <<built, capacity>>
      /\ \E b : bed' = [bed EXCEPT ![t.s] = b]
      /\ \E st : student' = [student EXCEPT ![t.s] = st]
    BY <1>3, <1>4 DEF Boarding!AdmitCommit, Boarding!UpdateCommit, ChoreHolds
<1>6. s = t.s /\ \A x \in Students \ {s} : bed'[x] = bed[x] /\ student'[x] = student[x]
    BY <1>1, <1>5, BoardingTypes
<1>7. bed'[s] = t.want
    <2>1. CASE Boarding!AdmitCommit(q)
        BY <1>4, <1>6, <2>1, BoardingTypes DEF Boarding!AdmitCommit
    <2>2. CASE Boarding!UpdateCommit(q)
        <3>1. t.op = "update" /\ bed' = [bed EXCEPT ![s] = Boarding!Merge(bed[s], t.seen, t.want)]
            BY <1>4, <1>6, <2>2 DEF Boarding!UpdateCommit
        <3>2. bed[s] = t.seen /\ t.want \in Stays
            BY <1>2, <1>4, <1>6, <3>1 DEF ChoreHolds, Chores
        <3>3. Boarding!Merge(bed[s], t.seen, t.want) = t.want
            BY <3>2 DEF Boarding!Merge, Stays
        <3> QED BY <3>1, <3>3, BoardingTypes
    <2> QED BY <1>3, <2>1, <2>2
<1>8. p \in Moves(t) /\ t.want # Boarding!NoBed
    <2>1. p # None
        BY HouseFacts, BoardingAssumption DEF Boarding!Places
    <2>2. t.seen = bed[s] \/ t.seen = Boarding!NoBed
        BY <1>2, <1>4, <1>5, <1>6 DEF ChoreHolds
    <2> QED BY <1>1, <1>7, <2>1, <2>2 DEF Moves, Boarding!NoBed
<1>9. Fits(p, s)
    BY <1>1, <1>2, <1>4, <1>5, <1>6, <1>7, <1>8 DEF ChoreHolds
<1>10. PICK o : o = Boarding!Occupants(p)'
    OBVIOUS
<1> DEFINE some == Boarding!Occupants(p) \ ({s} \cup crowded)
<1>11. IsFiniteSet(some) /\ s \notin some
    BY FS_Subset, BooksAssumption DEF Boarding!Occupants, Boarding!Assigned
<1>12. o \subseteq some \cup {s}
    BY <1>1, <1>6, <1>10 DEF Boarding!Occupants, Boarding!Assigned
<1>13. Boarding!Limit(p)' = Boarding!Limit(p)
    BY <1>5, LimitStays
<1>14. Boarding!Limit(p) # None => Boarding!Limit(p) \in Nat /\ Cardinality(some) < Boarding!Limit(p)
    BY <1>9, LimitIsNat DEF Fits, BoardingInv
<1> HIDE DEF some
<1>15. Cardinality(o) <= Cardinality(some) + 1 /\ Cardinality(o) \in Nat /\ Cardinality(some) \in Nat
    <2>1. IsFiniteSet(some \cup {s}) /\ Cardinality(some \cup {s}) = Cardinality(some) + 1
        BY <1>11, FS_AddElement
    <2>2. Cardinality(o) <= Cardinality(some \cup {s}) /\ IsFiniteSet(o)
        BY <1>12, <2>1, FS_Subset
    <2> QED BY <1>11, <2>1, <2>2, FS_CardinalityType
<1>16. Boarding!Limit(p) # None => ~(Cardinality(o) > Boarding!Limit(p))
    BY <1>14, <1>15
<1> QED BY <1>10, <1>13, <1>16, BoardingCardinality DEF Boarding!Overfull

\* Nobody is moved into a place that is overfull after it, unless two requests
\* worked on the hostel or on one of its learners at once (validate_allocation).
THEOREM PlacesSuffice == Spec => PlacingNeverOverfills
<1> DEFINE A == part = "boarding" => Boarding!PlacingFits
<1>1. BoardingHolds /\ [Next]_campus => [A]_boarding
    <2> SUFFICES ASSUME BoardingHolds, [Next]_campus, ~UNCHANGED boarding, part = "boarding" PROVE Boarding!PlacingFits
        OBVIOUS
    <2>1. Boarding!Next
        BY DEF Next, campus
    <2> QED BY <2>1, MovingFits DEF BoardingHolds
<1> QED BY <1>1, BoardingInvariant, PTL DEF Spec, PlacingNeverOverfills

-----------------------------------------------------------------------------
(* Rows in the shape of their tables                                       *)

\* A lesson takes time (CHECK (ends_at > starts_at)).
LessonsTakeTime ==
    part = "timetable" => /\ \A l \in Week!Kept : lesson[l].from < lesson[l].to
                          /\ contested \subseteq Lessons

LEMMA LessonsInShape == Spec => []LessonsTakeTime
<1>1. Init => LessonsTakeTime
    <2> SUFFICES ASSUME Week!Init PROVE Week!Kept = {} /\ contested \subseteq Lessons
        BY DEF Init, LessonsTakeTime
    <2> QED BY DEF Week!Init, Week!Kept
<1>2. LessonsTakeTime /\ WeekHolds /\ [Next]_campus => LessonsTakeTime'
    <2> SUFFICES ASSUME LessonsTakeTime, WeekHolds, [Next]_campus, part = "timetable" PROVE LessonsTakeTime'
        BY DEF Next, campus, LessonsTakeTime
    <2>1. WeekInv
        BY DEF WeekHolds
    <2>2. CASE UNCHANGED <<lesson, contested>>
        BY <2>2 DEF LessonsTakeTime, Week!Kept
    <2>3. ASSUME NEW q \in Reqs, Week!Commit(q), UNCHANGED part PROVE LessonsTakeTime'
        <3>1. plan[q].op \in {"enter", "update"} /\ DOMAIN plan[q].rows \subseteq Lessons
            BY <2>1, <2>3 DEF Week!Commit, WeekInv, HoldsRows
        <3>2. \A l \in Lessons : /\ l \in DOMAIN plan[q].rows => /\ lesson'[l] = Week!Written(q, l)
                                                                 /\ Week!TakesTime(Week!Written(q, l))
                                 /\ l \notin DOMAIN plan[q].rows => lesson'[l] = lesson[l]
            BY <2>3 DEF Week!Commit
        <3>3. \A l \in Week!Kept' : lesson'[l].from < lesson'[l].to
            BY <3>2 DEF Week!Kept, Week!TakesTime, LessonsTakeTime
        <3>4. contested' \subseteq Lessons
            BY <2>3, <3>1 DEF Week!Commit, LessonsTakeTime
        <3> QED BY <3>3, <3>4 DEF LessonsTakeTime
    <2>4. ASSUME NEW l \in Lessons, Week!Delete(l), UNCHANGED part PROVE LessonsTakeTime'
        BY <2>1, <2>4 DEF Week!Delete, Week!Kept, WeekInv, LessonsTakeTime
    <2> QED BY <2>2, <2>3, <2>4
            DEF Next, campus, timetable, BooksNext, Week!Next, Week!Begin, Week!Open, Week!Enter, Week!UpdateRead, Week!Drop
<1> QED BY <1>1, <1>2, WeekInvariant, PTL DEF Spec

LEMMA PartStays == Spec => [](part \in Parts)
<1>1. Init => part \in Parts
    BY DEF Init
<1>2. part \in Parts /\ [Next]_campus => (part \in Parts)'
    BY DEF Next, campus
<1> QED BY <1>1, <1>2, PTL DEF Spec

\* Every component keeps its rows in the shape its tables allow: what handlers that
\* read and write at different times leave is a row all the same, and a lesson that
\* two of them wrote still takes time (update_slot).
THEOREM RowsInShape == Spec => []TypeOK
<1>1. DirectoryHolds => (part = "directory" => Directory!TypeOK)
    BY DEF DirectoryHolds, DirectoryInv, Directory!TypeOK
<1>2. CalendarHolds => (part = "calendar" => Calendar!TypeOK)
    BY DEF CalendarHolds, CalendarInv
<1>3. BoardingHolds => (part = "boarding" => Boarding!TypeOK)
    BY DEF BoardingHolds, BoardingInv
<1>4. WeekHolds /\ LessonsTakeTime => (part = "timetable" => Week!TypeOK)
    BY DEF WeekHolds, LessonsTakeTime, WeekInv, IsRow, Columns, Week!Kept, Week!TypeOK
<1>5. RegistersHold => (part = "registers" => Registers!TypeOK)
    BY DEF RegistersHold, RegistersInv
<1>6. BooksInv => (part = "admissions" => Places!TypeOK)
    BY PlacesHold DEF BooksInv
<1>7. BooksInv => (part = "payroll" => Wages!TypeOK)
    BY DEF BooksInv, WagesInv, WageRows, IsRun, Wages!TypeOK
<1>8. BooksInv => (part = "school" => Profile!TypeOK)
    BY DEF BooksInv, ProfileInv, ProfileRows, ProfileWorks, Profile!TypeOK
<1>9. BooksInv => (part = "notices" => Notices!TypeOK)
    BY DEF BooksInv, NoticesInv, NoticeRows, Notices!TypeOK, Notices!Statuses
<1>10. BooksInv => (part = "sheets" => Sheets!TypeOK)
    BY DEF BooksInv, SheetsInv, SetRows, Sheets!TypeOK, Sheets!Statuses
<1>11. /\ part \in Parts /\ DirectoryHolds /\ CalendarHolds /\ BoardingHolds /\ WeekHolds
       /\ LessonsTakeTime /\ RegistersHold /\ BooksInv
       => TypeOK
    BY <1>1, <1>2, <1>3, <1>4, <1>5, <1>6, <1>7, <1>8, <1>9, <1>10 DEF TypeOK
<1> QED BY <1>11, PartStays, DirectoryInvariant, CalendarInvariant, BoardingInvariant, WeekInvariant,
           LessonsInShape, RegistersInvariant, BooksHold, PTL

=============================================================================
