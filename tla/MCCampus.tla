------------------------------- MODULE MCCampus -------------------------------
(* Campus for TLC: structured constants, symmetry, and how much of the state *)
(* the histories may except                                                  *)
EXTENDS Campus, TLC

CONSTANTS h1, x1, s1, s2, q1, q2, c1, c2, A, B, t1, t2

\* One room in the first hostel, none in the second.
MCHostelOf == x1 :> h1

\* A default section and one that is added, with one requirement each.
MCSectionOf == q1 :> s1 @@ q2 :> s2

\* A long lesson of one stream, beside it another stream's, after that one a
\* lesson of the whole class, and one of another class with the first teacher.
Plan(from, to, class, stream, teacher) ==
    [from |-> from, to |-> to, class |-> class, stream |-> stream, teacher |-> teacher]
MCPlans == {Plan(1, 3, c1, A, t1), Plan(1, 2, c1, B, t2),
            Plan(2, 3, c1, None, t2), Plan(2, 3, c2, None, t1)}

\* Students, lessons, prefixes and uploads have the same names, so that few
\* permutations remain.
Symmetry == Permutations(Reqs) \cup Permutations(Students)

\* The properties except what two requests worked on at once: the search goes on
\* to the first such hostel, learner or registration, and while one lesson of two is left.
MostUndisturbed ==
    /\ part = "boarding" => crowded = {}
    /\ part = "registers" => raced = {}
    /\ part = "timetable" => Cardinality(contested) <= 1
    /\ part \in {"payroll", "school", "sheets"} => ~history.crossed

=============================================================================
