-------------------------------- MODULE Hostel --------------------------------
(***************************************************************************)
(* Boarding: hostel_service.py, and what student_service.py does to a      *)
(* learner's bed.  Occupancy is counted from the active learners whenever  *)
(* somebody is placed; nothing is locked between the count and the commit. *)
(*                                                                         *)
(* Gender and the is_active flags of hostels and rooms only ever refuse a  *)
(* placement; here any placement may be refused.                           *)
(***************************************************************************)
EXTENDS Naturals, FiniteSets

CONSTANTS
    Students, Hostels, Rooms,
    HostelOf,       \* hostel a room is built in
    Capacities,     \* capacities edited in; 0 leaves a room without limit
    Reqs,        \* request handlers that may be in flight at once
    MaxWorks,       \* bound: times hostels and rooms are built, resized or deleted
    None

VARIABLES
    student,        \* "none", "active", "inactive" or "deleted"
    bed,            \* hostel_id and hostel_room_id of a student
    built,          \* hostels and rooms: "none", "open" or "deleted"
    capacity,       \* hostels.capacity (None: the sum of the rooms'), hostel_rooms.capacity
    works,          \* how often they were
    task,           \* what each request handler holds
    crowded         \* history: students and hostels two requests worked on at once

boarding == <<student, bed, built, capacity, works, task, crowded>>

-----------------------------------------------------------------------------
Places == Hostels \cup Rooms
Beds == [hostel : Hostels, room : Rooms \cup {None}]
NoBed == [hostel |-> None, room |-> None]

Resting == [op |-> "rest", s |-> None, place |-> None, seen |-> NoBed, want |-> NoBed,
            on |-> None, gone |-> {}]

\* Active students assigned to a place, and those that count for a deletion.
Assigned(p) == {s \in Students : p \in {bed[s].hostel, bed[s].room}}
Occupants(p) == {s \in Assigned(p) : student[s] = "active"}
Residents(p) == {s \in Assigned(p) : student[s] \in {"active", "inactive"}}

OpenRooms(h) == {r \in Rooms : HostelOf[r] = h /\ built[r] = "open"}
RoomSum(h) ==
    LET sum[R \in SUBSET Rooms] ==
            IF R = {} THEN 0 ELSE LET r == CHOOSE r \in R : TRUE IN capacity[r] + sum[R \ {r}]
    IN  sum[OpenRooms(h)]

\* _effective_capacity of a hostel, and the limit of a room; None: no limit.
Limit(p) ==
    CASE p \in Hostels /\ capacity[p] # None -> capacity[p]
      [] p \in Hostels /\ capacity[p] = None -> IF RoomSum(p) > 0 THEN RoomSum(p) ELSE None
      [] p \in Rooms -> IF capacity[p] > 0 THEN capacity[p] ELSE None

Full(p, s) == Limit(p) # None /\ Cardinality(Occupants(p) \ {s}) >= Limit(p)
Overfull(p) == Limit(p) # None /\ Cardinality(Occupants(p)) > Limit(p)

Init ==
    /\ student = [s \in Students |-> "none"]
    /\ bed = [s \in Students |-> NoBed]
    /\ built = [p \in Places |-> "none"]
    /\ capacity = [p \in Places |-> IF p \in Hostels THEN None ELSE 0]
    /\ works = 0
    /\ task = [q \in Reqs |-> Resting]
    /\ crowded = {}

\* The student and the hostels a request is about.
House(p) == IF p \in Rooms THEN HostelOf[p] ELSE p
Footprint(t) == {t.s, t.seen.hostel, t.want.hostel, House(t.place)} \ {None}
Crowd(subjects) ==
    crowded' = crowded \cup UNION {subjects \cap Footprint(task[q]) : q \in Reqs}

Start(q, t) ==
    /\ task[q] = Resting
    /\ task' = [task EXCEPT ![q] = t]
    /\ Crowd(Footprint(t))
    /\ UNCHANGED <<student, bed, built, capacity, works>>

End(q) == task' = [task EXCEPT ![q] = Resting] /\ UNCHANGED crowded

-----------------------------------------------------------------------------
(* Faulty variants: what the properties must catch.                        *)

\* The room is looked up by its own id only.
PlaceableInAnyHostel(s, want) ==
    /\ want \in Beds /\ built[want.hostel] = "open" /\ ~Full(want.hostel, s)
    /\ want.room # None => built[want.room] = "open" /\ ~Full(want.room, s)

\* Only the room is asked whether it is full.
PlaceableByRoom(s, want) ==
    /\ want \in Beds /\ built[want.hostel] = "open"
    /\ IF want.room = None THEN ~Full(want.hostel, s)
       ELSE HostelOf[want.room] = want.hostel /\ built[want.room] = "open" /\ ~Full(want.room, s)

-----------------------------------------------------------------------------
(* Hostels and rooms                                                       *)

Work == works < MaxWorks /\ works' = works + 1

\* create_hostel; create_room finds its hostel.
Build(p, n) ==
    /\ built[p] = "none"
    /\ IF p \in Hostels THEN n \in Capacities \cup {None}
                        ELSE n \in Capacities /\ built[HostelOf[p]] = "open"
    /\ built' = [built EXCEPT ![p] = "open"]
    /\ capacity' = [capacity EXCEPT ![p] = n]
    /\ Crowd({House(p)}) /\ Work /\ UNCHANGED <<student, bed, task>>

\* update_hostel and update_room set any capacity, whoever lives there.
SetCapacity(p, n) ==
    /\ built[p] = "open" /\ n # capacity[p]
    /\ n \in Capacities \cup (IF p \in Hostels THEN {None} ELSE {})
    /\ capacity' = [capacity EXCEPT ![p] = n]
    /\ Crowd({House(p)}) /\ Work /\ UNCHANGED <<student, bed, built, task>>

\* delete_hostel and delete_room count the residents first; the hostel's rooms as
\* found now go with it.
DemolishRead(q, p) ==
    /\ built[p] = "open" /\ Residents(p) = {}
    /\ Start(q, [Resting EXCEPT !.op = "demolish", !.place = p,
                    !.gone = {p} \cup (IF p \in Hostels THEN OpenRooms(p) ELSE {})])

DemolishCommit(q) ==
    /\ task[q].op = "demolish"
    /\ built' = [p \in Places |-> IF p \in task[q].gone THEN "deleted" ELSE built[p]]
    /\ Work /\ End(q) /\ UNCHANGED <<student, bed, capacity>>

-----------------------------------------------------------------------------
(* Learners                                                                *)

\* validate_allocation
Placeable(s, want) ==
    /\ want \in Beds /\ built[want.hostel] = "open" /\ ~Full(want.hostel, s)
    /\ want.room # None =>
          HostelOf[want.room] = want.hostel /\ built[want.room] = "open" /\ ~Full(want.room, s)

\* create_student; the row appears with the commit.
AdmitRead(q, s, want) ==
    /\ student[s] = "none" /\ \A p \in Reqs : task[p].s # s
    /\ want = NoBed \/ Placeable(s, want)
    /\ Start(q, [Resting EXCEPT !.op = "admit", !.s = s, !.want = want])

AdmitCommit(q) ==
    /\ task[q].op = "admit"
    /\ student' = [student EXCEPT ![task[q].s] = "active"]
    /\ bed' = [bed EXCEPT ![task[q].s] = task[q].want]
    /\ End(q) /\ UNCHANGED <<built, capacity, works>>

\* update_student, allocate and checkout: the bed stays, is given up, or is
\* validated (another hostel, or another room of the same one); is_active may be set.
UpdateRead(q, s, want, on) ==
    /\ student[s] \in {"active", "inactive"}
    /\ \/ want \in {bed[s], NoBed}
       \/ Placeable(s, want)
    /\ Start(q, [Resting EXCEPT !.op = "update", !.s = s, !.seen = bed[s], !.want = want,
                                !.on = IF on = student[s] THEN None ELSE on])

\* Only columns that differ from the row as loaded are written.
Merge(now, seen, want) ==
    [hostel |-> IF want.hostel = seen.hostel THEN now.hostel ELSE want.hostel,
     room |-> IF want.room = seen.room THEN now.room ELSE want.room]

UpdateCommit(q) ==
    /\ task[q].op = "update"
    /\ LET t == task[q]
       IN  /\ bed' = [bed EXCEPT ![t.s] = Merge(bed[t.s], t.seen, t.want)]
           /\ student' = [student EXCEPT ![t.s] =
                             IF t.on = None \/ student[t.s] = "deleted" THEN student[t.s] ELSE t.on]
    /\ End(q) /\ UNCHANGED <<built, capacity, works>>

\* A deleted learner keeps the bed but is counted nowhere.
DeleteStudent(s) ==
    /\ student[s] \in {"active", "inactive"}
    /\ student' = [student EXCEPT ![s] = "deleted"]
    /\ Crowd({s}) /\ UNCHANGED <<bed, built, capacity, works, task>>

\* An error, a lost connection or a crash before the commit.
GiveUp(q) ==
    /\ task[q] # Resting
    /\ End(q) /\ UNCHANGED <<student, bed, built, capacity, works>>

Next ==
    \/ \E p \in Places, n \in Capacities \cup {None} : Build(p, n) \/ SetCapacity(p, n)
    \/ \E s \in Students : DeleteStudent(s)
    \/ \E q \in Reqs :
          \/ \E p \in Places : DemolishRead(q, p)
          \/ \E s \in Students, want \in Beds \cup {NoBed} :
                \/ AdmitRead(q, s, want)
                \/ \E on \in {"active", "inactive"} : UpdateRead(q, s, want, on)
          \/ AdmitCommit(q) \/ UpdateCommit(q) \/ DemolishCommit(q) \/ GiveUp(q)

Spec == Init /\ [][Next]_boarding

-----------------------------------------------------------------------------
(* Properties                                                              *)

TypeOK ==
    /\ student \in [Students -> {"none", "active", "inactive", "deleted"}]
    /\ bed \in [Students -> [hostel : Hostels \cup {None}, room : Rooms \cup {None}]]
    /\ built \in [Places -> {"none", "open", "deleted"}]
    /\ \A h \in Hostels : capacity[h] \in Capacities \cup {None}
    /\ \A r \in Rooms : capacity[r] \in Capacities \cup {0}

\* A learner with a bed sleeps in a hostel that exists, and in a room of that
\* hostel, unless two requests worked on the learner or the hostel at once.
BedsExist ==
    \A s \in Students \ crowded :
        /\ student[s] \in {"active", "inactive"} /\ bed[s] # NoBed
        /\ bed[s].hostel \notin crowded
        => /\ bed[s].hostel # None /\ built[bed[s].hostel] = "open"
           /\ bed[s].room # None =>
                 built[bed[s].room] = "open" /\ HostelOf[bed[s].room] = bed[s].hostel

\* A learner moved into a place, with what two requests worked on excepted.
MovesIn(s, p) ==
    /\ p \notin {bed[s].hostel, bed[s].room}
    /\ p \in {bed'[s].hostel, bed'[s].room} /\ student'[s] = "active"
    /\ ({bed'[s].hostel} \cup Assigned(p)') \cap crowded = {}

PlacingFits == \A s \in Students, p \in Places : MovesIn(s, p) => ~Overfull(p)'

\* No step moves a learner into a place that is overfull after it, unless two
\* requests worked on the hostel or on one of its learners at once.  (A learner
\* who becomes active again returns to the old bed without a check, and
\* capacities may be lowered.)
PlacingNeverOverfills == [][PlacingFits]_boarding

=============================================================================
