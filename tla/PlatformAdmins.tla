---------------------------- MODULE PlatformAdmins ----------------------------
(***************************************************************************)
(* The directory of platform administrators: platform_admin_service.py     *)
(* behind routers/platform/admins.py.  A request loads the administrator,  *)
(* may count the active ones, and commits; the table is not locked.  The   *)
(* acting administrator is known by an access token only, so it may be     *)
(* anybody who ever had an account.                                        *)
(***************************************************************************)
CONSTANTS
    Admins, Reqs,  \* administrators; request handlers that may be in flight at once
    None

VARIABLES
    admin,          \* platform_admins: whether the row lives, and is_active
    desk,           \* what each request handler holds
    pressed         \* history: two removals have been in flight at once

directory == <<admin, desk, pressed>>

-----------------------------------------------------------------------------
NoRequest == [op |-> "none", target |-> None, was |-> FALSE, step |-> "none"]
Removals == {"deactivate", "delete"}

Active == {a \in Admins : admin[a].row = "live" /\ admin[a].active}
MoreThanOne == \E a, b \in Active : a # b
Known == {a \in Admins : admin[a].row # "none"}

\* The first administrator is seeded when the platform is installed.
Init ==
    /\ \E first \in Admins :
          admin = [a \in Admins |-> [row |-> IF a = first THEN "live" ELSE "none",
                                     active |-> a = first]]
    /\ desk = [d \in Reqs |-> NoRequest]
    /\ pressed = FALSE

Close(d) == desk' = [desk EXCEPT ![d] = NoRequest] /\ UNCHANGED pressed

-----------------------------------------------------------------------------
(* Faulty variants: what the properties must catch.                        *)

\* Deleting does not ask who is left.
CountUnlessDeleting(d) ==
    /\ desk[d].step = "count"
    /\ desk[d].op = "deactivate" => MoreThanOne
    /\ desk' = [desk EXCEPT ![d].step = "commit"]
    /\ UNCHANGED <<admin, pressed>>

-----------------------------------------------------------------------------
(* Operations                                                              *)

\* E-mail addresses are unique, over deleted administrators too.
CreateAdmin(a) ==
    /\ admin[a].row = "none"
    /\ admin' = [admin EXCEPT ![a] = [row |-> "live", active |-> TRUE]]
    /\ UNCHANGED <<desk, pressed>>

\* Nobody deactivates or deletes themselves; only a removal of an active
\* administrator goes on to count.
Load(d, actor, op, target) ==
    /\ desk[d] = NoRequest
    /\ admin[target].row = "live"
    /\ op \in Removals => actor # target
    /\ desk' = [desk EXCEPT ![d] =
           [op |-> op, target |-> target, was |-> admin[target].active,
            step |-> IF op \in Removals /\ admin[target].active THEN "count" ELSE "commit"]]
    /\ pressed' = (pressed \/ (op \in Removals /\ \E x \in Reqs : desk[x].op \in Removals))
    /\ UNCHANGED admin

\* The last active administrator is not removed.
Count(d) ==
    /\ desk[d].step = "count"
    /\ MoreThanOne
    /\ desk' = [desk EXCEPT ![d].step = "commit"]
    /\ UNCHANGED <<admin, pressed>>

\* is_active is written where it differs from the row as loaded.
Commit(d) ==
    /\ desk[d].step = "commit"
    /\ LET x == desk[d]
           on == x.op = "activate"
       IN  admin' = [admin EXCEPT
               ![x.target].active = IF on = x.was THEN @ ELSE on,
               ![x.target].row = IF x.op = "delete" THEN "deleted" ELSE @]
    /\ Close(d)

\* A refusal, an error, a lost connection or a crash before the commit.
Abandon(d) == desk[d] # NoRequest /\ Close(d) /\ UNCHANGED admin

Next ==
    \/ \E a \in Admins : CreateAdmin(a)
    \/ \E d \in Reqs :
          \/ \E actor \in Known, target \in Known, op \in Removals \cup {"activate"} :
                Load(d, actor, op, target)
          \/ Count(d) \/ Commit(d) \/ Abandon(d)

Spec == Init /\ [][Next]_directory

-----------------------------------------------------------------------------
(* Properties                                                              *)

TypeOK ==
    /\ admin \in [Admins -> [row : {"none", "live", "deleted"}, active : BOOLEAN]]
    /\ \A d \in Reqs : desk[d].target \in Admins \cup {None}
    /\ pressed \in BOOLEAN

\* Somebody can always sign in to the platform console, unless two removals
\* were in flight at once ("Cannot delete the last active platform administrator").
SomebodyIsLeft == pressed \/ Active # {}

=============================================================================
