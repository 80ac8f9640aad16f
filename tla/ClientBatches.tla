----------------------------- MODULE ClientBatches ----------------------------
(***************************************************************************)
(* Adding several rows at once, with the tables of BatchKinds: a list is   *)
(* chosen, perhaps checked, sent in one request or in several one after    *)
(* the other, and sent again when something went wrong.  A behaviour       *)
(* exercises one screen.                                                   *)
(*                                                                         *)
(* A list has two rows; of two requests, each carries one.  The second     *)
(* list holds the same rows, corrected.                                    *)
(***************************************************************************)
EXTENDS BatchKinds, Naturals, FiniteSets

VARIABLES
    screen,         \* the screen, the list chosen, the one whose check it shows, what it told
    calls,          \* the lists being checked, and the lists being added
    rows,           \* the API: how often each row was added
    past            \* history: what the properties are about

batches == <<screen, calls, rows, past>>

Rows == {1, 2}
Lists == {1, 2}
Runs == {1, 2}
Batch == Batches[screen.kind]
Part(n) == IF Batch.parts = 1 THEN Rows ELSE {n}
Idle == [at |-> "none", part |-> 1, came |-> {}, got |-> {}, bad |-> FALSE]
Working == calls.checks # {} \/ \E n \in Runs : calls.run[n].at # "none"

-----------------------------------------------------------------------------
Init ==
    /\ \E k \in DOMAIN Batches : screen = [kind |-> k, list |-> 0, checked |-> 0, told |-> {}, open |-> TRUE]
    /\ calls = [checks |-> {}, run |-> [n \in Runs |-> Idle]]
    /\ rows = [r \in Rows |-> 0]
    /\ past = [lost |-> {}, halted |-> FALSE, trouble |-> FALSE, unchecked |-> FALSE]

TypeOK ==
    /\ screen \in [kind : DOMAIN Batches, list : 0..2, checked : 0..2, told : SUBSET Rows, open : BOOLEAN]
    /\ calls.checks \subseteq Lists
    /\ calls.run \in [Runs -> [at : {"none", "sent", "done", "refused"}, part : 1..2,
                               came : SUBSET Rows, got : SUBSET Rows, bad : BOOLEAN]]
    /\ rows \in [Rows -> 0..2]
    /\ past \in [lost : SUBSET Rows, halted : BOOLEAN, trouble : BOOLEAN, unchecked : BOOLEAN]

-----------------------------------------------------------------------------
(* The user                                                                *)

\* A list is chosen, where nothing under way prevents it.
Choose ==
    /\ screen.list < 2 /\ (screen.open \/ Batch.leaves = "always")
    /\ Batch.check = "all" => ~Working
    /\ screen' = [screen EXCEPT !.list = @ + 1, !.checked = 0, !.open = TRUE]
    /\ calls' = IF Batch.check = "some" THEN [calls EXCEPT !.checks = @ \cup {screen'.list}] ELSE calls
    /\ UNCHANGED <<rows, past>>

Check ==
    /\ Batch.check \in {"all", "may"} /\ screen.open /\ screen.list # 0 /\ ~Working
    /\ calls' = [calls EXCEPT !.checks = {screen.list}]
    /\ UNCHANGED <<screen, rows, past>>

\* The whole list is sent, from its first part.
Import(n) ==
    /\ screen.open /\ screen.list # 0 /\ calls.run[n].at = "none"
    /\ LET other == calls.run[3 - n]
       IN  other.at # "none" => ~Batch.busy /\ other.part = 2
    /\ CASE Batch.check = "all" -> screen.checked = screen.list /\ calls.checks = {}
         [] Batch.check = "some" -> screen.checked # 0 /\ screen.list \notin calls.checks
         [] Batch.check = "may" -> calls.checks = {}
         [] OTHER -> TRUE
    /\ calls' = [calls EXCEPT !.run[n] = [Idle EXCEPT !.at = "sent"]]
    /\ past' = [past EXCEPT !.unchecked = @ \/ (Batch.check \in {"all", "some"} /\ screen.checked # screen.list)]
    /\ UNCHANGED <<screen, rows>>

-----------------------------------------------------------------------------
(* The API                                                                 *)

\* The rows of a part that can be added are, except those that are there already.
Apply(n) ==
    LET run == calls.run[n]
        part == Part(run.part)
    IN  /\ run.at = "sent"
        /\ \E bad \in IF Batch.whole THEN {{}} ELSE SUBSET part :
              LET new == {r \in part \ bad : Batch.adds \/ rows[r] = 0}
              IN  /\ rows' = [r \in Rows |-> IF r \in new /\ rows[r] < 2 THEN rows[r] + 1 ELSE rows[r]]
                  /\ calls' = [calls EXCEPT !.run[n] = [run EXCEPT !.at = "done", !.came = new,
                                                                   !.bad = @ \/ bad # {}]]
        /\ UNCHANGED <<screen, past>>

Refuse(n) ==
    /\ calls.run[n].at = "sent" /\ calls' = [calls EXCEPT !.run[n].at = "refused"]
    /\ UNCHANGED <<screen, rows, past>>

-----------------------------------------------------------------------------
(* Answers                                                                 *)

\* The answer to a check is shown, whichever list it was of; a list that fails it
\* is as if it had not been checked.
CheckAnswered(list) ==
    /\ list \in calls.checks /\ calls' = [calls EXCEPT !.checks = @ \ {list}]
    /\ \E passed \in BOOLEAN : screen' = [screen EXCEPT !.checked = IF passed THEN list ELSE 0]
    /\ UNCHANGED <<rows, past>>

CheckLost(list) ==
    /\ list \in calls.checks /\ calls' = [calls EXCEPT !.checks = @ \ {list}]
    /\ UNCHANGED <<screen, rows, past>>

\* One part is done and the next is sent.
NextPart(n) ==
    LET run == calls.run[n]
    IN  /\ run.at = "done" /\ run.part < Batch.parts
        /\ calls' = [calls EXCEPT !.run[n] = [run EXCEPT !.at = "sent", !.part = 2, !.came = {},
                                                         !.got = Merged(run.came, run.got)]]
        /\ UNCHANGED <<screen, rows, past>>

\* The last part is done: the rows added are told.
Finish(n) ==
    LET run == calls.run[n]
        left == Batch.leaves = "always" \/ (Batch.leaves = "clean" /\ ~run.bad)
    IN  /\ run.at = "done" /\ run.part = Batch.parts
        /\ screen' = [screen EXCEPT !.told = @ \cup Merged(run.came, run.got), !.open = @ /\ ~left]
        /\ calls' = [calls EXCEPT !.run[n] = Idle]
        /\ past' = [past EXCEPT !.trouble = @ \/ run.bad]
        /\ UNCHANGED rows

\* A part is refused, or its answer is lost: the parts that follow are not sent.
Halt(n) ==
    LET run == calls.run[n]
    IN  /\ run.at \in {"sent", "done", "refused"}
        /\ screen' = [screen EXCEPT !.told = IF Batch.always THEN @ \cup run.got ELSE @]
        /\ calls' = [calls EXCEPT !.run[n] = Idle]
        /\ past' = [past EXCEPT !.halted = TRUE, !.trouble = TRUE,
                                !.lost = IF run.at = "done" THEN @ \cup run.came ELSE @]
        /\ UNCHANGED rows

Next ==
    \/ Choose \/ Check
    \/ \E list \in Lists : CheckAnswered(list) \/ CheckLost(list)
    \/ \E n \in Runs : Import(n) \/ Apply(n) \/ Refuse(n) \/ NextPart(n) \/ Finish(n) \/ Halt(n)

Spec == Init /\ [][Next]_batches

-----------------------------------------------------------------------------
(* Properties.  The screens each one names do otherwise; README says how.  *)

\* Nothing at the API tells a row of the list from one that was added before.
AddAgain == {"Applicants", "BulkForm", "Scale", "Divisions", "Enrolment"}

\* The button is back before the list is done with.
PressedAgain == {"Enrolment"}

\* The rows of a list are added once, however often it is sent; where the API
\* would add them again, only if something went wrong the first time.
FilledOnceAddedOnce ==
    (\E r \in Rows : rows[r] = 2) =>
        screen.kind \in AddAgain /\ (past.trouble \/ screen.kind \in PressedAgain)

\* The answers of the parts before are dropped with the part that failed.
DropReports == {"Students", "Staff", "Scale", "DefaultScale", "Divisions", "Enrolment"}

\* The user is told of every row added (and of its password), unless the answer
\* that said so was lost.
AddedIsTold ==
    (\A n \in Runs : calls.run[n].at = "none") =>
        \A r \in Rows : rows[r] > 0 /\ r \notin screen.told =>
            r \in past.lost \/ (past.halted /\ screen.kind \in DropReports)

\* A check that answers late is shown for the list chosen since.
ShowOldChecks == {"Lessons"}

\* What is imported was checked, where a check comes first.
CheckedIsImported == past.unchecked => screen.kind \in ShowOldChecks

=============================================================================
