-------------------------------- MODULE WebApp --------------------------------
(***************************************************************************)
(* The screens of the web client.  What goes wrong on one screen does not  *)
(* need another, so every behaviour follows one of them: the session of a  *)
(* page, a screen and the cache behind it, a form, a list of rows to add,  *)
(* a screen that looks at one of several places, or a list in pages.       *)
(***************************************************************************)
EXTENDS Naturals

CONSTANTS
    Slots,          \* calls of a mutation that may be in flight at once
    MaxChanges,     \* bound on the changes of the rows behind the cache
    Asks,           \* requests of a screen that may be refused at once
    MaxTokens       \* bound on the refresh tokens issued

\* The browser may come with one token.
ASSUME TokensAssumption == MaxTokens \in Nat \ {0} /\ MaxChanges \in Nat

VARIABLES
    page,           \* which kind of screen
    screen,         \* what it shows and what the user has typed
    calls,          \* its requests
    rows,           \* what the API holds
    past            \* history

web == <<page, screen, calls, rows, past>>

Session == INSTANCE ClientSession
Cache == INSTANCE ClientCache
Forms == INSTANCE ClientForms
Batches == INSTANCE ClientBatches
Grids == INSTANCE ClientGrids
Paged == INSTANCE ClientPages

Init ==
    \/ page = "session" /\ Session!Init
    \/ page = "cache" /\ Cache!Init
    \/ page = "form" /\ Forms!Init
    \/ page = "batch" /\ Batches!Init
    \/ page = "grid" /\ Grids!Init
    \/ page = "paged" /\ Paged!Init

Next ==
    /\ UNCHANGED page
    /\ \/ page = "session" /\ Session!Next
       \/ page = "cache" /\ Cache!Next
       \/ page = "form" /\ Forms!Next
       \/ page = "batch" /\ Batches!Next
       \/ page = "grid" /\ Grids!Next
       \/ page = "paged" /\ Paged!Next

\* Requests end, effects run, and what is refused is dealt with.
Progress == page = "session" /\ Session!Progress /\ UNCHANGED page

Spec == Init /\ [][Next]_web /\ WF_web(Progress)

-----------------------------------------------------------------------------
(* Properties.  The screens that do otherwise are named in the modules.    *)

TypeOK ==
    /\ page = "session" => Session!TypeOK
    /\ page = "cache" => Cache!TypeOK
    /\ page = "form" => Forms!TypeOK
    /\ page = "batch" => Batches!TypeOK
    /\ page = "grid" => Grids!TypeOK
    /\ page = "paged" => Paged!TypeOK

\* Once nothing is under way, a screen shows what the API holds, as far as this
\* client changed it (invalidatesTags), for the place it looks at.
QuietIsCurrent ==
    /\ page = "cache" => Cache!QuietIsCurrent
    /\ page = "grid" => Grids!QuietIsShown

\* The API ends a session as stolen, and a page that has signed out is signed in
\* again, only after an answer was lost or cookies were in use twice at once
\* (refreshInFlight, useLogout).
SessionEndsForAReason ==
    page = "session" => Session!NoFalseReuse /\ Session!SignedOutStaysOut

\* The entry page settles, and no request and no sign-in waits for ever for a refresh.
SessionSettles ==
    /\ (page = "session") ~> (page = "session" => Session!Settled)
    /\ \A r \in Asks : LET Waits == page = "session" /\ Session!Waits(r)
                       IN  Waits ~> ~Waits
    /\ LET Waits == page = "session" /\ Session!SignWaits IN Waits ~> ~Waits

\* What is typed goes only by saving, leaving or closing it, and a form opens with
\* what is there, not with what was typed and abandoned before.
DraftsAreTheUsers == page = "form" => Forms!TypedIsKept /\ Forms!OpensAsShown

\* What is filled in once, one row or a list, is added once, however often the
\* button is pressed and the list is sent.
FilledOnceAddedOnce ==
    /\ page = "form" => Forms!FilledOnceAddedOnce
    /\ page = "batch" => Batches!FilledOnceAddedOnce

\* The user is told of every row of a list that was added.
AddedIsTold == page = "batch" => Batches!AddedIsTold

\* What is saved is what the screen shows, where it shows it: the class, year or
\* lesson chosen, the list that was checked, each page of a list once.
SavedWhereShown ==
    /\ page = "form" => Forms!SavedWhereShown
    /\ page = "grid" => Grids!SavedWhereShown
    /\ page = "batch" => Batches!CheckedIsImported
    /\ page = "paged" => Paged!PagesFollow

=============================================================================
