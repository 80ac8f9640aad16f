----------------------------- MODULE ClientCache ------------------------------
(***************************************************************************)
(* The web client's cache of the API, an RTK Query service over Endpoints: *)
(* a query's answer is kept while a screen shows it and a minute longer,   *)
(* and read again only when a mutation ends whose tags meet the query's.   *)
(*                                                                         *)
(* A behaviour follows one query and one mutation that writes what the     *)
(* query reads, except the pairs that the tags leave out (Untold).  Rows   *)
(* are told apart by how often they have changed.                          *)
(***************************************************************************)
EXTENDS Endpoints, Naturals, FiniteSets

CONSTANTS
    Slots,          \* calls of the mutation that may be in flight at once
    MaxChanges      \* bound on the changes of the rows

VARIABLES
    screen,         \* the query, whether a screen shows it, its cache entry
    calls,          \* the query's fetch and the mutation's calls
    rows,           \* at the server: how often what the query reads has changed
    past            \* history: the last change the client had given up

cache == <<screen, calls, rows, past>>

-----------------------------------------------------------------------------
\* A query asks, the server reads, and the answer or an error ends it.
Idle == [at |-> "idle", data |-> 0]
Nothing == [held |-> FALSE, failed |-> FALSE, data |-> 0]

Init ==
    /\ \E q \in Asked : \E m \in {m \in Writers(q) : ~Untold(q, m)} :
          screen = [query |-> q, mutation |-> m, shown |-> FALSE, entry |-> Nothing, told |-> FALSE]
    /\ calls = [fetch |-> Idle, change |-> [s \in Slots |-> "none"]]
    /\ rows = 0
    /\ past = 0

Pending(c) == c.fetch # Idle \/ \E s \in Slots : c.change[s] \in {"sent", "done"}

TypeOK ==
    /\ screen.query \in Asked /\ screen.mutation \in Writers(screen.query)
    /\ screen.shown \in BOOLEAN /\ screen.told \in BOOLEAN
    /\ screen.entry \in [held : BOOLEAN, failed : BOOLEAN, data : 0..MaxChanges]
    /\ calls.fetch \in [at : {"idle", "sent", "read"}, data : 0..MaxChanges]
    /\ calls.change \in [Slots -> {"none", "sent", "done", "lost"}]
    /\ rows \in 0..MaxChanges /\ past \in 0..MaxChanges

\* The end of a query or mutation is when what was invalidated is dealt with,
\* once nothing is pending: a query on screen is asked again, another forgotten.
Settle(scr, c) ==
    IF scr.told /\ ~Pending(c)
    THEN /\ screen' = [scr EXCEPT !.told = FALSE,
                                  !.entry = IF scr.shown THEN @ ELSE Nothing]
         /\ calls' = IF scr.shown THEN [c EXCEPT !.fetch = [at |-> "sent", data |-> 0]] ELSE c
    ELSE screen' = scr /\ calls' = c

-----------------------------------------------------------------------------
(* Operations                                                              *)

\* A screen that comes up asks only if nothing is cached; what failed is asked
\* again.
Show ==
    /\ ~screen.shown
    /\ screen' = [screen EXCEPT !.shown = TRUE]
    /\ calls' = IF calls.fetch = Idle /\ (~screen.entry.held \/ screen.entry.failed)
                THEN [calls EXCEPT !.fetch = [at |-> "sent", data |-> 0]] ELSE calls
    /\ UNCHANGED <<rows, past>>

Leave ==
    /\ screen.shown
    /\ screen' = [screen EXCEPT !.shown = FALSE]
    /\ UNCHANGED <<calls, rows, past>>

\* keepUnusedDataFor
Expire ==
    /\ ~screen.shown /\ screen.entry # Nothing /\ calls.fetch = Idle
    /\ screen' = [screen EXCEPT !.entry = Nothing]
    /\ UNCHANGED <<calls, rows, past>>

Read ==
    /\ calls.fetch.at = "sent"
    /\ calls' = [calls EXCEPT !.fetch = [at |-> "read", data |-> rows]]
    /\ UNCHANGED <<screen, rows, past>>

Receive ==
    /\ calls.fetch.at = "read"
    /\ Settle([screen EXCEPT !.entry = [held |-> TRUE, failed |-> FALSE, data |-> calls.fetch.data]],
              [calls EXCEPT !.fetch = Idle])
    /\ UNCHANGED <<rows, past>>

\* An error leaves the data of the answer before.
Fail ==
    /\ calls.fetch # Idle
    /\ Settle([screen EXCEPT !.entry.held = TRUE, !.entry.failed = TRUE],
              [calls EXCEPT !.fetch = Idle])
    /\ UNCHANGED <<rows, past>>

Change(s) ==
    /\ calls.change[s] = "none"
    /\ calls' = [calls EXCEPT !.change[s] = "sent"]
    /\ UNCHANGED <<screen, rows, past>>

\* The server commits; it may after the client has given up.
Commit(s) ==
    /\ calls.change[s] \in {"sent", "lost"} /\ rows < MaxChanges
    /\ rows' = rows + 1
    /\ calls' = [calls EXCEPT !.change[s] = IF @ = "sent" THEN "done" ELSE "none"]
    /\ past' = IF calls.change[s] = "lost" THEN rows + 1 ELSE past
    /\ UNCHANGED screen

\* Fulfilled or rejected, a mutation invalidates its tags.
End(s) ==
    /\ calls.change[s] \in {"sent", "done"}
    /\ \E left \in IF calls.change[s] = "sent" THEN {"none", "lost"} ELSE {"none"} :
          Settle([screen EXCEPT !.told = @ \/ Meet(screen.query, screen.mutation)],
                 [calls EXCEPT !.change[s] = left])
    /\ UNCHANGED <<rows, past>>

\* A request the server never saw, or refused.
Forget(s) ==
    /\ calls.change[s] = "lost"
    /\ calls' = [calls EXCEPT !.change[s] = "none"]
    /\ UNCHANGED <<screen, rows, past>>

Next ==
    \/ Show \/ Leave \/ Expire \/ Read \/ Receive \/ Fail
    \/ \E s \in Slots : Change(s) \/ Commit(s) \/ End(s) \/ Forget(s)

Spec == Init /\ [][Next]_cache

-----------------------------------------------------------------------------
(* Properties                                                              *)

\* Once nothing is under way, a screen shows the rows as this client left them,
\* unless a request it had given up was carried out after all (invalidatesTags).
QuietIsCurrent ==
    (screen.shown /\ ~screen.entry.failed /\ ~Pending(calls)) =>
        \/ screen.entry.data = rows
        \/ past > screen.entry.data

=============================================================================
