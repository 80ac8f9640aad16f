---------------------------- MODULE Entitlements ----------------------------
(***************************************************************************)
(* The modules a school may use: services/subscription_service.py, the     *)
(* Redis cache of cache_service.py and the claims that require_module      *)
(* checks, for one tenant.                                                 *)
(*                                                                         *)
(* The truth is school_module_subscriptions.  Readers (login, refresh, the *)
(* school detail) take the cached set or read the rows and fill the cache; *)
(* replace_modules writes the cache before its transaction commits.        *)
(* Access is decided by the claims of a JWT, built on login and refresh.   *)
(***************************************************************************)
EXTENDS Integers

CONSTANTS
    Modules, Core,
    Users,          \* accounts of the tenant
    Allowed,        \* allowed_modules per user; None: unrestricted or school_admin
    Reqs,           \* request handlers that may be in flight at once
    MaxReplaces,    \* bound: module replacements
    MaxFailures,    \* bound: requests that are rolled back
    None

ASSUME ConstantsAssumption ==
    /\ Core \in Modules
    /\ Allowed \in [Users -> {None} \cup (SUBSET Modules)]
    /\ MaxReplaces \in Nat /\ MaxFailures \in Nat
    /\ None \notin Modules \cup Users

VARIABLES
    sub,        \* modules with an active subscription row (committed)
    row,        \* the latest row of each module: an activation inserts a new one
    cache,      \* tenant:<id>:modules in Redis
    claims,     \* modules in each user's access token
    balance,    \* subscription_change_log: activations less deactivations
    req,        \* what each request handler holds
    replaces, failures,     \* replacements and failures so far, for the bounds
    meant,      \* history: the set the last committed replacement asked for
    current,    \* history: modules active at some time while a user's claims
                \* were being built
    overlaps    \* history: what a replacement in flight has overlapped with

vars == <<sub, row, cache, claims, balance, req, replaces, failures, meant, current, overlaps>>
history == <<replaces, failures, meant, overlaps>>

-----------------------------------------------------------------------------
Sets == {S \in SUBSET Modules : Core \in S}     \* _ensure_core

Idle == [op |-> "idle", at |-> "idle", user |-> None, rows |-> {}, ids |-> [m \in Modules |-> 0],
         target |-> {}, seen |-> {}]

Requests == [op : {"idle", "claims", "replace"}, at : {"idle", "rows", "read", "cached", "ready"},
             user : Users \cup {None}, rows : SUBSET Modules, ids : [Modules -> Nat],
             target : SUBSET Modules, seen : SUBSET Modules]

\* effective_module_keys
Effective(u, modules) ==
    IF Allowed[u] = None THEN modules ELSE modules \cap (Allowed[u] \cup {Core})

\* Onboarding creates the first subscriptions and warms the cache after its commit.
Init ==
    /\ sub \in Sets
    /\ row = [m \in Modules |-> 0]
    /\ cache \in {None, sub}
    /\ claims = [u \in Users |-> None]
    /\ balance = [m \in Modules |-> IF m \in sub THEN 1 ELSE 0]
    /\ req = [r \in Reqs |-> Idle]
    /\ replaces = 0 /\ failures = 0
    /\ meant = sub
    /\ current = [u \in Users |-> {}]
    /\ overlaps = {}

\* A request of kind op begins while others are in flight.
Overlap(op) ==
    LET others == {req[r].op : r \in Reqs} \ {"idle"}
    IN  overlaps' = overlaps \cup (IF op = "replace" THEN others ELSE
                                   IF "replace" \in others THEN {op} ELSE {})

\* Claims are issued; what was active while they were built is remembered.
Issue(r, u, modules) ==
    /\ claims' = [claims EXCEPT ![u] = Effective(u, modules)]
    /\ current' = [current EXCEPT ![u] = req[r].seen \cup sub]
    /\ req' = [req EXCEPT ![r] = Idle]

\* Handlers that are building claims see the subscriptions change.
SeenBy(rs, modules) ==
    [r \in Reqs |-> IF rs[r].op = "claims" THEN [rs[r] EXCEPT !.seen = @ \cup modules] ELSE rs[r]]

-----------------------------------------------------------------------------
(* Faulty variants: what the properties must catch.                        *)

\* Redis without a TTL.
CacheExpireNever == FALSE /\ UNCHANGED vars

\* A replacement that leaves the removed modules active.
ReplaceCommitAddsOnly(r) ==
    /\ req[r].op = "replace" /\ req[r].at = "cached"
    /\ LET added == req[r].target \ req[r].rows
       IN  /\ sub' = sub \cup added
           /\ balance' = [m \in Modules |-> balance[m] + (IF m \in added THEN 1 ELSE 0)]
           /\ meant' = req[r].target
           /\ req' = SeenBy([req EXCEPT ![r] = Idle], sub')
    /\ UNCHANGED <<row, cache, claims, replaces, failures, current, overlaps>>

\* A replacement that does not touch the cache.
ReplaceCacheSkipped(r) ==
    /\ req[r].op = "replace" /\ req[r].at = "read"
    /\ req' = [req EXCEPT ![r].at = "cached"]
    /\ UNCHANGED <<sub, row, cache, claims, balance, current, history>>

\* An outer join with the catalogue: a row without a module key.
ReadRowsOuter(r) ==
    /\ req[r].op = "claims" /\ req[r].at = "rows"
    /\ req' = [req EXCEPT ![r].rows = sub \cup {None}, ![r].at = "cached"]
    /\ UNCHANGED <<sub, row, cache, claims, balance, current, history>>

-----------------------------------------------------------------------------
(* get_active_module_keys, and the claims built from it                    *)

ReadCache(r, u) ==
    /\ req[r] = Idle
    /\ req' = [req EXCEPT ![r] =
          IF cache = None THEN [Idle EXCEPT !.op = "claims", !.at = "rows", !.user = u, !.seen = sub]
          ELSE [Idle EXCEPT !.op = "claims", !.at = "ready", !.user = u, !.rows = cache, !.seen = sub]]
    /\ Overlap("claims")
    /\ UNCHANGED <<sub, row, cache, claims, balance, current, replaces, failures, meant>>

ReadRows(r) ==
    /\ req[r].op = "claims" /\ req[r].at = "rows"
    /\ req' = [req EXCEPT ![r].rows = sub, ![r].at = "cached"]
    /\ UNCHANGED <<sub, row, cache, claims, balance, current, history>>

FillCache(r) ==
    /\ req[r].op = "claims" /\ req[r].at = "cached"
    /\ cache' = req[r].rows
    /\ req' = [req EXCEPT ![r].at = "ready"]
    /\ UNCHANGED <<sub, row, claims, balance, current, history>>

IssueClaims(r) ==
    /\ req[r].op = "claims" /\ req[r].at = "ready"
    /\ Issue(r, req[r].user, req[r].rows)
    /\ UNCHANGED <<sub, row, cache, balance, history>>

-----------------------------------------------------------------------------
(* replace_modules                                                         *)

ReplaceRead(r, target) ==
    /\ req[r] = Idle /\ replaces < MaxReplaces
    /\ replaces' = replaces + 1
    /\ req' = [req EXCEPT ![r] = [Idle EXCEPT !.op = "replace", !.at = "read",
                                     !.rows = sub, !.ids = row, !.target = target]]
    /\ Overlap("replace")
    /\ UNCHANGED <<sub, row, cache, claims, balance, failures, meant, current>>

\* The cache is set first (and read back for the response) ...
ReplaceCache(r) ==
    /\ req[r].op = "replace" /\ req[r].at = "read"
    /\ cache' = req[r].target
    /\ req' = [req EXCEPT ![r].at = "cached"]
    /\ UNCHANGED <<sub, row, claims, balance, current, history>>

\* ... and the commit flushes the rows: one active row per module is unique,
\* so a module somebody else has activated since makes it fail, and
\* deactivation updates the rows that were loaded, not ones inserted since.
ReplaceCommit(r) ==
    /\ req[r].op = "replace" /\ req[r].at = "cached"
    /\ LET added == req[r].target \ req[r].rows
           removed == req[r].rows \ req[r].target
           hit == {m \in removed : row[m] = req[r].ids[m]}
       IN  IF added \cap sub # {}
           THEN /\ req' = [req EXCEPT ![r] = Idle]
                /\ UNCHANGED <<sub, row, balance, meant>>
           ELSE /\ sub' = (sub \ hit) \cup added
                /\ row' = [m \in Modules |-> IF m \in added THEN row[m] + 1 ELSE row[m]]
                /\ balance' = [m \in Modules |-> balance[m] + (IF m \in added THEN 1 ELSE 0)
                                                            - (IF m \in removed THEN 1 ELSE 0)]
                /\ meant' = req[r].target
                /\ req' = SeenBy([req EXCEPT ![r] = Idle], sub')
    /\ UNCHANGED <<cache, claims, replaces, failures, current, overlaps>>

\* An error, a lost connection or a crash: what is in Redis stays.
Rollback(r) ==
    /\ req[r] # Idle /\ failures < MaxFailures
    /\ failures' = failures + 1
    /\ req' = [req EXCEPT ![r] = Idle]
    /\ UNCHANGED <<sub, row, cache, claims, balance, replaces, meant, current, overlaps>>

-----------------------------------------------------------------------------
(* Time                                                                    *)

\* TTL_MODULES has passed; five minutes outlast the request that set the key.
CacheExpire ==
    /\ cache # None
    /\ \A r \in Reqs : ~(req[r].op = "replace" /\ req[r].at = "cached")
    /\ cache' = None
    /\ UNCHANGED <<sub, row, claims, balance, req, current, history>>

\* The access token has expired.
ClaimsExpire(u) ==
    /\ claims[u] # None
    /\ claims' = [claims EXCEPT ![u] = None]
    /\ UNCHANGED <<sub, row, cache, balance, req, current, history>>

-----------------------------------------------------------------------------
Handle(r) == ReadRows(r) \/ FillCache(r) \/ IssueClaims(r)
             \/ ReplaceCache(r) \/ ReplaceCommit(r)

Next ==
    \/ \E r \in Reqs :
          \/ \E u \in Users : ReadCache(r, u)
          \/ \E target \in Sets : ReplaceRead(r, target)
          \/ Handle(r) \/ Rollback(r)
    \/ CacheExpire
    \/ \E u \in Users : ClaimsExpire(u)

\* A handler goes on, Redis drops what is past its TTL and tokens expire; that
\* requests arrive is not assumed.
Fairness ==
    /\ \A r \in Reqs : WF_vars(Handle(r))
    /\ WF_vars(CacheExpire)
    /\ \A u \in Users : WF_vars(ClaimsExpire(u))

Spec == Init /\ [][Next]_vars /\ Fairness

-----------------------------------------------------------------------------
(* Properties                                                              *)

\* Sets of modules everywhere, in the rows, the cache and the tokens.
TypeOK ==
    /\ sub \in SUBSET Modules
    /\ row \in [Modules -> Nat]
    /\ cache \in {None} \cup (SUBSET Modules)
    /\ claims \in [Users -> {None} \cup (SUBSET Modules)]
    /\ balance \in [Modules -> Int]
    /\ req \in [Reqs -> Requests]

\* The cache that ran ahead of, or behind, the subscriptions ends up right: once
\* replacements have stopped, cache and claims agree with the rows for good.
Converges ==
    <>[](/\ cache \in {None, sub}
         /\ \A u \in Users : claims[u] \in {None, Effective(u, sub)})

\* What is active is what the last committed replacement asked for
\* (subscription_service.py line 112: "Replace the active module set"), unless
\* two replacements have overlapped.
ReplaceInstalls == "replace" \notin overlaps => sub = meant

\* The change log adds up to the active set, unless two replacements have
\* overlapped.
LogBalances ==
    "replace" \notin overlaps =>
        \A m \in Modules : balance[m] = IF m \in sub THEN 1 ELSE 0

\* So a replacement that overlaps with no other is exact, in the rows and in the log.
ReplacementsAreExact == ReplaceInstalls /\ LogBalances

\* Claims contain only modules that were active at some time while they were
\* built (build_claims: "from current DB state"), unless a replacement has
\* overlapped with another request or was rolled back.
ClaimsAreCurrent ==
    overlaps = {} /\ failures = 0 =>
        \A u \in Users : claims[u] # None => claims[u] \subseteq current[u]

=============================================================================
