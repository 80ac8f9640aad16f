---------------------------- MODULE AuthSessions ----------------------------
(***************************************************************************)
(* The life of refresh tokens: services/auth_service.py with the account   *)
(* mutations of tenant_user_service.py and platform_admin_service.py that  *)
(* revoke them.                                                            *)
(*                                                                         *)
(* Every HTTP request runs in one PostgreSQL transaction at READ           *)
(* COMMITTED, so a request is a process of several steps: it reads         *)
(* committed rows, flushes inserts nobody else can see, and commits.       *)
(* ORM attribute writes are flushed by the commit, and an attribute set to *)
(* the value that was loaded is not written at all.  The bulk UPDATE that  *)
(* revokes an account's tokens runs earlier and holds its row locks until  *)
(* the commit.                                                             *)
(*                                                                         *)
(* The Redis keys session:refresh:<hash> that issuing sets and rotation or *)
(* logout deletes are left out: no code reads them.                        *)
(***************************************************************************)
EXTENDS Naturals, FiniteSets

CONSTANTS
    Users,      \* accounts (tenant users or platform administrators)
    Tokens,     \* refresh tokens that can ever be drawn
    Reqs,       \* request handlers that may be in flight at once
    MaxEpoch,   \* bound: password changes per account
    None

ASSUME ConstantsAssumption ==
    /\ None \notin Users \cup Tokens
    /\ MaxEpoch \in Nat

VARIABLES
    row,         \* refresh_tokens: "free" (no row), "open" (inserted, not
                 \* committed), "live", "expired" (expires_at passed), "revoked"
    owner,       \* refresh_tokens.user_id
    next,        \* refresh_tokens.replaced_by
    active,      \* account status: active / is_active
    mustChange,  \* account flag must_change_password
    epoch,       \* stands for password_hash: number of passwords set so far
    req,         \* what each request handler holds
    parent,      \* history: the token whose presentation issued this one
    family,      \* history: the token of the sign-in its chain started with
    under,       \* history: the epoch of the password behind a token
    doomed       \* history: tokens a committed bulk revocation had found live

rowVars     == <<row, owner, next, parent, family, under>>
accountVars == <<active, mustChange, epoch>>
vars == <<row, owner, next, active, mustChange, epoch,
          req, parent, family, under, doomed>>

-----------------------------------------------------------------------------
(* Requests                                                                *)

RevokingOps == {"reuse", "disable", "reset", "change"}
Ops == {"login", "rotate", "logout"} \cup RevokingOps
Steps == {"idle", "read", "sweeping", "swept", "issued"}

Idle == [op |-> "login", at |-> "idle", user |-> None, token |-> None,
         fresh |-> None, target |-> {}, epoch |-> 0,
         active |-> TRUE, mustChange |-> FALSE]

Requests == [op : Ops, at : Steps, user : Users \cup {None},
             token : Tokens \cup {None}, fresh : Tokens \cup {None},
             target : SUBSET Tokens, epoch : Nat, active : BOOLEAN, mustChange : BOOLEAN]

Request(o, u, t) ==
    [Idle EXCEPT !.op = o, !.at = "read", !.user = u, !.token = t]

Unrevoked == {"live", "expired"}        \* revoked_at IS NULL
Committed(t) == row[t] \in Unrevoked \cup {"revoked"}

\* The bound on password changes, counting the ones in flight.
MayChangePassword(u) ==
    epoch[u] + Cardinality({r \in Reqs : req[r].at # "idle" /\ req[r].user = u
                                         /\ req[r].op \in {"reset", "change"}}) < MaxEpoch

\* Rows r's bulk UPDATE has locked: until it commits nobody else updates them.
LockedByOther(r, t) ==
    \E q \in Reqs \ {r} : req[q].at \in {"swept", "issued"} /\ t \in req[q].target

-----------------------------------------------------------------------------
(* The rows a request inserts, changes and commits                         *)

\* issue_tokens: a row is flushed, then the Redis key is set, before the commit.
IssueToken(r, t, u, from, pw) ==
    /\ row[t] = "free"
    /\ row' = [row EXCEPT ![t] = "open"]
    /\ owner' = [owner EXCEPT ![t] = u]
    /\ parent' = [parent EXCEPT ![t] = from]
    /\ family' = [family EXCEPT ![t] = IF from = None THEN t ELSE family[from]]
    /\ under' = [under EXCEPT ![t] = pw]
    /\ req' = [req EXCEPT ![r].fresh = t, ![r].at = "issued"]
    /\ UNCHANGED next

\* The UPDATE ... WHERE user_id = u AND revoked_at IS NULL sees committed rows.
UnrevokedOf(u) == {t \in Tokens : row[t] \in Unrevoked /\ owner[t] = u}

\* Faulty: accounts created without a value for must_change_password.
InitNullFlag ==
    /\ row = [t \in Tokens |-> "free"]
    /\ owner = [t \in Tokens |-> None]
    /\ next = [t \in Tokens |-> None]
    /\ active = [u \in Users |-> TRUE]
    /\ mustChange = [u \in Users |-> None]
    /\ epoch = [u \in Users |-> 0]
    /\ req = [r \in Reqs |-> Idle]
    /\ parent = [t \in Tokens |-> None]
    /\ family = [t \in Tokens |-> None]
    /\ under = [t \in Tokens |-> 0]
    /\ doomed = {}

Init ==
    /\ row = [t \in Tokens |-> "free"]
    /\ owner = [t \in Tokens |-> None]
    /\ next = [t \in Tokens |-> None]
    /\ active = [u \in Users |-> TRUE]
    /\ mustChange = [u \in Users |-> TRUE]
    /\ epoch = [u \in Users |-> 0]
    /\ req = [r \in Reqs |-> Idle]
    /\ parent = [t \in Tokens |-> None]
    /\ family = [t \in Tokens |-> None]
    /\ under = [t \in Tokens |-> 0]
    /\ doomed = {}

-----------------------------------------------------------------------------
(* Faulty variants of the actions below: what the properties must catch.   *)

\* A rotation that does not look at revoked_at.
RotateReadAny(r, t) ==
    /\ req[r].at = "idle"
    /\ row[t] \in {"live", "revoked"}
    /\ req' = [req EXCEPT ![r] = Request("rotate", owner[t], t)]
    /\ UNCHANGED <<rowVars, accountVars, doomed>>

\* A rotation that links the replacement but leaves the presented token usable.
RotateCommitKeepsOld(r) ==
    /\ req[r].op = "rotate" /\ req[r].at = "issued"
    /\ row' = [row EXCEPT ![req[r].fresh] = "live"]
    /\ next' = [next EXCEPT ![req[r].token] = req[r].fresh]
    /\ req' = [req EXCEPT ![r] = Idle]
    /\ UNCHANGED <<owner, parent, family, under, accountVars, doomed>>

\* Only reuse revokes the account's tokens.
SweepStartReuseOnly(r) ==
    /\ req[r].op \in RevokingOps /\ req[r].at = "read"
    /\ req' = [req EXCEPT ![r].at = "sweeping",
                ![r].target = IF req[r].op = "reuse" THEN UnrevokedOf(req[r].user) ELSE {}]
    /\ UNCHANGED <<rowVars, accountVars, doomed>>

\* Reuse revokes the presented token alone.
SweepStartOneToken(r) ==
    /\ req[r].op \in RevokingOps /\ req[r].at = "read"
    /\ req' = [req EXCEPT ![r].at = "sweeping",
                ![r].target = IF req[r].op = "reuse" THEN {} ELSE UnrevokedOf(req[r].user)]
    /\ UNCHANGED <<rowVars, accountVars, doomed>>

\* A reset that does not raise the flag.
AccountWriteSilentReset(r) ==
    LET u == req[r].user IN
    /\ active' = [x \in Users |-> IF x = u /\ req[r].op = "disable" THEN FALSE ELSE active[x]]
    /\ epoch' = [x \in Users |-> IF x = u /\ req[r].op \in {"reset", "change"}
                                 THEN epoch[x] + 1 ELSE epoch[x]]
    /\ mustChange' = [x \in Users |-> IF x = u /\ req[r].op = "change"
                                      THEN FALSE ELSE mustChange[x]]

\* A bulk revocation that writes only the rows still unexpired.
RevokeCommitSkipsExpired(r) ==
    LET u == req[r].user IN
    /\ req[r].op \in RevokingOps
    /\ req[r].at = IF req[r].op = "change" THEN "issued" ELSE "swept"
    /\ row' = [t \in Tokens |-> IF t \in req[r].target /\ row[t] = "live" THEN "revoked"
                                ELSE IF t = req[r].fresh THEN "live" ELSE row[t]]
    /\ doomed' = doomed \cup req[r].target
    /\ AccountWriteSilentReset(r)
    /\ req' = [req EXCEPT ![r] = Idle]
    /\ UNCHANGED <<owner, next, parent, family, under>>

-----------------------------------------------------------------------------
(* POST /auth/{platform,tenant}/login                                      *)

\* The account is read and its password verified; claims are built from the
\* same loaded object, and the token is issued.
LoginRead(r, u) ==
    /\ req[r].at = "idle"
    /\ active[u]
    /\ req' = [req EXCEPT ![r] = [Request("login", u, None) EXCEPT !.epoch = epoch[u]]]
    /\ UNCHANGED <<rowVars, accountVars, doomed>>

LoginIssue(r, t) ==
    /\ req[r].op = "login" /\ req[r].at = "read"
    /\ IssueToken(r, t, req[r].user, None, req[r].epoch)
    /\ UNCHANGED <<accountVars, doomed>>

LoginCommit(r) ==
    /\ req[r].op = "login" /\ req[r].at = "issued"
    /\ row' = [row EXCEPT ![req[r].fresh] = "live"]
    /\ req' = [req EXCEPT ![r] = Idle]
    /\ UNCHANGED <<owner, next, parent, family, under, accountVars, doomed>>

-----------------------------------------------------------------------------
(* POST /auth/refresh                                                      *)

\* rotate_tokens reads the presented row.  A revoked row means reuse, whatever
\* its age; an expired one is refused.
RotateRead(r, t) ==
    /\ req[r].at = "idle"
    /\ \/ row[t] = "live"
          /\ req' = [req EXCEPT ![r] = Request("rotate", owner[t], t)]
       \/ row[t] = "revoked"
          /\ req' = [req EXCEPT ![r] = Request("reuse", owner[t], t)]
    /\ UNCHANGED <<rowVars, accountVars, doomed>>

\* build_claims reads the account now; the replacement is issued to it.
RotateIssue(r, t) ==
    /\ req[r].op = "rotate" /\ req[r].at = "read"
    /\ active[req[r].user]
    /\ IssueToken(r, t, req[r].user, req[r].token, under[req[r].token])
    /\ UNCHANGED <<accountVars, doomed>>

\* The presented row is overwritten whatever it has become meanwhile; its Redis
\* key goes before the commit.
RotateCommit(r) ==
    LET old == req[r].token new == req[r].fresh IN
    /\ req[r].op = "rotate" /\ req[r].at = "issued"
    /\ ~LockedByOther(r, old)
    /\ row' = [row EXCEPT ![old] = "revoked", ![new] = "live"]
    /\ next' = [next EXCEPT ![old] = new]
    /\ req' = [req EXCEPT ![r] = Idle]
    /\ UNCHANGED <<owner, parent, family, under, accountVars, doomed>>

-----------------------------------------------------------------------------
(* POST /auth/logout                                                       *)

LogoutRead(r, t) ==
    /\ req[r].at = "idle"
    /\ Committed(t)
    /\ req' = [req EXCEPT ![r] = [Request("logout", owner[t], t)
                                  EXCEPT !.target = {x \in {t} : row[x] \in Unrevoked}]]
    /\ UNCHANGED <<rowVars, accountVars, doomed>>

\* revoked_at is written only when the row was read live.
LogoutCommit(r) ==
    LET seen == req[r].target IN
    /\ req[r].op = "logout" /\ req[r].at = "read"
    /\ \A t \in seen : ~LockedByOther(r, t)
    /\ row' = [t \in Tokens |-> IF t \in seen THEN "revoked" ELSE row[t]]
    /\ req' = [req EXCEPT ![r] = Idle]
    /\ UNCHANGED <<owner, next, parent, family, under, accountVars, doomed>>

-----------------------------------------------------------------------------
(* Requests that revoke every token of an account                          *)

\* update_user / update_admin with a disabling status; delete_admin.
DisableRead(r, u) ==
    /\ req[r].at = "idle"
    /\ req' = [req EXCEPT ![r] = [Request("disable", u, None) EXCEPT !.active = active[u]]]
    /\ UNCHANGED <<rowVars, accountVars, doomed>>

\* reset_user_password / reset_admin_password refuse a disabled account.
ResetRead(r, u) ==
    /\ req[r].at = "idle"
    /\ active[u] /\ MayChangePassword(u)
    /\ req' = [req EXCEPT ![r] = [Request("reset", u, None)
                                  EXCEPT !.mustChange = mustChange[u]]]
    /\ UNCHANGED <<rowVars, accountVars, doomed>>

\* change_password: the current password is verified against the row read.
ChangeRead(r, u) ==
    /\ req[r].at = "idle"
    /\ active[u] /\ MayChangePassword(u)
    /\ req' = [req EXCEPT ![r] = [Request("change", u, None)
                                  EXCEPT !.mustChange = mustChange[u]]]
    /\ UNCHANGED <<rowVars, accountVars, doomed>>

\* The bulk UPDATE takes its snapshot ...
SweepStart(r) ==
    /\ req[r].op \in RevokingOps /\ req[r].at = "read"
    /\ req' = [req EXCEPT ![r].at = "sweeping", ![r].target = UnrevokedOf(req[r].user)]
    /\ UNCHANGED <<rowVars, accountVars, doomed>>

\* ... and waits for rows another bulk UPDATE has locked.
SweepLocks(r) ==
    /\ req[r].at = "sweeping"
    /\ \A t \in req[r].target : ~LockedByOther(r, t)
    /\ req' = [req EXCEPT ![r].at = "swept"]
    /\ UNCHANGED <<rowVars, accountVars, doomed>>

\* change_password answers with tokens issued under the new password.
ChangeIssue(r, t) ==
    /\ req[r].op = "change" /\ req[r].at = "swept"
    /\ IssueToken(r, t, req[r].user, None, req[r].epoch)
    /\ UNCHANGED <<accountVars, doomed>>

\* What the revoking requests write to the account.
AccountWrite(r) ==
    LET u == req[r].user IN
    CASE req[r].op = "disable" ->
            /\ active' = [active EXCEPT ![u] = IF req[r].active THEN FALSE ELSE @]
            /\ UNCHANGED <<mustChange, epoch>>
      [] req[r].op = "reset" ->
            /\ epoch' = [epoch EXCEPT ![u] = @ + 1]
            /\ mustChange' = [mustChange EXCEPT ![u] = IF req[r].mustChange THEN @ ELSE TRUE]
            /\ UNCHANGED active
      [] req[r].op = "change" ->
            /\ epoch' = [epoch EXCEPT ![u] = @ + 1]
            /\ mustChange' = [mustChange EXCEPT ![u] = IF req[r].mustChange THEN FALSE ELSE @]
            /\ UNCHANGED active
      [] OTHER -> UNCHANGED accountVars

RevokeCommit(r) ==
    LET gone == req[r].target fresh == req[r].fresh IN
    /\ req[r].op \in RevokingOps
    /\ req[r].at = IF req[r].op = "change" THEN "issued" ELSE "swept"
    /\ row' = [t \in Tokens |-> IF t \in gone THEN "revoked"
                                ELSE IF t = fresh THEN "live" ELSE row[t]]
    /\ doomed' = doomed \cup gone
    /\ under' = [t \in Tokens |-> IF t = fresh THEN epoch[req[r].user] + 1 ELSE under[t]]
    /\ AccountWrite(r)
    /\ req' = [req EXCEPT ![r] = Idle]
    /\ UNCHANGED <<owner, next, parent, family>>

-----------------------------------------------------------------------------
(* The rest                                                                *)

\* update_user / update_admin with an activating status touch no token.
Enable(u) ==
    /\ ~active[u]
    /\ active' = [active EXCEPT ![u] = TRUE]
    /\ UNCHANGED <<rowVars, mustChange, epoch, req, doomed>>

Expire(t) ==
    /\ row[t] = "live"
    /\ row' = [row EXCEPT ![t] = "expired"]
    /\ UNCHANGED <<owner, next, parent, family, under, accountVars, req, doomed>>

\* An exception, a refused check or a crash before the commit: the transaction
\* rolls back.
Rollback(r) ==
    LET Forget(f, default) == [t \in Tokens |-> IF t = req[r].fresh THEN default ELSE f[t]] IN
    /\ req[r].at # "idle"
    /\ row' = Forget(row, "free")
    /\ owner' = Forget(owner, None)
    /\ parent' = Forget(parent, None)
    /\ family' = Forget(family, None)
    /\ under' = Forget(under, 0)
    /\ req' = [req EXCEPT ![r] = Idle]
    /\ UNCHANGED <<next, accountVars, doomed>>

Step(r) ==
    \/ \E t \in Tokens : LoginIssue(r, t) \/ RotateIssue(r, t) \/ ChangeIssue(r, t)
    \/ LoginCommit(r) \/ RotateCommit(r) \/ LogoutCommit(r)
    \/ SweepStart(r) \/ SweepLocks(r) \/ RevokeCommit(r)

Next ==
    \/ \E r \in Reqs :
          \/ Step(r) \/ Rollback(r)
          \/ \E u \in Users :
                LoginRead(r, u) \/ DisableRead(r, u) \/ ResetRead(r, u) \/ ChangeRead(r, u)
          \/ \E t \in Tokens : RotateRead(r, t) \/ LogoutRead(r, t)
    \/ \E u \in Users : Enable(u)
    \/ \E t \in Tokens : Expire(t)

Spec == Init /\ [][Next]_vars

-----------------------------------------------------------------------------
(* Properties that hold however requests overlap                           *)

TypeOK ==
    /\ row \in [Tokens -> {"free", "open", "live", "expired", "revoked"}]
    /\ owner \in [Tokens -> Users \cup {None}]
    /\ next \in [Tokens -> Tokens \cup {None}]
    /\ parent \in [Tokens -> Tokens \cup {None}]
    /\ family \in [Tokens -> Tokens \cup {None}]
    /\ under \in [Tokens -> Nat]
    /\ doomed \subseteq Tokens
    /\ active \in [Users -> BOOLEAN] /\ mustChange \in [Users -> BOOLEAN]
    /\ epoch \in [Users -> Nat]
    /\ req \in [Reqs -> Requests]

\* A chain of rotations has one usable end: once a replacement is committed the
\* token presented for it is revoked, and both belong to one account
\* (auth_service.rotate_tokens).
ChainHasOneEnd ==
    \A t \in Tokens : parent[t] # None /\ Committed(t) =>
        row[parent[t]] = "revoked" /\ owner[parent[t]] = owner[t]

\* replaced_by links a revoked token to a committed token issued for it
\* (auth_service.rotate_tokens, the audit trail of a rotation).
ReplacedByIsSuccessor ==
    \A t \in Tokens : next[t] # None =>
        row[t] = "revoked" /\ Committed(next[t]) /\ parent[next[t]] = t

\* Whatever a committed bulk revocation found live never works again, though
\* rotations and logouts in flight write to the same rows
\* (auth_service._revoke_all_for_user, tenant_user_service._revoke_tokens).
DoomedStayRevoked == \A t \in doomed : row[t] = "revoked"

-----------------------------------------------------------------------------
(* Properties of requests that do not overlap.  The violation run checks   *)
(* one of them with overlapping requests.                                  *)

\* A refresh token is exchanged at most once (auth_service.py:3-5).
Successors(t) == {s \in Tokens : parent[s] = t /\ Committed(s)}
SingleUse == \A t \in Tokens : Cardinality(Successors(t)) <= 1

\* Every usable token was obtained with the password now in force (reset and
\* change of password revoke the rest).
TokensOfCurrentPassword ==
    \A t \in Tokens : row[t] = "live" => under[t] = epoch[owner[t]]

\* Presenting a revoked token leaves no usable token in its chain of rotations
\* (auth_service.py:4-5, "revokes the whole family").
ReuseRevokesFamily ==
    \A r \in Reqs : RevokeCommit(r) /\ req[r].op = "reuse" =>
        \A t \in Tokens : family[t] = family[req[r].token] => row'[t] # "live"

\* After a reset the account must change its password
\* (tenant_user_service.py:313-314).
ResetForcesChange ==
    \A r \in Reqs : RevokeCommit(r) /\ req[r].op = "reset" => mustChange'[req[r].user]

=============================================================================
