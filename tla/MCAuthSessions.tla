--------------------------- MODULE MCAuthSessions ---------------------------
(* AuthSessions for TLC: a behaviour has two requests in flight at once on   *)
(* one account, or requests one at a time on several                         *)
EXTENDS AuthSessions, TLC

VARIABLE size       \* the requests, accounts and password changes there are

Sizes ==
    {[reqs |-> Reqs, users |-> {u}, epochs |-> 1] : u \in Users} \cup
    {[reqs |-> {r}, users |-> Users, epochs |-> MaxEpoch] : r \in Reqs}

SizedInit == Init /\ size \in Sizes

SizedNext ==
    /\ Next /\ UNCHANGED size
    /\ \A r \in Reqs : r \in size.reqs \/ req'[r] = req[r]
    /\ \A r \in Reqs : req'[r].user \in size.users \cup {None}
    /\ \A u \in Users : epoch'[u] <= IF u \in size.users THEN size.epochs ELSE 0

SizedSpec == SizedInit /\ [][SizedNext]_<<vars, size>>

\* Tokens, accounts and request handlers are interchangeable.
Symmetry == Permutations(Tokens) \cup Permutations(Users) \cup Permutations(Reqs)

-----------------------------------------------------------------------------
(* Properties of requests that do not overlap                              *)

OneAtATime == \E r \in Reqs : size.reqs = {r}

\* A refresh token is exchanged at most once, and every usable token was obtained
\* with the password now in force (rotate_tokens, reset and change of password).
TokensAreSound == OneAtATime => SingleUse /\ TokensOfCurrentPassword

\* Presenting a revoked token leaves no usable token in its chain of rotations
\* (auth_service.py:4-5, "revokes the whole family"), and a reset makes the
\* account change its password.
RevokingTakesEffect == [][OneAtATime => ReuseRevokesFamily /\ ResetForcesChange]_vars

\* Requests that do not overlap implement SessionSpec; when they do, nothing of it
\* is claimed.
openNow    == {t \in Tokens : OneAtATime /\ row[t] \in Unrevoked}
spentNow   == {t \in Tokens : OneAtATime /\ row[t] = "revoked"}
holderNow  == [t \in Tokens |-> IF OneAtATime /\ Committed(t) THEN owner[t] ELSE None]
enabledNow == {u \in Users : active[u] \/ ~OneAtATime}

Promise == INSTANCE SessionSpec WITH
    open <- openNow, spent <- spentNow, holder <- holderNow, enabled <- enabledNow

KeepsPromise == Promise!Spec

=============================================================================
