------------------------- MODULE AuthSessionsProofs -------------------------
(***************************************************************************)
(* Proofs about AuthSessions, for any number of accounts, tokens and       *)
(* overlapping requests.                                                   *)
(***************************************************************************)
EXTENDS AuthSessions, TLAPS

\* What a request holds: the row it has inserted is open and its own, the token
\* it presented and the rows it will revoke are committed.
RequestHolds(r) ==
    /\ req[r].at # "issued" => req[r].fresh = None
    /\ req[r].at = "issued" => /\ req[r].fresh \in Tokens
                               /\ row[req[r].fresh] = "open"
                               /\ req[r].op # "rotate" => parent[req[r].fresh] = None
    /\ req[r].op = "rotate" /\ req[r].at # "idle" =>
           /\ req[r].token \in Tokens /\ Committed(req[r].token)
           /\ owner[req[r].token] = req[r].user
    /\ req[r].op = "rotate" /\ req[r].at = "issued" =>
           /\ parent[req[r].fresh] = req[r].token
           /\ owner[req[r].fresh] = req[r].user
    /\ req[r].op \in RevokingOps \ {"reuse"} => req[r].user \in Users
    /\ \A t \in req[r].target : Committed(t)

RequestsHold == \A r \in Reqs : RequestHolds(r)

FreshAreDistinct ==
    \A r, q \in Reqs : r # q /\ req[r].at = "issued" /\ req[q].at = "issued" =>
        req[r].fresh # req[q].fresh

IndInv ==
    /\ TypeOK
    /\ RequestsHold
    /\ FreshAreDistinct
    /\ ChainHasOneEnd
    /\ ReplacedByIsSuccessor
    /\ DoomedStayRevoked

-----------------------------------------------------------------------------
USE ConstantsAssumption

\* The records a handler holds are well typed.
LEMMA RequestTyped ==
    ASSUME NEW o \in Ops, NEW u \in Users \cup {None}, NEW t \in Tokens \cup {None}
    PROVE  Request(o, u, t) \in Requests
BY DEF Request, Requests, Idle, Ops, RevokingOps, Steps

LEMMA IdleTyped == Idle \in Requests
BY DEF Requests, Idle, Ops, RevokingOps, Steps

LEMMA InitInv == Init => IndInv
<1> SUFFICES ASSUME Init PROVE IndInv
    OBVIOUS
<1>1. TypeOK
    BY IdleTyped DEF Init, TypeOK
<1>2. RequestsHold /\ FreshAreDistinct
    BY DEF Init, RequestsHold, RequestHolds, FreshAreDistinct, Idle, RevokingOps
<1>3. ChainHasOneEnd /\ ReplacedByIsSuccessor /\ DoomedStayRevoked
    BY DEF Init, ChainHasOneEnd, ReplacedByIsSuccessor, DoomedStayRevoked
<1> QED BY <1>1, <1>2, <1>3 DEF IndInv

LEMMA SweepTyped ==
    ASSUME NEW x \in Requests, NEW S \in SUBSET Tokens
    PROVE  [x EXCEPT !.at = "sweeping", !.target = S] \in Requests
<1>1. "sweeping" \in Steps
    BY DEF Steps
<1>2. [x EXCEPT !.at = "sweeping"] \in Requests
    BY <1>1 DEF Requests
<1> DEFINE y == [x EXCEPT !.at = "sweeping"]
<1>3. \A z \in Requests : [z EXCEPT !.target = S] \in Requests
    BY DEF Requests
<1>4. [x EXCEPT !.at = "sweeping", !.target = S] = [y EXCEPT !.target = S]
    BY DEF Requests
<1> HIDE DEF y
<1> QED BY <1>2, <1>3, <1>4 DEF y

\* Reading an account or a row changes nothing but what the request holds.
LEMMA ReadTyped ==
    ASSUME TypeOK, NEW r \in Reqs, NEW rec \in Requests,
           req' = [req EXCEPT ![r] = rec], UNCHANGED <<rowVars, accountVars, doomed>>
    PROVE  TypeOK'
BY DEF TypeOK, rowVars, accountVars

\* Types: every action keeps them.
LEMMA TypeStep == TypeOK /\ RequestsHold /\ [Next]_vars => TypeOK'
<1> SUFFICES ASSUME TypeOK, RequestsHold, [Next]_vars PROVE TypeOK'
    OBVIOUS
<1>1. ASSUME NEW r \in Reqs, NEW u \in Users,
             LoginRead(r, u) \/ DisableRead(r, u) \/ ResetRead(r, u) \/ ChangeRead(r, u)
      PROVE TypeOK'
    <2> DEFINE Base(o) == Request(o, u, None)
    <2>1. \A o \in Ops : Base(o) \in Requests
        BY RequestTyped
    <2>2. \A o \in Ops :
             /\ [Base(o) EXCEPT !.epoch = epoch[u]] \in Requests
             /\ [Base(o) EXCEPT !.active = active[u]] \in Requests
             /\ [Base(o) EXCEPT !.mustChange = mustChange[u]] \in Requests
        <3> HIDE DEF Base
        <3> QED BY <2>1 DEF Requests, TypeOK
    <2>3. {"login", "disable", "reset", "change"} \subseteq Ops
        BY DEF Ops, RevokingOps
    <2>4. \E rec \in Requests : req' = [req EXCEPT ![r] = rec]
        BY <1>1, <2>2, <2>3, Zenon DEF LoginRead, DisableRead, ResetRead, ChangeRead
    <2>5. UNCHANGED <<rowVars, accountVars, doomed>>
        BY <1>1 DEF LoginRead, DisableRead, ResetRead, ChangeRead
    <2> QED BY <2>4, <2>5, ReadTyped
<1>2. ASSUME NEW r \in Reqs, NEW t \in Tokens, RotateRead(r, t) \/ LogoutRead(r, t)
      PROVE TypeOK'
    <2> DEFINE Base(o) == Request(o, owner[t], t)
    <2>1. \A o \in Ops : Base(o) \in Requests
        BY RequestTyped DEF TypeOK
    <2>2. \A o \in Ops :
             [Base(o) EXCEPT !.target = {x \in {t} : row[x] \in Unrevoked}] \in Requests
        <3> HIDE DEF Base
        <3>1. {x \in {t} : row[x] \in Unrevoked} \in SUBSET Tokens
            OBVIOUS
        <3> QED BY <2>1, <3>1 DEF Requests
    <2>3. {"rotate", "reuse", "logout"} \subseteq Ops
        BY DEF Ops, RevokingOps
    <2>4. \E rec \in Requests : req' = [req EXCEPT ![r] = rec]
        BY <1>2, <2>1, <2>2, <2>3, Zenon DEF RotateRead, LogoutRead
    <2>5. UNCHANGED <<rowVars, accountVars, doomed>>
        BY <1>2 DEF RotateRead, LogoutRead
    <2> QED BY <2>4, <2>5, ReadTyped
<1> USE DEF TypeOK, Requests, rowVars, accountVars
<1>3. ASSUME NEW r \in Reqs, NEW t \in Tokens, LoginIssue(r, t)
      PROVE TypeOK'
    BY <1>3 DEF LoginIssue, IssueToken, Steps
<1>4. ASSUME NEW r \in Reqs, NEW t \in Tokens, RotateIssue(r, t)
      PROVE TypeOK'
    BY <1>4 DEF RotateIssue, IssueToken, RequestsHold, RequestHolds, Steps
<1>5. ASSUME NEW r \in Reqs, NEW t \in Tokens, ChangeIssue(r, t)
      PROVE TypeOK'
    BY <1>5 DEF ChangeIssue, IssueToken, Steps
<1>6. ASSUME NEW r \in Reqs, LoginCommit(r) \/ RotateCommit(r) \/ LogoutCommit(r)
      PROVE TypeOK'
    <2>1. CASE LoginCommit(r)
        BY <2>1, IdleTyped DEF LoginCommit
    <2>2. CASE RotateCommit(r)
        BY <2>2, IdleTyped DEF RotateCommit, RequestsHold, RequestHolds
    <2>3. CASE LogoutCommit(r)
        BY <2>3, IdleTyped DEF LogoutCommit
    <2> QED BY <1>6, <2>1, <2>2, <2>3
<1>7. ASSUME NEW r \in Reqs, SweepStart(r) \/ SweepLocks(r)
      PROVE TypeOK'
    <2>1. {"sweeping", "swept"} \subseteq Steps
        BY DEF Steps
    <2>2. \A u : UnrevokedOf(u) \in SUBSET Tokens
        BY DEF UnrevokedOf
    <2>3. CASE SweepStart(r)
        <3>1. PICK S \in SUBSET Tokens :
                 req' = [req EXCEPT ![r].at = "sweeping", ![r].target = S]
            BY <2>2, <2>3 DEF SweepStart
        <3> DEFINE rec == [req[r] EXCEPT !.at = "sweeping", !.target = S]
        <3>2. req[r] \in Requests
            OBVIOUS
        <3>3. rec \in Requests
            BY <3>2, SweepTyped, Zenon
        <3>4. req' = [req EXCEPT ![r] = rec]
            BY <3>1
        <3>5. UNCHANGED <<rowVars, accountVars, doomed>>
            BY <2>3 DEF SweepStart
        <3> HIDE DEF rec
        <3> QED BY <3>3, <3>4, <3>5, ReadTyped, Zenon
    <2>4. CASE SweepLocks(r)
        BY <2>1, <2>4 DEF SweepLocks
    <2> QED BY <1>7, <2>3, <2>4
<1>8. ASSUME NEW r \in Reqs, RevokeCommit(r)
      PROVE TypeOK'
    <2>0. req[r].fresh \in Tokens => req[r].user \in Users
        BY <1>8 DEF RevokeCommit, RequestsHold, RequestHolds, RevokingOps
    <2>1. /\ row' \in [Tokens -> {"free", "open", "live", "expired", "revoked"}]
          /\ doomed' \subseteq Tokens
          /\ req' \in [Reqs -> Requests]
        BY <1>8, IdleTyped DEF RevokeCommit
    <2>2. /\ active' \in [Users -> BOOLEAN] /\ mustChange' \in [Users -> BOOLEAN]
          /\ epoch' \in [Users -> Nat]
        <3>1. CASE req[r].op = "disable"
            BY <1>8, <3>1 DEF RevokeCommit, AccountWrite
        <3>2. CASE req[r].op = "reset"
            <4>1. req[r].user \in Users
                BY <1>8, <3>2 DEF RevokeCommit, RequestsHold, RequestHolds, RevokingOps
            <4>2. PICK b \in BOOLEAN : mustChange' = [mustChange EXCEPT ![req[r].user] = b]
                BY <1>8, <3>2, <4>1, Zenon DEF RevokeCommit, AccountWrite
            <4>3. epoch' = [epoch EXCEPT ![req[r].user] = @ + 1] /\ active' = active
                BY <1>8, <3>2 DEF RevokeCommit, AccountWrite
            <4> QED BY <4>1, <4>2, <4>3
        <3>3. CASE req[r].op = "change"
            <4>1. req[r].user \in Users
                BY <1>8, <3>3 DEF RevokeCommit, RequestsHold, RequestHolds, RevokingOps
            <4>2. PICK b \in BOOLEAN : mustChange' = [mustChange EXCEPT ![req[r].user] = b]
                BY <1>8, <3>3, <4>1, Zenon DEF RevokeCommit, AccountWrite
            <4>3. epoch' = [epoch EXCEPT ![req[r].user] = @ + 1] /\ active' = active
                BY <1>8, <3>3 DEF RevokeCommit, AccountWrite
            <4> QED BY <4>1, <4>2, <4>3
        <3>4. CASE req[r].op = "reuse"
            BY <1>8, <3>4 DEF RevokeCommit, AccountWrite
        <3> QED BY <1>8, <3>1, <3>2, <3>3, <3>4 DEF RevokeCommit, RevokingOps
    <2>3. under' \in [Tokens -> Nat]
        BY <1>8, <2>0 DEF RevokeCommit
    <2> QED BY <2>1, <2>2, <2>3, <1>8 DEF RevokeCommit
<1>9. ASSUME NEW r \in Reqs, Rollback(r)
      PROVE TypeOK'
    BY <1>9, IdleTyped DEF Rollback
<1>10. ASSUME NEW u \in Users, Enable(u)
      PROVE TypeOK'
    BY <1>10 DEF Enable
<1>11. ASSUME NEW t \in Tokens, Expire(t)
      PROVE TypeOK'
    BY <1>11 DEF Expire
<1>12. CASE UNCHANGED vars
    BY <1>12 DEF vars
<1> QED
    BY <1>1, <1>2, <1>3, <1>4, <1>5, <1>6, <1>7, <1>8, <1>9, <1>10, <1>11, <1>12
    DEF Next, Step

-----------------------------------------------------------------------------
\* A step that leaves the rows alone keeps what they satisfy.
LEMMA RowsUntouched ==
    ASSUME ChainHasOneEnd, ReplacedByIsSuccessor, DoomedStayRevoked,
           UNCHANGED <<row, owner, next, parent, doomed>>
    PROVE  ChainHasOneEnd' /\ ReplacedByIsSuccessor' /\ DoomedStayRevoked'
BY DEF ChainHasOneEnd, ReplacedByIsSuccessor, DoomedStayRevoked, Committed

\* Inserting a row for a token never drawn disturbs nothing.
LEMMA IssueStep ==
    ASSUME IndInv, NEW r \in Reqs, NEW t \in Tokens, NEW u, NEW from, NEW pw,
           req[r].at # "idle", req[r].at # "issued",
           req[r].op = "rotate" => from = req[r].token /\ u = req[r].user,
           req[r].op # "rotate" => from = None,
           IssueToken(r, t, u, from, pw), doomed' = doomed
    PROVE  /\ RequestsHold' /\ FreshAreDistinct'
           /\ ChainHasOneEnd' /\ ReplacedByIsSuccessor' /\ DoomedStayRevoked'
<1> USE DEF IndInv, TypeOK, IssueToken, Committed, Unrevoked
<1>1. \A q \in Reqs \ {r} : req'[q] = req[q]
    OBVIOUS
<1>2. req'[r] = [req[r] EXCEPT !.fresh = t, !.at = "issued"]
    OBVIOUS
<1>2a. /\ req'[r].fresh = t /\ req'[r].at = "issued" /\ req'[r].op = req[r].op
       /\ req'[r].token = req[r].token /\ req'[r].user = req[r].user
       /\ req'[r].target = req[r].target
    BY <1>2 DEF Requests
<1>3. \A x \in Tokens : x # t => /\ row'[x] = row[x] /\ owner'[x] = owner[x]
                                /\ parent'[x] = parent[x]
    OBVIOUS
<1>4. row[t] = "free" /\ row'[t] = "open" /\ owner'[t] = u /\ parent'[t] = from
    OBVIOUS
<1>5. RequestsHold'
    BY <1>1, <1>2a, <1>3, <1>4 DEF RequestsHold, RequestHolds
<1>6. FreshAreDistinct'
    BY <1>1, <1>2a, <1>4 DEF FreshAreDistinct, RequestsHold, RequestHolds
<1>7. ChainHasOneEnd'
    BY <1>3, <1>4 DEF ChainHasOneEnd
<1>8. ReplacedByIsSuccessor'
    BY <1>3, <1>4 DEF ReplacedByIsSuccessor
<1>9. DoomedStayRevoked'
    BY <1>3, <1>4 DEF DoomedStayRevoked
<1> QED BY <1>5, <1>6, <1>7, <1>8, <1>9

\* Requests that read keep what every request holds.
LEMMA ReadStep ==
    ASSUME IndInv, NEW r \in Reqs, NEW rec \in Requests,
           req' = [req EXCEPT ![r] = rec], UNCHANGED <<rowVars, doomed>>,
           rec.at # "issued", rec.fresh = None,
           rec.op = "rotate" => /\ rec.token \in Tokens /\ Committed(rec.token)
                                /\ owner[rec.token] = rec.user,
           rec.op \in RevokingOps \ {"reuse"} => rec.user \in Users,
           \A t \in rec.target : Committed(t)
    PROVE  /\ RequestsHold' /\ FreshAreDistinct'
           /\ ChainHasOneEnd' /\ ReplacedByIsSuccessor' /\ DoomedStayRevoked'
<1>1. req'[r] = rec /\ \A q \in Reqs \ {r} : req'[q] = req[q]
    BY DEF IndInv, TypeOK
<1>2. RequestsHold'
    BY <1>1 DEF IndInv, RequestsHold, RequestHolds, Committed, rowVars
<1>3. FreshAreDistinct'
    BY <1>1 DEF IndInv, FreshAreDistinct
<1> QED BY <1>2, <1>3, RowsUntouched DEF IndInv, rowVars

\* A commit revokes committed rows, makes the inserted one usable, and ends
\* the request.
LEMMA CommitStep ==
    ASSUME IndInv, NEW r \in Reqs, NEW G \in SUBSET Tokens,
           \A t \in G : Committed(t),
           row' = [t \in Tokens |-> IF t \in G THEN "revoked"
                                    ELSE IF t = req[r].fresh THEN "live" ELSE row[t]],
           req' = [req EXCEPT ![r] = Idle],
           UNCHANGED <<owner, parent>>,
           doomed' \in SUBSET (doomed \cup G),
           req[r].op = "rotate" /\ req[r].at = "issued" => req[r].token \in G,
           \/ next' = next
           \/ /\ req[r].op = "rotate" /\ req[r].at = "issued"
              /\ next' = [next EXCEPT ![req[r].token] = req[r].fresh]
    PROVE  /\ RequestsHold' /\ FreshAreDistinct'
           /\ ChainHasOneEnd' /\ ReplacedByIsSuccessor' /\ DoomedStayRevoked'
<1> USE DEF IndInv, TypeOK, Committed, Unrevoked
<1>1. req'[r] = Idle /\ \A q \in Reqs \ {r} : req'[q] = req[q]
    OBVIOUS
<1>2. req[r].fresh \in Tokens => req[r].at = "issued" /\ row[req[r].fresh] = "open"
    BY DEF RequestsHold, RequestHolds
<1>3. \A t \in Tokens : Committed(t) => Committed(t)' /\ (row[t] = "revoked" => row'[t] = "revoked")
    BY <1>2
<1>4. RequestsHold'
    <2> SUFFICES ASSUME NEW q \in Reqs PROVE RequestHolds(q)'
        BY DEF RequestsHold
    <2>1. CASE q = r
        BY <1>1, <2>1 DEF RequestHolds, Idle, RevokingOps
    <2>2. CASE q # r
        <3>1. req'[q] = req[q]
            BY <1>1, <2>2
        <3>2. ASSUME req[q].at = "issued" PROVE row'[req[q].fresh] = "open"
            <4>1. req[q].fresh \in Tokens /\ row[req[q].fresh] = "open"
                BY <3>2 DEF RequestsHold, RequestHolds
            <4>2. req[q].fresh # req[r].fresh
                BY <1>2, <2>2, <3>2, <4>1 DEF FreshAreDistinct
            <4>3. req[q].fresh \notin G
                BY <4>1
            <4> QED BY <4>1, <4>2, <4>3
        <3>3. \A t \in req[q].target : t \in Tokens
            BY DEF Requests
        <3>4. \A t \in req[q].target : Committed(t)'
            BY <1>3, <3>3 DEF RequestsHold, RequestHolds
        <3> QED BY <1>3, <3>1, <3>2, <3>4 DEF RequestsHold, RequestHolds
    <2> QED BY <2>1, <2>2
<1>5. FreshAreDistinct'
    BY <1>1 DEF FreshAreDistinct, Idle
<1>6. ChainHasOneEnd'
    <2> SUFFICES ASSUME NEW t \in Tokens, parent[t] # None, Committed(t)'
                 PROVE  row'[parent[t]] = "revoked" /\ owner[parent[t]] = owner[t]
        BY DEF ChainHasOneEnd
    <2>1. CASE Committed(t)
        BY <1>3, <2>1 DEF ChainHasOneEnd
    <2>2. CASE ~Committed(t)
        <3>1. t = req[r].fresh /\ req[r].at = "issued"
            BY <1>2, <2>2
        <3>2. req[r].op = "rotate" /\ parent[t] = req[r].token
            BY <3>1 DEF RequestsHold, RequestHolds
        <3> QED BY <3>1, <3>2 DEF RequestsHold, RequestHolds
    <2> QED BY <2>1, <2>2
<1>7. ReplacedByIsSuccessor'
    <2> SUFFICES ASSUME NEW t \in Tokens, next'[t] # None
                 PROVE  /\ row'[t] = "revoked" /\ parent[next'[t]] = t
                         /\ row'[next'[t]] \in Unrevoked \cup {"revoked"}
        BY DEF ReplacedByIsSuccessor
    <2>1. CASE next'[t] = next[t]
        BY <1>3, <2>1 DEF ReplacedByIsSuccessor
    <2>2. CASE next'[t] # next[t]
        <3>1. /\ req[r].op = "rotate" /\ req[r].at = "issued" /\ t = req[r].token
              /\ next'[t] = req[r].fresh /\ t \in G
            BY <2>2
        <3>2. req[r].fresh \in Tokens /\ parent[req[r].fresh] = t /\ row[req[r].fresh] = "open"
            BY <3>1 DEF RequestsHold, RequestHolds
        <3> QED BY <3>1, <3>2
    <2> QED BY <2>1, <2>2
<1>8. DoomedStayRevoked'
    BY <1>3 DEF DoomedStayRevoked
<1> QED BY <1>4, <1>5, <1>6, <1>7, <1>8

-----------------------------------------------------------------------------
(* Every action, by the kind of step it is                                 *)

RowsInv == /\ RequestsHold /\ FreshAreDistinct
           /\ ChainHasOneEnd /\ ReplacedByIsSuccessor /\ DoomedStayRevoked

LEMMA ReadAccountActions ==
    ASSUME IndInv, NEW r \in Reqs, NEW u \in Users,
           LoginRead(r, u) \/ DisableRead(r, u) \/ ResetRead(r, u) \/ ChangeRead(r, u)
    PROVE  RowsInv'
<1> USE DEF Request, Idle, RevokingOps
<1> DEFINE Reads(rec) == /\ rec.at # "issued" /\ rec.fresh = None
                         /\ rec.op = "rotate" => /\ rec.token \in Tokens /\ Committed(rec.token)
                                                 /\ owner[rec.token] = rec.user
                         /\ rec.op \in RevokingOps \ {"reuse"} => rec.user \in Users
                         /\ \A x \in rec.target : Committed(x)
<1>1. CASE LoginRead(r, u)
    <2> DEFINE rec == [Request("login", u, None) EXCEPT !.epoch = epoch[u]]
    <2>1. Reads(rec)
        OBVIOUS
    <2>2. rec \in Requests
        BY DEF Requests, Ops, Steps, IndInv, TypeOK
    <2> HIDE DEF rec
    <2> QED BY <1>1, <2>1, <2>2, ReadStep DEF LoginRead, RowsInv, rec
<1>2. CASE DisableRead(r, u)
    <2> DEFINE rec == [Request("disable", u, None) EXCEPT !.active = active[u]]
    <2>1. Reads(rec)
        OBVIOUS
    <2>2. rec \in Requests
        BY DEF Requests, Ops, Steps, IndInv, TypeOK
    <2> HIDE DEF rec
    <2> QED BY <1>2, <2>1, <2>2, ReadStep DEF DisableRead, RowsInv, rec
<1>3. CASE ResetRead(r, u)
    <2> DEFINE rec == [Request("reset", u, None) EXCEPT !.mustChange = mustChange[u]]
    <2>1. Reads(rec)
        OBVIOUS
    <2>2. rec \in Requests
        BY DEF Requests, Ops, Steps, IndInv, TypeOK
    <2> HIDE DEF rec
    <2> QED BY <1>3, <2>1, <2>2, ReadStep DEF ResetRead, RowsInv, rec
<1>4. CASE ChangeRead(r, u)
    <2> DEFINE rec == [Request("change", u, None) EXCEPT !.mustChange = mustChange[u]]
    <2>1. Reads(rec)
        OBVIOUS
    <2>2. rec \in Requests
        BY DEF Requests, Ops, Steps, IndInv, TypeOK
    <2> HIDE DEF rec
    <2> QED BY <1>4, <2>1, <2>2, ReadStep DEF ChangeRead, RowsInv, rec
<1> QED BY <1>1, <1>2, <1>3, <1>4

LEMMA ReadTokenActions ==
    ASSUME IndInv, NEW r \in Reqs, NEW t \in Tokens, RotateRead(r, t) \/ LogoutRead(r, t)
    PROVE  RowsInv'
<1> USE DEF Request, Idle, RevokingOps
<1> DEFINE Reads(rec) == /\ rec.at # "issued" /\ rec.fresh = None
                         /\ rec.op = "rotate" => /\ rec.token \in Tokens /\ Committed(rec.token)
                                                 /\ owner[rec.token] = rec.user
                         /\ rec.op \in RevokingOps \ {"reuse"} => rec.user \in Users
                         /\ \A x \in rec.target : Committed(x)
<1>1. CASE RotateRead(r, t)
    <2> PICK o \in {"rotate", "reuse"} : /\ req' = [req EXCEPT ![r] = Request(o, owner[t], t)]
                                         /\ row[t] \in {"live", "revoked"}
        BY <1>1 DEF RotateRead
    <2> DEFINE rec == Request(o, owner[t], t)
    <2>1. Reads(rec)
        BY DEF Committed, Unrevoked
    <2>2. rec \in Requests
        BY RequestTyped DEF Ops, IndInv, TypeOK
    <2> HIDE DEF rec
    <2> QED BY <1>1, <2>1, <2>2, ReadStep DEF RotateRead, RowsInv, rec
<1>2. CASE LogoutRead(r, t)
    <2> DEFINE rec == [Request("logout", owner[t], t)
                       EXCEPT !.target = {x \in {t} : row[x] \in Unrevoked}]
    <2>1. Reads(rec)
        BY DEF Committed
    <2>2. rec \in Requests
        BY DEF Requests, Ops, Steps, IndInv, TypeOK
    <2> HIDE DEF rec
    <2> QED BY <1>2, <2>1, <2>2, ReadStep DEF LogoutRead, RowsInv, rec
<1> QED BY <1>1, <1>2

LEMMA SweepActions ==
    ASSUME IndInv, NEW r \in Reqs, SweepStart(r) \/ SweepLocks(r)
    PROVE  RowsInv'
<1> USE DEF IndInv
<1>1. CASE SweepStart(r)
    <2> DEFINE S == UnrevokedOf(req[r].user)
    <2> DEFINE rec == [req[r] EXCEPT !.at = "sweeping", !.target = S]
    <2>1. S \in SUBSET Tokens /\ \A x \in S : Committed(x)
        BY DEF UnrevokedOf, Committed
    <2>2. req[r] \in Requests
        BY DEF TypeOK
    <2>3. rec \in Requests
        BY <2>1, <2>2, SweepTyped, Zenon
    <2>4. req' = [req EXCEPT ![r] = rec]
        BY <1>1 DEF SweepStart
    <2>5. /\ rec.at = "sweeping" /\ rec.fresh = req[r].fresh /\ rec.op = req[r].op
          /\ rec.token = req[r].token /\ rec.user = req[r].user /\ rec.target = S
        BY <2>2 DEF Requests
    <2>6. req[r].at = "read" /\ UNCHANGED <<rowVars, doomed>>
        BY <1>1 DEF SweepStart
    <2> HIDE DEF rec, S
    <2>7. rec.fresh = None
        BY <2>5, <2>6 DEF RequestsHold, RequestHolds
    <2>8. rec.op \in RevokingOps \ {"reuse"} => rec.user \in Users
        BY <2>5 DEF RequestsHold, RequestHolds
    <2>9. rec.op # "rotate"
        BY <1>1, <2>5 DEF SweepStart, RevokingOps
    <2> QED BY <2>1, <2>3, <2>4, <2>5, <2>6, <2>7, <2>8, <2>9, ReadStep DEF RowsInv
<1>2. CASE SweepLocks(r)
    <2> DEFINE rec == [req[r] EXCEPT !.at = "swept"]
    <2>1. rec \in Requests
        BY DEF TypeOK, Requests, Steps
    <2>2. req' = [req EXCEPT ![r] = rec]
        BY <1>2 DEF SweepLocks
    <2>3. /\ rec.at = "swept" /\ rec.fresh = req[r].fresh /\ rec.op = req[r].op
          /\ rec.token = req[r].token /\ rec.user = req[r].user /\ rec.target = req[r].target
        BY DEF TypeOK, Requests
    <2>4. req[r].at = "sweeping" /\ UNCHANGED <<rowVars, doomed>>
        BY <1>2 DEF SweepLocks
    <2> HIDE DEF rec
    <2>5. /\ rec.fresh = None
          /\ rec.op = "rotate" => /\ rec.token \in Tokens /\ Committed(rec.token)
                                  /\ owner[rec.token] = rec.user
          /\ rec.op \in RevokingOps \ {"reuse"} => rec.user \in Users
          /\ \A x \in rec.target : Committed(x)
        BY <2>3, <2>4 DEF RequestsHold, RequestHolds
    <2> QED BY <2>1, <2>2, <2>3, <2>4, <2>5, ReadStep DEF RowsInv
<1> QED BY <1>1, <1>2

LEMMA IssueActions ==
    ASSUME IndInv, NEW r \in Reqs, NEW t \in Tokens,
           LoginIssue(r, t) \/ RotateIssue(r, t) \/ ChangeIssue(r, t)
    PROVE  RowsInv'
<1>1. CASE LoginIssue(r, t)
    BY <1>1, IssueStep DEF LoginIssue, RowsInv
<1>2. CASE RotateIssue(r, t)
    BY <1>2, IssueStep DEF RotateIssue, RowsInv
<1>3. CASE ChangeIssue(r, t)
    BY <1>3, IssueStep DEF ChangeIssue, RowsInv
<1> QED BY <1>1, <1>2, <1>3

LEMMA CommitActions ==
    ASSUME IndInv, NEW r \in Reqs,
           LoginCommit(r) \/ RotateCommit(r) \/ LogoutCommit(r) \/ RevokeCommit(r)
    PROVE  RowsInv'
<1> USE DEF IndInv
<1>0. /\ row \in [Tokens -> {"free", "open", "live", "expired", "revoked"}]
      /\ req[r].target \in SUBSET Tokens /\ \A x \in req[r].target : Committed(x)
      /\ req[r].at = "issued" => req[r].fresh \in Tokens
      /\ req[r].at # "issued" => req[r].fresh \notin Tokens
    BY DEF TypeOK, Requests, RequestsHold, RequestHolds
<1> DEFINE Outcome(G) == [t \in Tokens |-> IF t \in G THEN "revoked"
                                   ELSE IF t = req[r].fresh THEN "live" ELSE row[t]]
<1>1. CASE LoginCommit(r)
    <2> DEFINE G == {}
    <2>1. row' = Outcome(G)
        BY <1>0, <1>1 DEF LoginCommit
    <2>2. G \in SUBSET Tokens /\ (\A x \in G : Committed(x)) /\ doomed' \in SUBSET (doomed \cup G)
        BY <1>1 DEF LoginCommit
    <2>3. req[r].op # "rotate"
        BY <1>1 DEF LoginCommit
    <2> HIDE DEF G
    <2> QED BY <1>1, <2>1, <2>2, <2>3, CommitStep DEF LoginCommit, RowsInv
<1>2. CASE RotateCommit(r)
    <2> DEFINE G == {req[r].token}
    <2>1. req[r].token \in Tokens /\ Committed(req[r].token) /\ row[req[r].fresh] = "open"
        BY <1>2 DEF RotateCommit, RequestsHold, RequestHolds
    <2>2. row' = Outcome(G)
        BY <1>0, <1>2, <2>1 DEF RotateCommit, Committed, Unrevoked
    <2> QED BY <1>2, <2>1, <2>2, CommitStep DEF RotateCommit, RowsInv
<1>3. CASE LogoutCommit(r)
    <2>1. row' = Outcome(req[r].target)
        BY <1>0, <1>3 DEF LogoutCommit
    <2>2. \A x \in req[r].target : Committed(x)
        BY <1>0
    <2> QED BY <1>0, <1>3, <2>1, <2>2, CommitStep DEF LogoutCommit, RowsInv
<1>4. CASE RevokeCommit(r)
    <2>1. row' = Outcome(req[r].target)
        BY <1>0, <1>4 DEF RevokeCommit
    <2>2. req[r].op # "rotate"
        BY <1>4 DEF RevokeCommit, RevokingOps
    <2> QED BY <1>0, <1>4, <2>1, <2>2, CommitStep DEF RevokeCommit, RowsInv
<1> QED BY <1>1, <1>2, <1>3, <1>4

\* A rollback forgets the inserted row, which no other request and no committed
\* row refers to.
LEMMA RollbackAction ==
    ASSUME IndInv, NEW r \in Reqs, Rollback(r)
    PROVE  RowsInv'
<1> USE DEF IndInv, TypeOK, Committed, Unrevoked
<1> DEFINE f == req[r].fresh
<1>1. req'[r] = Idle /\ \A q \in Reqs \ {r} : req'[q] = req[q]
    BY DEF Rollback
<1>2. f \in Tokens => req[r].at = "issued" /\ row[f] = "open"
    BY DEF RequestsHold, RequestHolds
<1>3. \A t \in Tokens : t # f => /\ row'[t] = row[t] /\ owner'[t] = owner[t]
                                /\ parent'[t] = parent[t]
    BY DEF Rollback
<1>4. f \in Tokens => row'[f] = "free"
    BY DEF Rollback
<1>5. next' = next /\ doomed' = doomed
    BY DEF Rollback
<1> HIDE DEF f
<1>6. RequestsHold'
    <2> SUFFICES ASSUME NEW q \in Reqs PROVE RequestHolds(q)'
        BY DEF RequestsHold
    <2>1. CASE q = r
        BY <1>1, <2>1 DEF RequestHolds, Idle, RevokingOps
    <2>2. CASE q # r
        <3>1. req'[q] = req[q] /\ req[q] \in Requests /\ RequestHolds(q)
            BY <1>1, <2>2 DEF RequestsHold
        <3>2. req[q].at = "issued" => req[q].fresh # f
            BY <1>2, <2>2, <3>1 DEF FreshAreDistinct, RequestHolds, f
        <3>3. \A t \in Tokens : Committed(t) => t # f
            BY <1>2
        <3>4. \A t \in req[q].target : t \in Tokens
            BY <3>1 DEF Requests
        <3>5. \A t \in req[q].target : Committed(t)'
            BY <1>3, <3>1, <3>3, <3>4 DEF RequestHolds
        <3> QED BY <1>3, <3>1, <3>2, <3>3, <3>5 DEF RequestHolds
    <2> QED BY <2>1, <2>2
<1>7. FreshAreDistinct'
    BY <1>1 DEF FreshAreDistinct, Idle
<1>8. ChainHasOneEnd'
    BY <1>2, <1>3, <1>4 DEF ChainHasOneEnd
<1>9. ReplacedByIsSuccessor'
    BY <1>2, <1>3, <1>4, <1>5 DEF ReplacedByIsSuccessor
<1>10. DoomedStayRevoked'
    BY <1>2, <1>3, <1>5 DEF DoomedStayRevoked
<1> QED BY <1>6, <1>7, <1>8, <1>9, <1>10 DEF RowsInv

LEMMA ExpireAction ==
    ASSUME IndInv, NEW t \in Tokens, Expire(t)
    PROVE  RowsInv'
<1> USE DEF IndInv, TypeOK, Committed, Unrevoked, Expire
<1>1. RequestsHold'
    BY DEF RequestsHold, RequestHolds, Requests
<1>2. FreshAreDistinct'
    BY DEF FreshAreDistinct
<1>3. ChainHasOneEnd' /\ ReplacedByIsSuccessor' /\ DoomedStayRevoked'
    BY DEF ChainHasOneEnd, ReplacedByIsSuccessor, DoomedStayRevoked
<1> QED BY <1>1, <1>2, <1>3 DEF RowsInv

\* A step that changes no row, and no request, keeps everything.
LEMMA QuietStep ==
    ASSUME IndInv, UNCHANGED <<rowVars, req, doomed>>
    PROVE  RowsInv'
<1>1. RequestsHold' /\ FreshAreDistinct'
    BY DEF IndInv, RequestsHold, RequestHolds, FreshAreDistinct, Committed, rowVars
<1> QED BY <1>1, RowsUntouched DEF IndInv, RowsInv, rowVars

LEMMA NextInv == IndInv /\ [Next]_vars => IndInv'
<1> SUFFICES ASSUME IndInv, [Next]_vars PROVE IndInv'
    OBVIOUS
<1>1. TypeOK'
    BY TypeStep DEF IndInv
<1>2. RowsInv'
    <2>1. ASSUME NEW r \in Reqs, Step(r) PROVE RowsInv'
        BY <2>1, IssueActions, CommitActions, SweepActions DEF Step
    <2>2. ASSUME NEW r \in Reqs, Rollback(r) PROVE RowsInv'
        BY <2>2, RollbackAction
    <2>3. ASSUME NEW r \in Reqs, NEW u \in Users,
                 LoginRead(r, u) \/ DisableRead(r, u) \/ ResetRead(r, u) \/ ChangeRead(r, u)
          PROVE RowsInv'
        BY <2>3, ReadAccountActions
    <2>4. ASSUME NEW r \in Reqs, NEW t \in Tokens, RotateRead(r, t) \/ LogoutRead(r, t)
          PROVE RowsInv'
        BY <2>4, ReadTokenActions
    <2>5. ASSUME NEW u \in Users, Enable(u) PROVE RowsInv'
        BY <2>5, QuietStep DEF Enable
    <2>6. ASSUME NEW t \in Tokens, Expire(t) PROVE RowsInv'
        BY <2>6, ExpireAction
    <2>7. CASE UNCHANGED vars
        BY <2>7, QuietStep DEF vars, rowVars
    <2> QED BY <2>1, <2>2, <2>3, <2>4, <2>5, <2>6, <2>7 DEF Next
<1> QED BY <1>1, <1>2 DEF IndInv, RowsInv

LEMMA IndInvAlways == Spec => []IndInv
BY InitInv, NextInv, PTL DEF Spec

\* However many requests overlap, every row, account and request is well typed.
THEOREM SessionsTyped == Spec => []TypeOK
<1>1. IndInv => TypeOK
    BY DEF IndInv
<1> QED BY <1>1, IndInvAlways, PTL

\* However many requests overlap, a chain of rotations has one usable end, and
\* replaced_by names the committed successor of a revoked token (rotate_tokens).
THEOREM ChainsSafe == Spec => [](ChainHasOneEnd /\ ReplacedByIsSuccessor)
<1>1. IndInv => ChainHasOneEnd /\ ReplacedByIsSuccessor
    BY DEF IndInv
<1> QED BY <1>1, IndInvAlways, PTL

\* However many requests overlap, a token that a committed bulk revocation found
\* usable never works again (_revoke_all_for_user, _revoke_tokens).
THEOREM RevokedForGood == Spec => []DoomedStayRevoked
<1>1. IndInv => DoomedStayRevoked
    BY DEF IndInv
<1> QED BY <1>1, IndInvAlways, PTL

=============================================================================
