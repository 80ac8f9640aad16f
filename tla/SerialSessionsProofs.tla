------------------------ MODULE SerialSessionsProofs ------------------------
(***************************************************************************)
(* Proofs about requests that do not overlap: one handler runs at a time,  *)
(* any number of accounts, tokens and requests after one another, an       *)
(* expiry or an administrator's "activate" at any moment in between.  Then *)
(* AuthSessions keeps the promise of SessionSpec.                          *)
(***************************************************************************)
EXTENDS MCAuthSessions, AuthSessionsProofs, FiniteSetTheorems

\* What the one handler has read still holds, since nobody else commits.
HandlerKnows(q) ==
    LET x == req[q] IN
    /\ x.at # "idle" => x.user \in Users
    /\ x.at = "issued" => x.op \in {"login", "rotate", "change"} /\ owner[x.fresh] = x.user
    /\ x.op = "login" /\ x.at # "idle" => active[x.user] /\ x.epoch = epoch[x.user]
    /\ x.op = "login" /\ x.at = "issued" => under[x.fresh] = x.epoch
    /\ x.op = "rotate" /\ x.at # "idle" => row[x.token] \in Unrevoked
    /\ x.op = "rotate" /\ x.at = "issued" => active[x.user] /\ under[x.fresh] = under[x.token]
    /\ x.op = "change" => active[x.user]
    /\ x.op \in {"reset", "change"} => x.mustChange = mustChange[x.user]
    /\ x.op = "reuse" => x.token \in Tokens /\ Committed(x.token) /\ owner[x.token] = x.user
    /\ x.op = "logout" => x.target \subseteq {x.token} /\ \A t \in x.target : row[t] \in Unrevoked
    /\ x.op \in RevokingOps /\ x.at \in {"sweeping", "swept", "issued"} =>
           x.target = UnrevokedOf(x.user)
    /\ x.at \in {"sweeping", "swept"} => x.op \in RevokingOps

\* The only row not committed is the one the handler has inserted.
OpenIsHeld(q) == \A t \in Tokens : row[t] = "open" => req[q].at = "issued" /\ req[q].fresh = t

\* A chain of rotations belongs to one account and starts with its family's token.
ChainsKnowTheirAccount ==
    \A t \in Tokens : row[t] # "free" =>
        /\ owner[t] \in Users /\ family[t] \in Tokens /\ owner[family[t]] = owner[t]
        /\ family[t] = t \/ Committed(family[t])

\* Whatever is not revoked, expired or not, is of the password in force.
UnrevokedAreCurrent == \A t \in Tokens : row[t] \in Unrevoked => under[t] = epoch[owner[t]]

\* A token was exchanged at most once.
OneSuccessor ==
    \A s, t \in Tokens : parent[s] = parent[t] /\ parent[s] # None /\ Committed(s) /\ Committed(t)
        => s = t

SerialInv(q) ==
    /\ \A r \in Reqs \ {q} : req[r] = Idle
    /\ HandlerKnows(q)
    /\ OpenIsHeld(q)
    /\ ChainsKnowTheirAccount
    /\ UnrevokedAreCurrent
    /\ OneSuccessor

SerialIndInv == IndInv /\ \A q \in Reqs : size.reqs = {q} => SerialInv(q)

-----------------------------------------------------------------------------
USE ConstantsAssumption

LEMMA SerialInit == SizedInit => SerialIndInv
<1> SUFFICES ASSUME SizedInit PROVE SerialIndInv
    OBVIOUS
<1>1. IndInv
    BY InitInv DEF SizedInit
<1>2. ASSUME NEW q \in Reqs PROVE SerialInv(q)
    BY DEF SizedInit, Init, SerialInv, HandlerKnows, OpenIsHeld, ChainsKnowTheirAccount,
           UnrevokedAreCurrent, OneSuccessor, Idle, RevokingOps, Committed, Unrevoked
<1> QED BY <1>1, <1>2 DEF SerialIndInv

\* A step that touches neither rows nor accounts keeps what is said of them.
LEMMA ReadKeepsRows ==
    ASSUME NEW q \in Reqs, IndInv, SerialInv(q), NEW rec \in Requests,
           req' = [req EXCEPT ![q] = rec], UNCHANGED <<rowVars, accountVars>>,
           req[q].at # "issued", HandlerKnows(q)'
    PROVE  SerialInv(q)'
<1>1. req \in [Reqs -> Requests]
    BY DEF IndInv, TypeOK
<1>2. \A r \in Reqs \ {q} : req'[r] = Idle
    BY <1>1 DEF SerialInv
<1>3. OpenIsHeld(q)'
    BY DEF SerialInv, OpenIsHeld, rowVars
<1>4. ChainsKnowTheirAccount' /\ UnrevokedAreCurrent' /\ OneSuccessor'
    BY DEF SerialInv, ChainsKnowTheirAccount, UnrevokedAreCurrent, OneSuccessor, Committed,
           rowVars, accountVars
<1> QED BY <1>2, <1>3, <1>4 DEF SerialInv

LEMMA AccountReadsSerial ==
    ASSUME NEW q \in Reqs, IndInv, SerialInv(q), NEW u \in Users,
           LoginRead(q, u) \/ DisableRead(q, u) \/ ResetRead(q, u) \/ ChangeRead(q, u)
    PROVE  SerialInv(q)'
<1> USE DEF Request, Idle, RevokingOps
<1>1. req[q].at # "issued" /\ UNCHANGED <<rowVars, accountVars>> /\ req \in [Reqs -> Requests]
    BY DEF LoginRead, DisableRead, ResetRead, ChangeRead, IndInv, TypeOK
<1>2. req' \in [Reqs -> Requests]
    <2>1. [Next]_vars
        BY DEF Next
    <2> QED BY <2>1, TypeStep DEF IndInv, TypeOK
<1>3. \E rec \in Requests : req' = [req EXCEPT ![q] = rec]
    <2>1. req' = [req EXCEPT ![q] = req'[q]]
        BY <1>1 DEF LoginRead, DisableRead, ResetRead, ChangeRead
    <2> QED BY <1>2, <2>1
<1>4. HandlerKnows(q)'
    <2>1. CASE LoginRead(q, u)
        BY <1>1, <2>1 DEF LoginRead, HandlerKnows, accountVars
    <2>2. CASE DisableRead(q, u)
        BY <1>1, <2>2 DEF DisableRead, HandlerKnows
    <2>3. CASE ResetRead(q, u)
        BY <1>1, <2>3 DEF ResetRead, HandlerKnows, accountVars
    <2>4. CASE ChangeRead(q, u)
        BY <1>1, <2>4 DEF ChangeRead, HandlerKnows, accountVars
    <2> QED BY <2>1, <2>2, <2>3, <2>4
<1> HIDE DEF Request, Idle, RevokingOps
<1> QED BY <1>1, <1>3, <1>4, ReadKeepsRows

LEMMA TokenReadsSerial ==
    ASSUME NEW q \in Reqs, IndInv, SerialInv(q), NEW t \in Tokens,
           RotateRead(q, t) \/ LogoutRead(q, t)
    PROVE  SerialInv(q)'
<1> USE DEF Request, Idle, RevokingOps
<1>1. req[q].at # "issued" /\ UNCHANGED <<rowVars, accountVars>> /\ req \in [Reqs -> Requests]
    BY DEF RotateRead, LogoutRead, IndInv, TypeOK
<1>2. req' \in [Reqs -> Requests]
    <2>1. [Next]_vars
        BY DEF Next
    <2> QED BY <2>1, TypeStep DEF IndInv, TypeOK
<1>3. \E rec \in Requests : req' = [req EXCEPT ![q] = rec]
    <2>1. req' = [req EXCEPT ![q] = req'[q]]
        BY <1>1 DEF RotateRead, LogoutRead
    <2> QED BY <1>2, <2>1
<1>4. row[t] # "free" /\ owner[t] \in Users
    BY DEF RotateRead, LogoutRead, Committed, Unrevoked, SerialInv, ChainsKnowTheirAccount
<1>5. HandlerKnows(q)'
    <2> DEFINE x == req'[q]
    <2>1. CASE RotateRead(q, t) /\ row[t] = "live"
        <3>1. /\ x.op = "rotate" /\ x.at = "read" /\ x.user = owner[t] /\ x.token = t
              /\ row' = row
            BY <1>1, <2>1 DEF RotateRead, rowVars
        <3> HIDE DEF Request, Idle
        <3> QED BY <1>4, <2>1, <3>1 DEF HandlerKnows, Unrevoked
    <2>2. CASE RotateRead(q, t) /\ row[t] = "revoked"
        <3>1. /\ x.op = "reuse" /\ x.at = "read" /\ x.user = owner[t] /\ x.token = t
              /\ row' = row /\ owner' = owner
            BY <1>1, <2>2 DEF RotateRead, rowVars
        <3> HIDE DEF Request, Idle
        <3> QED BY <1>4, <2>2, <3>1 DEF HandlerKnows, Committed
    <2>3. CASE LogoutRead(q, t)
        BY <1>1, <1>4, <2>3 DEF LogoutRead, HandlerKnows, rowVars
    <2> QED BY <2>1, <2>2, <2>3 DEF RotateRead
<1> HIDE DEF Request, Idle, RevokingOps
<1> QED BY <1>1, <1>3, <1>5, ReadKeepsRows

LEMMA SweepsSerial ==
    ASSUME NEW q \in Reqs, IndInv, SerialInv(q), SweepStart(q) \/ SweepLocks(q)
    PROVE  SerialInv(q)'
<1>1. /\ req[q].at \in {"read", "sweeping"} /\ UNCHANGED <<rowVars, accountVars>>
      /\ req \in [Reqs -> Requests] /\ req[q] \in Requests
    BY DEF SweepStart, SweepLocks, IndInv, TypeOK
<1>2. req' \in [Reqs -> Requests]
    <2>1. [Next]_vars
        BY DEF Next, Step
    <2> QED BY <2>1, TypeStep DEF IndInv, TypeOK
<1>3. \E rec \in Requests : req' = [req EXCEPT ![q] = rec]
    <2>1. req' = [req EXCEPT ![q] = req'[q]]
        BY <1>1 DEF SweepStart, SweepLocks
    <2> QED BY <1>2, <2>1
<1> DEFINE x == req[q]
<1> DEFINE y == req'[q]
<1>4. HandlerKnows(q)
    BY DEF SerialInv
<1>5. /\ y.op = x.op /\ y.user = x.user /\ y.token = x.token /\ y.fresh = x.fresh
      /\ y.epoch = x.epoch /\ y.active = x.active /\ y.mustChange = x.mustChange
      /\ y.at \in {"sweeping", "swept"} /\ x.at # "idle" /\ y.at # "idle" /\ y.at # "issued"
    BY <1>1 DEF SweepStart, SweepLocks, Requests
<1>6. y.op \in RevokingOps => y.target = UnrevokedOf(y.user)
    <2>1. CASE SweepStart(q)
        <3>1. y.target = UnrevokedOf(x.user)
            BY <1>1, <2>1 DEF SweepStart, Requests
        <3> QED BY <1>5, <3>1
    <2>2. CASE SweepLocks(q)
        <3>1. y.target = x.target
            BY <1>1, <2>2 DEF SweepLocks, Requests
        <3>2. x.at = "sweeping"
            BY <2>2 DEF SweepLocks
        <3> HIDE DEF y
        <3> QED BY <1>4, <1>5, <3>1, <3>2 DEF HandlerKnows
    <2> QED BY <2>1, <2>2
<1>7. x.op \in RevokingOps
    <2>1. CASE SweepStart(q)
        BY <2>1 DEF SweepStart
    <2>2. CASE SweepLocks(q)
        BY <1>4, <2>2 DEF SweepLocks, HandlerKnows
    <2> QED BY <2>1, <2>2
<1>8. HandlerKnows(q)'
    <2>1. \A u \in Users \cup {None} : UnrevokedOf(u)' = UnrevokedOf(u)
        BY <1>1 DEF UnrevokedOf, rowVars
    <2> HIDE DEF x, y
    <2>2. /\ row' = row /\ owner' = owner /\ active' = active /\ epoch' = epoch
          /\ mustChange' = mustChange
        BY <1>1 DEF rowVars, accountVars
    <2>3. x.user \in Users \cup {None}
        BY <1>1 DEF Requests, x
    <2>4. \A t : Committed(t)' <=> Committed(t)
        BY <2>2 DEF Committed
    <2>5. y.op \in RevokingOps => y.target = UnrevokedOf(y.user)
        BY <1>6
    <2>6. x = req[q] /\ y = req'[q]
        BY DEF x, y
    <2>7. y.op \in RevokingOps
        BY <1>5, <1>7
    <2>8. req'[q].target = UnrevokedOf(req'[q].user) /\ req'[q].user \in Users \cup {None}
        BY <1>5, <2>3, <2>5, <2>6, <2>7
    <2> QED BY <1>4, <1>5, <2>1, <2>2, <2>4, <2>6, <2>7, <2>8 DEF HandlerKnows, RevokingOps
<1> QED BY <1>1, <1>3, <1>8, ReadKeepsRows

LEMMA IssuesSerial ==
    ASSUME NEW q \in Reqs, NEW t \in Tokens, IndInv, SerialInv(q),
           LoginIssue(q, t) \/ RotateIssue(q, t) \/ ChangeIssue(q, t)
    PROVE  SerialInv(q)'
<1> DEFINE x == req[q]
<1> DEFINE y == req'[q]
<1>1. /\ row[t] = "free" /\ row' = [row EXCEPT ![t] = "open"]
      /\ owner' = [owner EXCEPT ![t] = x.user]
      /\ req' = [req EXCEPT ![q].fresh = t, ![q].at = "issued"]
      /\ UNCHANGED accountVars /\ x.at # "idle" /\ x.at # "issued"
      /\ x.op \in {"login", "rotate", "change"}
    BY DEF LoginIssue, RotateIssue, ChangeIssue, IssueToken
<1>2. /\ row \in [Tokens -> {"free", "open", "live", "expired", "revoked"}]
      /\ owner \in [Tokens -> Users \cup {None}] /\ req \in [Reqs -> Requests] /\ x \in Requests
      /\ parent \in [Tokens -> Tokens \cup {None}] /\ family \in [Tokens -> Tokens \cup {None}]
      /\ under \in [Tokens -> Nat]
    BY DEF IndInv, TypeOK
<1>3. /\ y.op = x.op /\ y.user = x.user /\ y.token = x.token /\ y.target = x.target
      /\ y.epoch = x.epoch /\ y.active = x.active /\ y.mustChange = x.mustChange
      /\ y.at = "issued" /\ y.fresh = t
    BY <1>1, <1>2 DEF Requests
<1>4. /\ HandlerKnows(q) /\ OpenIsHeld(q) /\ ChainsKnowTheirAccount
      /\ UnrevokedAreCurrent /\ OneSuccessor
    BY DEF SerialInv
<1>5. \A r \in Reqs \ {q} : req'[r] = Idle
    BY <1>1, <1>2 DEF SerialInv
<1>6. OpenIsHeld(q)'
    BY <1>1, <1>2, <1>3, <1>4 DEF OpenIsHeld
<1>7. x.user \in Users /\ (x.op = "rotate" => x.token \in Tokens /\ Committed(x.token)
                                               /\ owner[x.token] = x.user
                                               /\ row[x.token] \in Unrevoked)
    BY <1>1, <1>4 DEF HandlerKnows, IndInv, RequestsHold, RequestHolds
<1>8. /\ x.op # "rotate" => /\ parent' = [parent EXCEPT ![t] = None]
                            /\ family' = [family EXCEPT ![t] = t]
                            /\ under' = [under EXCEPT ![t] = x.epoch]
      /\ x.op = "rotate" => /\ parent' = [parent EXCEPT ![t] = x.token]
                            /\ family' = [family EXCEPT ![t] = family[x.token]]
                            /\ under' = [under EXCEPT ![t] = under[x.token]]
                            /\ active[x.user]
      /\ x.op = "change" => x.at = "swept"
    BY <1>7 DEF LoginIssue, RotateIssue, ChangeIssue, IssueToken
<1> HIDE DEF x, y
<1>9. \A s \in Tokens : Committed(s)' <=> Committed(s)
    BY <1>1, <1>2 DEF Committed, Unrevoked
<1>10. \A u \in Users : UnrevokedOf(u)' = UnrevokedOf(u)
    BY <1>1, <1>2 DEF UnrevokedOf, Unrevoked
<1>11. ChainsKnowTheirAccount'
    <2> SUFFICES ASSUME NEW s \in Tokens, row'[s] # "free"
                 PROVE  /\ owner'[s] \in Users /\ family'[s] \in Tokens
                        /\ owner'[family'[s]] = owner'[s]
                        /\ family'[s] = s \/ row'[family'[s]] \in Unrevoked \cup {"revoked"}
        BY DEF ChainsKnowTheirAccount, Committed
    <2>1. CASE s # t
        <3>1. row[s] # "free" /\ owner'[s] = owner[s] /\ family'[s] = family[s]
            BY <1>1, <1>2, <1>8, <2>1
        <3>2. /\ owner[s] \in Users /\ family[s] \in Tokens /\ owner[family[s]] = owner[s]
              /\ family[s] = s \/ Committed(family[s])
            BY <1>4, <3>1 DEF ChainsKnowTheirAccount
        <3>3. family[s] # t
            BY <1>1, <2>1, <3>2 DEF Committed, Unrevoked
        <3> QED BY <1>1, <1>2, <1>9, <3>1, <3>2, <3>3 DEF Committed
    <2>2. CASE s = t /\ x.op # "rotate"
        BY <1>1, <1>2, <1>7, <1>8, <2>2
    <2>3. CASE s = t /\ x.op = "rotate"
        <3>1. /\ family[x.token] \in Tokens /\ owner[family[x.token]] = owner[x.token]
              /\ Committed(family[x.token])
            BY <1>4, <1>7, <2>3 DEF ChainsKnowTheirAccount, Committed, Unrevoked
        <3>2. family[x.token] # t
            BY <1>1, <3>1 DEF Committed, Unrevoked
        <3> QED BY <1>1, <1>2, <1>7, <1>8, <1>9, <2>3, <3>1, <3>2 DEF Committed
    <2> QED BY <2>1, <2>2, <2>3
<1>12. UnrevokedAreCurrent'
    <2>1. \A s \in Tokens : row'[s] \in Unrevoked =>
              s # t /\ row[s] = row'[s] /\ owner'[s] = owner[s] /\ under'[s] = under[s]
        BY <1>1, <1>2, <1>8 DEF Unrevoked
    <2> QED BY <1>1, <1>4, <2>1 DEF UnrevokedAreCurrent, accountVars
<1>13. OneSuccessor'
    <2>1. \A s \in Tokens : Committed(s)' => Committed(s) /\ parent'[s] = parent[s]
        BY <1>1, <1>2, <1>8, <1>9 DEF Committed, Unrevoked
    <2> QED BY <1>4, <2>1 DEF OneSuccessor
<1>14. HandlerKnows(q)'
    <2>1. x = req[q] /\ y = req'[q]
        BY DEF x, y
    <2>2. active' = active /\ epoch' = epoch /\ mustChange' = mustChange
        BY <1>1 DEF accountVars
    <2>3. owner'[t] = x.user
        BY <1>1, <1>2
    <2>4. CASE x.op = "login"
        <3>1. under'[t] = x.epoch
            BY <1>2, <1>8, <2>4
        <3>2. active[x.user] /\ x.epoch = epoch[x.user]
            BY <1>1, <1>4, <2>1, <2>4 DEF HandlerKnows
        <3> QED BY <1>3, <1>7, <2>1, <2>2, <2>3, <2>4, <3>1, <3>2 DEF HandlerKnows, RevokingOps
    <2>5. CASE x.op = "rotate"
        <3>1. x.token # t
            BY <1>1, <1>7, <2>5 DEF Unrevoked
        <3>2. /\ under'[t] = under'[x.token] /\ row'[x.token] \in Unrevoked
              /\ active[x.user]
            BY <1>1, <1>2, <1>7, <1>8, <2>5, <3>1
        <3> QED BY <1>3, <1>7, <2>1, <2>2, <2>3, <2>5, <3>2 DEF HandlerKnows, RevokingOps
    <2>6. CASE x.op = "change"
        <3>1. x.at = "swept" /\ x.op \in RevokingOps
            BY <1>8, <2>6 DEF RevokingOps
        <3>2. active[x.user] /\ x.mustChange = mustChange[x.user] /\ x.target = UnrevokedOf(x.user)
            BY <1>4, <2>1, <2>6, <3>1 DEF HandlerKnows
        <3>4. req'[q].user \in Users /\ req'[q].target = UnrevokedOf(req'[q].user)
            BY <1>3, <1>7, <2>1, <3>2
        <3> QED BY <1>3, <1>7, <1>10, <2>1, <2>2, <2>3, <2>6, <3>2, <3>4 DEF HandlerKnows, RevokingOps
    <2> QED BY <1>1, <2>4, <2>5, <2>6
<1> QED BY <1>5, <1>6, <1>11, <1>12, <1>13, <1>14 DEF SerialInv

\* A commit leaves no open row and no request: rows in G become revoked, the
\* inserted one live.
LEMMA CommitSerial ==
    ASSUME NEW q \in Reqs, IndInv, SerialInv(q), NEW G \in SUBSET Tokens,
           \A t \in G : Committed(t),
           row' = [t \in Tokens |-> IF t \in G THEN "revoked"
                                    ELSE IF t = req[q].fresh THEN "live" ELSE row[t]],
           req[q].op = "rotate" /\ req[q].at = "issued" => req[q].token \in G,
           UNCHANGED <<owner, parent, family>>, req' = [req EXCEPT ![q] = Idle],
           UnrevokedAreCurrent'
    PROVE  SerialInv(q)'
<1> DEFINE x == req[q]
<1>1. /\ row \in [Tokens -> {"free", "open", "live", "expired", "revoked"}]
      /\ req \in [Reqs -> Requests] /\ RequestHolds(q) /\ ChainHasOneEnd
    BY DEF IndInv, TypeOK, RequestsHold
<1>2. /\ HandlerKnows(q) /\ OpenIsHeld(q) /\ ChainsKnowTheirAccount /\ OneSuccessor
    BY DEF SerialInv
<1>3. (\A r \in Reqs \ {q} : req'[r] = Idle) /\ req'[q] = Idle
    BY <1>1 DEF SerialInv
<1>4. \A t \in Tokens : t = x.fresh => x.at = "issued" /\ row[t] = "open"
    BY <1>1 DEF RequestHolds
<1>5. OpenIsHeld(q)'
    BY <1>1, <1>2 DEF OpenIsHeld
<1>6. HandlerKnows(q)'
    BY <1>3 DEF HandlerKnows, Idle, RevokingOps
<1>7. \A t \in Tokens : /\ Committed(t) => Committed(t)'
                        /\ Committed(t)' => Committed(t) \/ t = x.fresh
                        /\ row'[t] # "free" => row[t] # "free"
    BY <1>1, <1>4 DEF Committed, Unrevoked
<1>8. ChainsKnowTheirAccount'
    <2> SUFFICES ASSUME NEW t \in Tokens, row'[t] # "free"
                 PROVE  /\ owner[t] \in Users /\ family[t] \in Tokens /\ owner[family[t]] = owner[t]
                        /\ family[t] = t \/ row'[family[t]] \in Unrevoked \cup {"revoked"}
        BY DEF ChainsKnowTheirAccount, Committed
    <2>1. /\ owner[t] \in Users /\ family[t] \in Tokens /\ owner[family[t]] = owner[t]
          /\ family[t] = t \/ Committed(family[t])
        BY <1>2, <1>7 DEF ChainsKnowTheirAccount
    <2> QED BY <1>7, <2>1 DEF Committed
<1>9. OneSuccessor'
    <2> SUFFICES ASSUME NEW s \in Tokens, NEW t \in Tokens, parent[s] = parent[t],
                        parent[s] # None, Committed(s)', Committed(t)'
                 PROVE  s = t
        BY DEF OneSuccessor
    <2>1. \A a, b \in Tokens : a = x.fresh /\ Committed(b) /\ parent[a] = parent[b]
                               => parent[a] = None
        <3> SUFFICES ASSUME NEW a \in Tokens, NEW b \in Tokens, a = x.fresh, Committed(b),
                            parent[a] = parent[b], parent[a] # None
                     PROVE  FALSE
            OBVIOUS
        <3>1. x.op = "rotate" /\ x.at = "issued" /\ parent[a] = x.token
            BY <1>1, <1>4 DEF RequestHolds
        <3>2. row[x.token] \in Unrevoked
            BY <1>2, <3>1 DEF HandlerKnows
        <3>3. row[x.token] = "revoked"
            BY <1>1, <3>1 DEF ChainHasOneEnd
        <3> QED BY <3>2, <3>3 DEF Unrevoked
    <2> QED BY <1>2, <1>7, <2>1 DEF OneSuccessor
<1> QED BY <1>3, <1>5, <1>6, <1>8, <1>9 DEF SerialInv

LEMMA CommitsSerial ==
    ASSUME NEW q \in Reqs, IndInv, SerialInv(q),
           LoginCommit(q) \/ RotateCommit(q) \/ LogoutCommit(q) \/ RevokeCommit(q)
    PROVE  SerialInv(q)'
<1> DEFINE x == req[q]
<1> DEFINE Outcome(G) == [t \in Tokens |-> IF t \in G THEN "revoked"
                                   ELSE IF t = x.fresh THEN "live" ELSE row[t]]
<1>1. /\ row \in [Tokens -> {"free", "open", "live", "expired", "revoked"}]
      /\ epoch \in [Users -> Nat] /\ under \in [Tokens -> Nat] /\ owner \in [Tokens -> Users \cup {None}]
      /\ x.target \in SUBSET Tokens /\ RequestHolds(q)
      /\ x.at = "issued" => x.fresh \in Tokens /\ row[x.fresh] = "open"
      /\ x.at # "issued" => x.fresh \notin Tokens
      /\ \A t \in x.target : Committed(t)
    BY DEF IndInv, TypeOK, Requests, RequestsHold, RequestHolds
<1>2. HandlerKnows(q) /\ UnrevokedAreCurrent /\ ChainsKnowTheirAccount
    BY DEF SerialInv
<1>3. CASE LoginCommit(q)
    <2> DEFINE G == {}
    <2>1. row' = Outcome(G)
        BY <1>1, <1>3 DEF LoginCommit
    <2>2. under[x.fresh] = epoch[owner[x.fresh]]
        BY <1>2, <1>3 DEF LoginCommit, HandlerKnows
    <2>3. UnrevokedAreCurrent'
        BY <1>1, <1>2, <1>3, <2>2 DEF LoginCommit, UnrevokedAreCurrent, accountVars
    <2>4. /\ x.op # "rotate" /\ UNCHANGED <<owner, parent, family>>
          /\ req' = [req EXCEPT ![q] = Idle]
        BY <1>3 DEF LoginCommit
    <2>5. G \in SUBSET Tokens /\ \A t \in G : Committed(t)
        OBVIOUS
    <2> HIDE DEF G
    <2> QED BY <2>1, <2>3, <2>4, <2>5, CommitSerial
<1>4. CASE RotateCommit(q)
    <2> DEFINE G == {x.token}
    <2>1. x.token \in Tokens /\ Committed(x.token) /\ row[x.fresh] = "open" /\ x.fresh \in Tokens
        BY <1>1, <1>4 DEF RotateCommit, RequestHolds
    <2>2. row' = Outcome(G)
        BY <1>1, <1>4, <2>1 DEF RotateCommit, Committed, Unrevoked
    <2>3. under[x.fresh] = epoch[owner[x.fresh]]
        <3>1. under[x.fresh] = under[x.token] /\ row[x.token] \in Unrevoked
              /\ owner[x.fresh] = x.user /\ owner[x.token] = x.user
            BY <1>1, <1>2, <1>4 DEF RotateCommit, HandlerKnows, RequestHolds
        <3> QED BY <1>2, <2>1, <3>1 DEF UnrevokedAreCurrent
    <2>4. UnrevokedAreCurrent'
        <3>1. \A t \in Tokens : row'[t] \in Unrevoked => t = x.fresh \/ row[t] \in Unrevoked
            BY <2>2 DEF Unrevoked
        <3>2. UNCHANGED <<owner, epoch, under>>
            BY <1>4 DEF RotateCommit, accountVars
        <3> QED BY <1>2, <2>3, <3>1, <3>2 DEF UnrevokedAreCurrent
    <2>5. UNCHANGED <<owner, parent, family>> /\ req' = [req EXCEPT ![q] = Idle]
        BY <1>4 DEF RotateCommit
    <2>6. G \in SUBSET Tokens /\ (\A t \in G : Committed(t)) /\ x.token \in G
        BY <2>1
    <2> HIDE DEF G
    <2> QED BY <2>2, <2>4, <2>5, <2>6, CommitSerial
<1>5. CASE LogoutCommit(q)
    <2>1. row' = Outcome(x.target)
        BY <1>1, <1>5 DEF LogoutCommit
    <2>2. UnrevokedAreCurrent'
        <3>1. \A t \in Tokens : row'[t] \in Unrevoked => row[t] \in Unrevoked
            BY <1>5 DEF LogoutCommit, Unrevoked
        <3>2. UNCHANGED <<owner, epoch, under>>
            BY <1>5 DEF LogoutCommit, accountVars
        <3> QED BY <1>2, <3>1, <3>2 DEF UnrevokedAreCurrent
    <2>3. /\ UNCHANGED <<owner, parent, family>> /\ req' = [req EXCEPT ![q] = Idle]
          /\ x.op # "rotate"
        BY <1>5 DEF LogoutCommit
    <2> QED BY <1>1, <2>1, <2>2, <2>3, CommitSerial
<1>6. CASE RevokeCommit(q)
    <2>1. row' = Outcome(x.target) /\ x.op \in RevokingOps
        BY <1>1, <1>6 DEF RevokeCommit
    <2>2. x.target = UnrevokedOf(x.user) /\ x.user \in Users
        BY <1>2, <1>6 DEF RevokeCommit, HandlerKnows
    <2>3. /\ UNCHANGED <<owner, parent, family>> /\ req' = [req EXCEPT ![q] = Idle]
          /\ x.op # "rotate"
        BY <1>6 DEF RevokeCommit, RevokingOps
    <2>4. epoch' = IF x.op \in {"reset", "change"} THEN [epoch EXCEPT ![x.user] = @ + 1] ELSE epoch
        BY <1>6, <2>1 DEF RevokeCommit, AccountWrite, RevokingOps, accountVars
    <2>5. UnrevokedAreCurrent'
        <3> SUFFICES ASSUME NEW t \in Tokens, row'[t] \in Unrevoked
                     PROVE  under'[t] = epoch'[owner[t]]
            BY <2>3 DEF UnrevokedAreCurrent
        <3>1. CASE t = x.fresh
            <4>1. x.op = "change" /\ owner[t] = x.user
                BY <1>1, <1>2, <1>6, <3>1 DEF RevokeCommit, HandlerKnows
            <4>2. under'[t] = epoch[x.user] + 1
                BY <1>6, <3>1 DEF RevokeCommit
            <4> QED BY <1>1, <2>2, <2>4, <4>1, <4>2
        <3>2. CASE t # x.fresh
            <4>1. row[t] \in Unrevoked /\ t \notin x.target
                BY <2>1, <3>2 DEF Unrevoked
            <4>2. owner[t] # x.user /\ under'[t] = under[t]
                BY <1>6, <2>2, <3>2, <4>1 DEF RevokeCommit, UnrevokedOf
            <4>3. owner[t] \in Users
                BY <1>2, <4>1 DEF ChainsKnowTheirAccount, Unrevoked
            <4> QED BY <1>1, <1>2, <2>4, <4>1, <4>2, <4>3 DEF UnrevokedAreCurrent
        <3> QED BY <3>1, <3>2
    <2> QED BY <1>1, <2>1, <2>3, <2>5, CommitSerial
<1> QED BY <1>3, <1>4, <1>5, <1>6

LEMMA RollbackSerial ==
    ASSUME NEW q \in Reqs, IndInv, SerialInv(q), Rollback(q)
    PROVE  SerialInv(q)'
<1> DEFINE f == req[q].fresh
<1>1. /\ row \in [Tokens -> {"free", "open", "live", "expired", "revoked"}]
      /\ req \in [Reqs -> Requests]
      /\ f \in Tokens => req[q].at = "issued" /\ row[f] = "open"
    BY DEF IndInv, TypeOK, RequestsHold, RequestHolds
<1>2. req' = [req EXCEPT ![q] = Idle] /\ UNCHANGED accountVars
    BY DEF Rollback
<1>3. (\A r \in Reqs \ {q} : req'[r] = Idle) /\ req'[q] = Idle
    BY <1>1, <1>2 DEF SerialInv
<1>4. \A t \in Tokens : t # f => /\ row'[t] = row[t] /\ owner'[t] = owner[t] /\ parent'[t] = parent[t]
                                /\ family'[t] = family[t] /\ under'[t] = under[t]
    BY DEF Rollback
<1>5. f \in Tokens => row'[f] = "free"
    BY DEF Rollback
<1> HIDE DEF f
<1>6. HandlerKnows(q)'
    BY <1>3 DEF HandlerKnows, Idle, RevokingOps
<1>7. OpenIsHeld(q)'
    BY <1>4, <1>5 DEF SerialInv, OpenIsHeld, f
<1>8. ChainsKnowTheirAccount'
    <2> SUFFICES ASSUME NEW t \in Tokens, row'[t] # "free"
                 PROVE  /\ owner'[t] \in Users /\ family'[t] \in Tokens
                        /\ owner'[family'[t]] = owner'[t]
                        /\ family'[t] = t \/ row'[family'[t]] \in Unrevoked \cup {"revoked"}
        BY DEF ChainsKnowTheirAccount, Committed
    <2>1. t # f /\ row[t] # "free"
        BY <1>4, <1>5
    <2>2. /\ owner[t] \in Users /\ family[t] \in Tokens /\ owner[family[t]] = owner[t]
          /\ family[t] = t \/ Committed(family[t])
        BY <2>1 DEF SerialInv, ChainsKnowTheirAccount
    <2>3. family[t] # f
        BY <1>1, <2>1, <2>2 DEF Committed, Unrevoked
    <2> QED BY <1>4, <2>1, <2>2, <2>3 DEF Committed
<1>9. UnrevokedAreCurrent'
    <2>1. \A t \in Tokens : row'[t] \in Unrevoked => t # f
        BY <1>5 DEF Unrevoked
    <2> QED BY <1>2, <1>4, <2>1 DEF SerialInv, UnrevokedAreCurrent, accountVars
<1>10. OneSuccessor'
    <2>1. \A t \in Tokens : Committed(t)' => Committed(t) /\ parent'[t] = parent[t]
        BY <1>4, <1>5 DEF Committed, Unrevoked
    <2> QED BY <2>1 DEF SerialInv, OneSuccessor
<1> QED BY <1>3, <1>6, <1>7, <1>8, <1>9, <1>10 DEF SerialInv

LEMMA OtherStepsSerial ==
    ASSUME NEW q \in Reqs, IndInv, SerialInv(q),
           (\E u \in Users : Enable(u)) \/ (\E t \in Tokens : Expire(t))
    PROVE  SerialInv(q)'
<1>1. /\ row \in [Tokens -> {"free", "open", "live", "expired", "revoked"}]
      /\ active \in [Users -> BOOLEAN] /\ req[q] \in Requests
    BY DEF IndInv, TypeOK
<1>2. CASE \E u \in Users : Enable(u)
    <2>1. UNCHANGED <<row, owner, family, parent, under, mustChange, epoch, req>>
        BY <1>2 DEF Enable, rowVars
    <2>2. \A u \in Users : active[u] => active'[u]
        BY <1>1, <1>2 DEF Enable
    <2>3. \A u \in Users : UnrevokedOf(u)' = UnrevokedOf(u)
        BY <2>1 DEF UnrevokedOf
    <2>4. req[q].at # "idle" \/ req[q].op \in RevokingOps \ {"reuse"} => req[q].user \in Users
        BY DEF SerialInv, HandlerKnows, IndInv, RequestsHold, RequestHolds
    <2>5. HandlerKnows(q)'
        BY <2>1, <2>2, <2>3, <2>4 DEF SerialInv, HandlerKnows, Committed, RevokingOps
    <2> QED BY <2>1, <2>5 DEF SerialInv, OpenIsHeld, ChainsKnowTheirAccount,
               UnrevokedAreCurrent, OneSuccessor, Committed
<1>3. CASE \E t \in Tokens : Expire(t)
    <2>1. UNCHANGED <<owner, family, parent, under, active, mustChange, epoch, req>>
        BY <1>3 DEF Expire, accountVars
    <2>2. \A t \in Tokens : row'[t] = row[t] \/ (row[t] = "live" /\ row'[t] = "expired")
        BY <1>1, <1>3 DEF Expire
    <2>3. \A t \in Tokens : /\ row'[t] \in Unrevoked <=> row[t] \in Unrevoked
                            /\ row'[t] = "free" <=> row[t] = "free"
                            /\ row'[t] = "open" <=> row[t] = "open"
        BY <2>2 DEF Unrevoked
    <2>4. \A t \in Tokens : Committed(t)' <=> Committed(t)
        BY <2>2 DEF Committed, Unrevoked
    <2>5. \A u \in Users : UnrevokedOf(u)' = UnrevokedOf(u)
        BY <2>1, <2>3 DEF UnrevokedOf
    <2>6. req[q].at # "idle" \/ req[q].op \in RevokingOps \ {"reuse"} => req[q].user \in Users
        BY DEF SerialInv, HandlerKnows, IndInv, RequestsHold, RequestHolds
    <2>7. /\ req[q].op = "rotate" /\ req[q].at # "idle" => req[q].token \in Tokens
          /\ req[q].target \subseteq Tokens
        BY <1>1 DEF IndInv, RequestsHold, RequestHolds, Requests
    <2>8. HandlerKnows(q)'
        BY <2>1, <2>5, <2>6, <2>7, <2>3, <2>4 DEF SerialInv, HandlerKnows, RevokingOps
    <2> QED BY <2>1, <2>8, <2>3, <2>4 DEF SerialInv, OpenIsHeld, ChainsKnowTheirAccount,
               UnrevokedAreCurrent, OneSuccessor
<1> QED BY <1>2, <1>3

\* Only the one handler can step: the others are idle and may not begin.
LEMMA SerialStep ==
    ASSUME IndInv, NEW q \in Reqs, size.reqs = {q}, SerialInv(q), [SizedNext]_<<vars, size>>
    PROVE  /\ SerialInv(q)'
           /\ \/ UNCHANGED vars
              \/ Step(q) \/ Rollback(q)
              \/ \E u \in Users : LoginRead(q, u) \/ DisableRead(q, u) \/ ResetRead(q, u)
                                  \/ ChangeRead(q, u) \/ Enable(u)
              \/ \E t \in Tokens : RotateRead(q, t) \/ LogoutRead(q, t) \/ Expire(t)
<1>1. CASE UNCHANGED <<vars, size>>
    BY <1>1 DEF vars, SerialInv, HandlerKnows, OpenIsHeld, ChainsKnowTheirAccount,
                UnrevokedAreCurrent, OneSuccessor, Committed, UnrevokedOf
<1>2. CASE SizedNext
    <2>1. \A r \in Reqs \ {q} : req[r].at = "idle" /\ req'[r].at = "idle"
        BY <1>2 DEF SizedNext, SerialInv, Idle
    <2>2. ASSUME NEW r \in Reqs, Step(r) PROVE r = q
        <3> SUFFICES ASSUME r # q PROVE FALSE
            OBVIOUS
        <3>1. req[r].at = "idle"
            BY <2>1
        <3>2. \A t \in Tokens : ~(LoginIssue(r, t) \/ RotateIssue(r, t) \/ ChangeIssue(r, t))
            BY <3>1 DEF LoginIssue, RotateIssue, ChangeIssue
        <3>3. ~(LoginCommit(r) \/ RotateCommit(r) \/ LogoutCommit(r) \/ SweepStart(r) \/ SweepLocks(r)
                \/ RevokeCommit(r))
            BY <3>1 DEF LoginCommit, RotateCommit, LogoutCommit, SweepStart, SweepLocks, RevokeCommit
        <3> QED BY <2>2, <3>2, <3>3 DEF Step
    <2>3. ASSUME NEW r \in Reqs, Rollback(r) PROVE r = q
        BY <2>1, <2>3 DEF Rollback
    <2>4. req \in [Reqs -> Requests]
        BY DEF IndInv, TypeOK
    <2>5. ASSUME NEW r \in Reqs, NEW u \in Users,
                 LoginRead(r, u) \/ DisableRead(r, u) \/ ResetRead(r, u) \/ ChangeRead(r, u)
          PROVE  r = q
        <3>1. req'[r].at = "read"
            <4> USE <2>4 DEF Request, Idle
            <4>1. CASE LoginRead(r, u)
                BY <4>1 DEF LoginRead
            <4>2. CASE DisableRead(r, u)
                BY <4>2 DEF DisableRead
            <4>3. CASE ResetRead(r, u)
                BY <4>3 DEF ResetRead
            <4>4. CASE ChangeRead(r, u)
                BY <4>4 DEF ChangeRead
            <4> QED BY <2>5, <4>1, <4>2, <4>3, <4>4
        <3> QED BY <2>1, <3>1
    <2>6. ASSUME NEW r \in Reqs, NEW t \in Tokens, RotateRead(r, t) \/ LogoutRead(r, t)
          PROVE  r = q
        <3>1. req'[r].at = "read"
            BY <2>4, <2>6 DEF RotateRead, LogoutRead, Request, Idle
        <3> QED BY <2>1, <3>1
    <2>7. \/ Step(q) \/ Rollback(q)
          \/ \E u \in Users : LoginRead(q, u) \/ DisableRead(q, u) \/ ResetRead(q, u)
                              \/ ChangeRead(q, u) \/ Enable(u)
          \/ \E t \in Tokens : RotateRead(q, t) \/ LogoutRead(q, t) \/ Expire(t)
        BY <1>2, <2>2, <2>3, <2>5, <2>6 DEF SizedNext, Next
    <2>8. SerialInv(q)'
        BY <2>7, IssuesSerial, CommitsSerial, SweepsSerial, RollbackSerial, AccountReadsSerial,
           TokenReadsSerial, OtherStepsSerial DEF Step
    <2> QED BY <2>7, <2>8
<1> QED BY <1>1, <1>2

LEMMA SerialNext == SerialIndInv /\ [SizedNext]_<<vars, size>> => SerialIndInv'
<1> SUFFICES ASSUME SerialIndInv, [SizedNext]_<<vars, size>> PROVE SerialIndInv'
    OBVIOUS
<1>1. IndInv'
    BY NextInv DEF SerialIndInv, SizedNext, vars
<1>2. size' = size
    BY DEF SizedNext
<1> QED BY <1>1, <1>2, SerialStep DEF SerialIndInv

LEMMA SerialAlways == SizedSpec => []SerialIndInv
BY SerialInit, SerialNext, PTL DEF SizedSpec

\* When requests do not overlap, a refresh token is exchanged at most once, and
\* whatever can be exchanged was obtained with the password in force.
THEOREM SerialTokensAreSound == SizedSpec => []TokensAreSound
<1>1. SerialIndInv => TokensAreSound
    <2> SUFFICES ASSUME SerialIndInv, NEW q \in Reqs, SerialInv(q)
                 PROVE  SingleUse /\ TokensOfCurrentPassword
        BY DEF TokensAreSound, OneAtATime, SerialIndInv
    <2>1. TokensOfCurrentPassword
        BY DEF TokensOfCurrentPassword, SerialInv, UnrevokedAreCurrent, Unrevoked
    <2>2. ASSUME NEW t \in Tokens PROVE Cardinality(Successors(t)) <= 1
        <3>1. \A s, z \in Successors(t) : s = z
            BY DEF Successors, SerialInv, OneSuccessor
        <3>2. CASE Successors(t) = {}
            BY <3>2, FS_EmptySet
        <3>3. CASE Successors(t) # {}
            <4>1. PICK s : Successors(t) = {s}
                BY <3>1, <3>3
            <4> QED BY <4>1, FS_Singleton
        <3> QED BY <3>2, <3>3
    <2> QED BY <2>1, <2>2 DEF SingleUse
<1> QED BY <1>1, SerialAlways, PTL

\* When requests do not overlap, a replayed token leaves no usable token in its
\* chain of rotations, and a reset makes the account change its password.
THEOREM SerialRevokingTakesEffect == SizedSpec => RevokingTakesEffect
<1> DEFINE A == OneAtATime => ReuseRevokesFamily /\ ResetForcesChange
<1>1. SerialIndInv /\ [SizedNext]_<<vars, size>> => [A]_vars
    <2> SUFFICES ASSUME SerialIndInv, [SizedNext]_<<vars, size>>, NEW q \in Reqs, size.reqs = {q},
                        NEW r \in Reqs, RevokeCommit(r)
                 PROVE  /\ req[r].op = "reuse" => \A t \in Tokens :
                               family[t] = family[req[r].token] => row'[t] # "live"
                        /\ req[r].op = "reset" => mustChange'[req[r].user]
        BY DEF OneAtATime, ReuseRevokesFamily, ResetForcesChange
    <2>1. SerialInv(q) /\ IndInv
        BY DEF SerialIndInv
    <2>2. r = q
        BY <2>1 DEF RevokeCommit, SerialInv, Idle
    <2>3. HandlerKnows(r) /\ RequestHolds(r) /\ ChainsKnowTheirAccount
        BY <2>1, <2>2 DEF SerialInv, IndInv, RequestsHold
    <2>4. ASSUME req[r].op = "reuse", NEW t \in Tokens, family[t] = family[req[r].token],
                 row'[t] = "live"
          PROVE  FALSE
        <3>1. /\ req[r].token \in Tokens /\ Committed(req[r].token) /\ req[r].fresh = None
              /\ owner[req[r].token] = req[r].user /\ req[r].target = UnrevokedOf(req[r].user)
            BY <2>3, <2>4 DEF RevokeCommit, HandlerKnows, RequestHolds, RevokingOps
        <3>2. row[t] = "live" /\ t \notin UnrevokedOf(req[r].user)
            BY <2>4, <3>1 DEF RevokeCommit
        <3>3. owner[t] = owner[family[t]] /\ owner[req[r].token] = owner[family[req[r].token]]
            BY <2>3, <3>1, <3>2 DEF ChainsKnowTheirAccount, Committed, Unrevoked
        <3> QED BY <2>4, <3>1, <3>2, <3>3 DEF UnrevokedOf, Unrevoked
    <2>5. ASSUME req[r].op = "reset" PROVE mustChange'[req[r].user]
        <3>1. req[r].mustChange = mustChange[req[r].user] /\ req[r].user \in Users
            BY <2>3, <2>5 DEF HandlerKnows, RevokeCommit
        <3>2. mustChange' = [mustChange EXCEPT ![req[r].user] =
                                 IF req[r].mustChange THEN @ ELSE TRUE]
            BY <2>5 DEF RevokeCommit, AccountWrite
        <3>3. mustChange \in [Users -> BOOLEAN]
            BY <2>1 DEF IndInv, TypeOK
        <3> QED BY <3>1, <3>2, <3>3
    <2> QED BY <2>4, <2>5
<1>2. SizedSpec => [][A]_vars
    BY <1>1, SerialAlways, PTL DEF SizedSpec
<1> QED BY <1>2 DEF RevokingTakesEffect

-----------------------------------------------------------------------------
(* The refinement of SessionSpec.  A token is open in the promise when its   *)
(* row is committed and not revoked, so only commits, and Enable, are steps  *)
(* of the promise; everything a handler does before its commit is a stutter. *)

\* Rows that stay unrevoked, revoked or uncommitted, with their owners.
RowsLookTheSame ==
    /\ \A t \in Tokens : /\ row'[t] \in Unrevoked <=> row[t] \in Unrevoked
                         /\ row'[t] = "revoked" <=> row[t] = "revoked"
                         /\ Committed(t) => owner'[t] = owner[t]
    /\ active' = active /\ size' = size

LEMMA QuietPromise ==
    ASSUME RowsLookTheSame PROVE UNCHANGED Promise!abstractVars
<1>1. OneAtATime' <=> OneAtATime
    BY DEF RowsLookTheSame, OneAtATime
<1>2. openNow' = openNow /\ spentNow' = spentNow /\ enabledNow' = enabledNow
    BY <1>1 DEF RowsLookTheSame, openNow, spentNow, enabledNow
<1>3. \A t \in Tokens : Committed(t)' <=> Committed(t)
    BY DEF RowsLookTheSame, Committed
<1>4. holderNow' = holderNow
    BY <1>1, <1>3 DEF RowsLookTheSame, holderNow
<1> QED BY <1>2, <1>4 DEF Promise!abstractVars

LEMMA HandlingIsQuiet ==
    ASSUME IndInv, NEW q \in Reqs, size' = size,
           \/ UNCHANGED vars
           \/ SweepStart(q) \/ SweepLocks(q) \/ Rollback(q)
           \/ \E u \in Users : LoginRead(q, u) \/ DisableRead(q, u) \/ ResetRead(q, u)
                               \/ ChangeRead(q, u)
           \/ \E t \in Tokens : \/ LoginIssue(q, t) \/ RotateIssue(q, t) \/ ChangeIssue(q, t)
                               \/ RotateRead(q, t) \/ LogoutRead(q, t) \/ Expire(t)
    PROVE  RowsLookTheSame
<1>1. /\ row \in [Tokens -> {"free", "open", "live", "expired", "revoked"}]
      /\ owner \in [Tokens -> Users \cup {None}]
      /\ req[q].fresh \in Tokens => row[req[q].fresh] = "open"
    BY DEF IndInv, TypeOK, RequestsHold, RequestHolds
<1>2. CASE \/ UNCHANGED vars
           \/ SweepStart(q) \/ SweepLocks(q)
           \/ \E u \in Users : LoginRead(q, u) \/ DisableRead(q, u) \/ ResetRead(q, u)
                               \/ ChangeRead(q, u)
           \/ \E t \in Tokens : RotateRead(q, t) \/ LogoutRead(q, t)
    <2>1. row' = row /\ owner' = owner /\ active' = active
        BY <1>2 DEF vars, SweepStart, SweepLocks, LoginRead, DisableRead, ResetRead, ChangeRead,
                    RotateRead, LogoutRead, rowVars, accountVars
    <2> QED BY <2>1 DEF RowsLookTheSame
<1>3. CASE Rollback(q)
    <2>1. /\ active' = active
          /\ \A t \in Tokens : IF t = req[q].fresh THEN row'[t] = "free"
                                ELSE row'[t] = row[t] /\ owner'[t] = owner[t]
        BY <1>3 DEF Rollback, accountVars
    <2> QED BY <1>1, <2>1 DEF RowsLookTheSame, Committed, Unrevoked
<1>4. CASE \E t \in Tokens : LoginIssue(q, t) \/ RotateIssue(q, t) \/ ChangeIssue(q, t)
    <2>1. PICK t \in Tokens : /\ row[t] = "free" /\ row' = [row EXCEPT ![t] = "open"]
                             /\ owner' = [owner EXCEPT ![t] = req[q].user] /\ active' = active
        BY <1>4 DEF LoginIssue, RotateIssue, ChangeIssue, IssueToken, accountVars
    <2> QED BY <1>1, <2>1 DEF RowsLookTheSame, Committed, Unrevoked
<1>5. CASE \E t \in Tokens : Expire(t)
    <2>1. PICK t \in Tokens : /\ row[t] = "live" /\ row' = [row EXCEPT ![t] = "expired"]
                             /\ owner' = owner /\ active' = active
        BY <1>5 DEF Expire, accountVars
    <2> QED BY <1>1, <2>1 DEF RowsLookTheSame, Committed, Unrevoked
<1> QED BY <1>2, <1>3, <1>4, <1>5

\* What a commit that revokes the rows in G and brings the row f to life does to
\* the promise.
LEMMA CommitPromise ==
    ASSUME TypeOK, OneAtATime, size' = size, owner' = owner, NEW f, NEW G \in SUBSET Tokens,
           \A t \in G : Committed(t), \A t \in Tokens : t = f => row[t] = "open",
           row' = [t \in Tokens |-> IF t \in G THEN "revoked" ELSE IF t = f THEN "live" ELSE row[t]]
    PROVE  /\ openNow' = (openNow \ G) \cup {t \in Tokens : t = f}
           /\ spentNow' = spentNow \cup G
           /\ f \notin Tokens => holderNow' = holderNow
           /\ f \in Tokens => /\ holderNow' = [holderNow EXCEPT ![f] = owner[f]]
                             /\ f \notin openNow \cup spentNow
<1>1. OneAtATime'
    BY DEF OneAtATime
<1>2. f \notin G /\ \A t \in G : t \in Tokens /\ Committed(t)
    BY DEF Committed, Unrevoked
<1>3. openNow' = (openNow \ G) \cup {t \in Tokens : t = f}
    BY <1>1, <1>2 DEF openNow, Unrevoked
<1>4. spentNow' = spentNow \cup G
    BY <1>1 DEF spentNow
<1>5. \A t \in Tokens : Committed(t)' <=> Committed(t) \/ t = f
    BY <1>2 DEF Committed, Unrevoked
<1>6. f \notin Tokens => holderNow' = holderNow
    BY <1>1, <1>5 DEF holderNow
<1>7. f \in Tokens => holderNow' = [holderNow EXCEPT ![f] = owner[f]]
    BY <1>1, <1>5 DEF holderNow
<1>8. f \in Tokens => f \notin openNow \cup spentNow
    BY DEF openNow, spentNow, Unrevoked
<1> QED BY <1>3, <1>4, <1>6, <1>7, <1>8

\* Each commit of the one handler is a step of the promise.
LEMMA CommitsKeepPromise ==
    ASSUME IndInv, NEW q \in Reqs, size.reqs = {q}, size' = size, SerialInv(q),
           LoginCommit(q) \/ RotateCommit(q) \/ LogoutCommit(q) \/ RevokeCommit(q)
    PROVE  [Promise!Next]_(Promise!abstractVars)
<1> DEFINE x == req[q]
<1> DEFINE f == x.fresh
<1> DEFINE Outcome(G) == [t \in Tokens |-> IF t \in G THEN "revoked"
                                   ELSE IF t = f THEN "live" ELSE row[t]]
<1>1. /\ TypeOK /\ OneAtATime /\ HandlerKnows(q) /\ RequestHolds(q) /\ ChainsKnowTheirAccount
      /\ x \in Requests
    BY DEF OneAtATime, SerialInv, IndInv, RequestsHold, TypeOK
<1>2. /\ row \in [Tokens -> {"free", "open", "live", "expired", "revoked"}]
      /\ active \in [Users -> BOOLEAN] /\ None \notin Tokens
      /\ x.target \in SUBSET Tokens /\ \A t \in x.target : Committed(t)
      /\ x.at = "issued" => f \in Tokens /\ row[f] = "open"
      /\ x.at # "issued" => f = None
      /\ \A t \in Tokens : t = f => row[t] = "open"
    BY <1>1 DEF TypeOK, Requests, RequestHolds
<1>3. active' = active => enabledNow' = enabledNow
    BY DEF enabledNow, OneAtATime
<1>4. /\ enabledNow = {u \in Users : active[u]} /\ enabledNow' = {u \in Users : active'[u]}
      /\ openNow = {t \in Tokens : row[t] \in Unrevoked}
      /\ \A t \in openNow : holderNow[t] = owner[t]
    BY <1>1 DEF enabledNow, openNow, holderNow, OneAtATime, Committed
<1>5. CASE LoginCommit(q)
    <2> DEFINE G == {}
    <2>1. /\ row' = Outcome(G) /\ owner' = owner /\ active' = active
          /\ x.op = "login" /\ x.at = "issued"
        BY <1>2, <1>5 DEF LoginCommit, accountVars
    <2>2. x.user \in enabledNow /\ owner[f] = x.user /\ x.user \in Users
        BY <1>1, <1>4, <2>1 DEF HandlerKnows
    <2>3. G \in SUBSET Tokens /\ \A t \in G : Committed(t)
        OBVIOUS
    <2> HIDE DEF f, G
    <2>4. /\ openNow' = (openNow \ G) \cup {t \in Tokens : t = f}
          /\ spentNow' = spentNow \cup G
          /\ holderNow' = [holderNow EXCEPT ![f] = owner[f]] /\ f \notin openNow \cup spentNow
        BY <1>1, <1>2, <2>1, <2>3, CommitPromise
    <2>5. openNow' = openNow \cup {f} /\ spentNow' = spentNow
        BY <1>2, <2>1, <2>4 DEF G
    <2>6. Promise!SignIn(x.user, f)
        BY <1>3, <2>1, <2>2, <2>4, <2>5 DEF Promise!SignIn, Promise!Unused
    <2> QED BY <1>2, <2>1, <2>2, <2>6 DEF Promise!Next
<1>6. CASE RotateCommit(q)
    <2> DEFINE old == x.token
    <2> DEFINE G == {old}
    <2>1. /\ owner' = owner /\ active' = active /\ x.op = "rotate" /\ x.at = "issued"
          /\ old \in Tokens /\ Committed(old)
        BY <1>1, <1>6 DEF RotateCommit, RequestHolds, accountVars
    <2>2. row' = Outcome(G)
        BY <1>2, <1>6, <2>1 DEF RotateCommit, Committed, Unrevoked
    <2>3. x.user \in enabledNow /\ owner[f] = x.user /\ owner[old] = x.user /\ old \in openNow
        BY <1>1, <1>4, <2>1 DEF HandlerKnows, RequestHolds
    <2>4. G \in SUBSET Tokens /\ \A t \in G : Committed(t)
        BY <2>1
    <2> HIDE DEF f, G, old
    <2>5. /\ openNow' = (openNow \ G) \cup {t \in Tokens : t = f}
          /\ spentNow' = spentNow \cup G
          /\ holderNow' = [holderNow EXCEPT ![f] = owner[f]] /\ f \notin openNow \cup spentNow
        BY <1>1, <1>2, <2>1, <2>2, <2>4, CommitPromise
    <2>6. openNow' = (openNow \ {old}) \cup {f} /\ spentNow' = spentNow \cup {old}
        BY <1>2, <2>1, <2>5 DEF G
    <2>7. holderNow[old] = x.user
        BY <1>4, <2>3
    <2>8. Promise!Renew(old, f)
        BY <1>3, <2>1, <2>3, <2>5, <2>6, <2>7 DEF Promise!Renew, Promise!Unused
    <2> QED BY <1>2, <2>1, <2>8 DEF Promise!Next
<1>7. CASE LogoutCommit(q)
    <2> DEFINE G == x.target
    <2>1. /\ row' = Outcome(G) /\ owner' = owner /\ active' = active
          /\ x.op = "logout" /\ x.at = "read" /\ f = None
        BY <1>2, <1>7 DEF LogoutCommit, accountVars
    <2>2. G \subseteq {x.token} /\ G \subseteq openNow /\ G \subseteq Tokens
        BY <1>1, <1>2, <1>4, <2>1 DEF HandlerKnows
    <2>3. G \in SUBSET Tokens /\ \A t \in G : Committed(t)
        BY <1>2
    <2>4. row' = Outcome(G) /\ owner' = owner
        BY <2>1
    <2> HIDE DEF f, G
    <2>5. /\ openNow' = (openNow \ G) \cup {t \in Tokens : t = f}
          /\ spentNow' = spentNow \cup G
          /\ f \notin Tokens => holderNow' = holderNow
          /\ f \in Tokens => /\ holderNow' = [holderNow EXCEPT ![f] = owner[f]]
                            /\ f \notin openNow \cup spentNow
        BY <1>1, <1>2, <2>3, <2>4, CommitPromise
    <2>6. /\ openNow' = (openNow \ G) \cup {t \in Tokens : t = f}
          /\ spentNow' = spentNow \cup G /\ holderNow' = holderNow
        BY <1>2, <2>1, <2>5
    <2>7. openNow' = openNow \ G
        BY <1>2, <2>1, <2>6
    <2>8. CASE G = {}
        BY <1>3, <2>1, <2>6, <2>7, <2>8 DEF Promise!abstractVars
    <2>9. CASE G # {}
        <3>1. x.token \in openNow /\ G = {x.token} /\ x.token \in Tokens
            BY <2>2, <2>9
        <3>2. Promise!Close(x.token)
            BY <1>3, <2>1, <2>6, <2>7, <3>1 DEF Promise!Close
        <3> QED BY <3>1, <3>2 DEF Promise!Next
    <2> QED BY <2>8, <2>9
<1>8. CASE RevokeCommit(q)
    <2> DEFINE G == x.target
    <2> DEFINE u == x.user
    <2>1. /\ row' = Outcome(G) /\ owner' = owner /\ x.op \in RevokingOps
          /\ x.at = IF x.op = "change" THEN "issued" ELSE "swept"
        BY <1>8 DEF RevokeCommit
    <2>2. G = UnrevokedOf(u) /\ u \in Users
        BY <1>1, <2>1 DEF HandlerKnows
    <2>3. Promise!Of(u) = G
        BY <1>4, <2>2 DEF Promise!Of, UnrevokedOf
    <2>4. IF x.op = "disable" THEN active' = [active EXCEPT ![u] = IF x.active THEN FALSE ELSE @]
          ELSE active' = active
        BY <1>8, <2>1 DEF RevokeCommit, AccountWrite, RevokingOps, accountVars
    <2>5. x.op = "change" => owner[f] = u /\ u \in enabledNow
        BY <1>1, <1>4, <2>1, <2>2 DEF HandlerKnows
    <2>6. G \in SUBSET Tokens /\ \A t \in G : Committed(t)
        BY <1>2
    <2> HIDE DEF f, G, u
    <2>7. /\ openNow' = (openNow \ G) \cup {t \in Tokens : t = f}
          /\ spentNow' = spentNow \cup G
          /\ f \notin Tokens => holderNow' = holderNow
          /\ f \in Tokens => /\ holderNow' = [holderNow EXCEPT ![f] = owner[f]]
                            /\ f \notin openNow \cup spentNow
        BY <1>1, <1>2, <2>1, <2>6, CommitPromise
    <2>8. CASE x.op = "change"
        <3>1. f \in Tokens
            BY <1>2, <2>1, <2>8
        <3>2. openNow' = (openNow \ G) \cup {f} /\ active' = active
            BY <2>4, <2>7, <2>8, <3>1
        <3>3. Promise!SignInAfresh(u, f)
            BY <1>3, <2>3, <2>5, <2>7, <2>8, <3>1, <3>2 DEF Promise!SignInAfresh, Promise!Unused
        <3> QED BY <2>2, <3>1, <3>3 DEF Promise!Next
    <2>9. CASE x.op # "change"
        <3>1. f \notin Tokens
            BY <1>2, <2>1, <2>9
        <3>2. openNow' = openNow \ G
            BY <2>7, <3>1
        <3>3. enabledNow' \in {enabledNow, enabledNow \ {u}}
            BY <1>2, <1>4, <2>2, <2>4
        <3>4. Promise!CloseAll(u)
            BY <2>3, <2>7, <3>1, <3>2, <3>3 DEF Promise!CloseAll
        <3> QED BY <2>2, <3>4 DEF Promise!Next
    <2> QED BY <2>8, <2>9
<1> QED BY <1>5, <1>6, <1>7, <1>8

LEMMA PromiseStep ==
    SerialIndInv /\ [SizedNext]_<<vars, size>> => [Promise!Next]_(Promise!abstractVars)
<1> SUFFICES ASSUME SerialIndInv, [SizedNext]_<<vars, size>>
             PROVE  [Promise!Next]_(Promise!abstractVars)
    OBVIOUS
<1>1. size' = size /\ IndInv
    BY DEF SizedNext, SerialIndInv
<1>2. CASE OneAtATime
    <2>1. PICK q \in Reqs : size.reqs = {q} /\ SerialInv(q)
        BY <1>2 DEF OneAtATime, SerialIndInv
    <2>2. CASE LoginCommit(q) \/ RotateCommit(q) \/ LogoutCommit(q) \/ RevokeCommit(q)
        BY <1>1, <2>1, <2>2, CommitsKeepPromise
    <2>3. CASE \E u \in Users : Enable(u)
        <3>1. PICK u \in Users : Enable(u)
            BY <2>3
        <3>2. /\ openNow' = openNow /\ spentNow' = spentNow /\ holderNow' = holderNow
              /\ active' = [active EXCEPT ![u] = TRUE] /\ active \in [Users -> BOOLEAN]
            BY <1>1, <3>1 DEF Enable, rowVars, openNow, spentNow, holderNow, OneAtATime, Committed,
                              IndInv, TypeOK
        <3>3. enabledNow' = enabledNow \cup {u}
            BY <1>1, <1>2, <3>2 DEF enabledNow, OneAtATime
        <3>4. Promise!Enable(u)
            BY <3>2, <3>3 DEF Promise!Enable
        <3> QED BY <3>4 DEF Promise!Next
    <2>4. \/ LoginCommit(q) \/ RotateCommit(q) \/ LogoutCommit(q) \/ RevokeCommit(q)
          \/ \E u \in Users : Enable(u)
          \/ RowsLookTheSame
        BY <1>1, <2>1, SerialStep, HandlingIsQuiet DEF Step
    <2> QED BY <2>2, <2>3, <2>4, QuietPromise
<1>3. CASE ~OneAtATime
    <2>1. ~OneAtATime'
        BY <1>1, <1>3 DEF OneAtATime
    <2> QED BY <1>3, <2>1 DEF openNow, spentNow, holderNow, enabledNow, Promise!abstractVars
<1> QED BY <1>2, <1>3

\* Requests that do not overlap implement SessionSpec: a session closed stays
\* closed, a token renews one session once, and disabling, resetting, changing the
\* password or replaying a token closes every session of the account.
THEOREM SerialKeepsPromise == SizedSpec => KeepsPromise
<1>1. SizedInit => Promise!Init
    BY DEF SizedInit, Init, Promise!Init, openNow, spentNow, holderNow, enabledNow,
           Committed, Unrevoked
<1>2. SizedSpec => Promise!Spec
    BY <1>1, PromiseStep, SerialAlways, PTL DEF SizedSpec, Promise!Spec
<1> QED BY <1>2 DEF KeepsPromise

=============================================================================
