------------------------- MODULE EntitlementsProofs -------------------------
(***************************************************************************)
(* Proofs about Entitlements, for any modules, users and requests in       *)
(* flight.                                                                 *)
(***************************************************************************)
EXTENDS Entitlements, TLAPS

\* The stages of a handler, and the sets it is given.
HandlersAreTyped ==
    \A r \in Reqs :
        /\ req[r].op = "idle" => req[r] = Idle
        /\ req[r].op = "claims" => req[r].user \in Users /\ req[r].at \in {"rows", "cached", "ready"}
        /\ req[r].op = "replace" => req[r].at \in {"read", "cached"}

\* A handler that builds claims has seen what is active now.
SeenIncludesActive == \A r \in Reqs : req[r].op = "claims" => sub \subseteq req[r].seen

\* While replacements do not overlap, what one has loaded is what is there.
LoadedIsCurrent ==
    \A r, s \in Reqs : req[r].op = "replace" =>
        /\ req[r].rows = sub /\ req[r].ids = row
        /\ req[s].op = "replace" => r = s

Replacing(r) == req[r].op = "replace"
Announced(r) == Replacing(r) /\ req[r].at = "cached"

\* While nothing overlaps and nothing fails, the cache differs from the rows only
\* between a replacement's write to Redis and its commit.
CacheIsCurrent ==
    /\ \A r, s \in Reqs : Replacing(r) /\ r # s => req[s].op = "idle"
    /\ \A r \in Reqs : Announced(r) => cache = req[r].target
    /\ (\A r \in Reqs : ~Announced(r)) => cache \in {None, sub}
    /\ \A r \in Reqs : req[r].op = "claims" /\ req[r].at # "rows" => req[r].rows = sub
    /\ \A u \in Users : claims[u] # None => claims[u] \subseteq current[u]

Exact == "replace" \notin overlaps => ReplacementsAreExact /\ LoadedIsCurrent
Current == overlaps = {} /\ failures = 0 => CacheIsCurrent

IndInv ==
    /\ TypeOK /\ failures \in Nat /\ current \in [Users -> SUBSET Modules]
    /\ HandlersAreTyped
    /\ SeenIncludesActive
    /\ Exact
    /\ Current

-----------------------------------------------------------------------------
USE ConstantsAssumption

LEMMA IdleTyped == Idle \in Requests
BY DEF Idle, Requests

LEMMA EffectiveIsSubset ==
    ASSUME NEW u \in Users, NEW S \in SUBSET Modules
    PROVE  Effective(u, S) \in SUBSET Modules /\ Effective(u, S) \subseteq S
BY DEF Effective

LEMMA InitInv == Init => IndInv
<1> SUFFICES ASSUME Init PROVE IndInv
    OBVIOUS
<1>1. TypeOK /\ failures \in Nat /\ current \in [Users -> SUBSET Modules]
    BY IdleTyped DEF Init, TypeOK, Sets
<1>2. HandlersAreTyped /\ SeenIncludesActive /\ LoadedIsCurrent
    BY DEF Init, HandlersAreTyped, SeenIncludesActive, LoadedIsCurrent, Idle
<1>3. ReplacementsAreExact
    BY DEF Init, ReplacementsAreExact, ReplaceInstalls, LogBalances
<1>4. CacheIsCurrent
    BY DEF Init, CacheIsCurrent, Replacing, Announced, Idle
<1> QED BY <1>1, <1>2, <1>3, <1>4 DEF IndInv, Exact, Current

-----------------------------------------------------------------------------
(* One handler at a time moves, except that the others see a replacement     *)
(* commit.                                                                   *)

\* A handler moves and the subscriptions stay: what has to be shown of its record.
LEMMA HandlerStep ==
    ASSUME IndInv, NEW r \in Reqs, NEW rec \in Requests, req' = [req EXCEPT ![r] = rec],
           UNCHANGED <<sub, row, balance, meant>>,
           overlaps \subseteq overlaps',
           rec.op = "idle" => rec = Idle,
           rec.op = "claims" => /\ rec.user \in Users /\ rec.at \in {"rows", "cached", "ready"}
                                /\ sub \subseteq rec.seen,
           rec.op = "replace" => /\ rec.at \in {"read", "cached"}
                                 /\ \/ /\ req[r].op = "replace" /\ rec.rows = req[r].rows
                                       /\ rec.ids = req[r].ids
                                    \/ /\ rec.rows = sub /\ rec.ids = row
                                       /\ "replace" \notin overlaps' =>
                                              \A s \in Reqs : req[s].op # "replace"
    PROVE  HandlersAreTyped' /\ SeenIncludesActive' /\ Exact' /\ req' \in [Reqs -> Requests]
<1>1. req \in [Reqs -> Requests] /\ req' \in [Reqs -> Requests]
    BY DEF IndInv, TypeOK
<1>2. req'[r] = rec /\ \A s \in Reqs \ {r} : req'[s] = req[s]
    BY <1>1
<1>3. HandlersAreTyped' /\ SeenIncludesActive'
    BY <1>2 DEF IndInv, HandlersAreTyped, SeenIncludesActive
<1>4. ASSUME "replace" \notin overlaps' PROVE LoadedIsCurrent'
    <2>1. LoadedIsCurrent
        BY <1>4 DEF IndInv, Exact
    <2> QED BY <1>2, <1>4, <2>1 DEF LoadedIsCurrent
<1>5. Exact'
    BY <1>4 DEF IndInv, Exact, ReplacementsAreExact, ReplaceInstalls, LogBalances
<1> QED BY <1>1, <1>3, <1>5

LEMMA OverlapGrows ==
    ASSUME NEW op, Overlap(op)
    PROVE  /\ overlaps \subseteq overlaps'
           /\ op = "replace" /\ "replace" \notin overlaps' => \A s \in Reqs : req[s].op # "replace"
           /\ op = "replace" /\ overlaps' = {} => \A s \in Reqs : req[s].op = "idle"
           /\ overlaps' = {} => \A s \in Reqs : req[s].op # "replace"
BY DEF Overlap

LEMMA ReadCacheStep ==
    ASSUME IndInv, NEW r \in Reqs, NEW u \in Users, ReadCache(r, u)
    PROVE  IndInv'
<1>1. PICK rec \in Requests :
          /\ req' = [req EXCEPT ![r] = rec] /\ rec.op = "claims" /\ rec.user = u
          /\ rec.at \in {"rows", "ready"} /\ rec.seen = sub
          /\ rec.at = "ready" => rec.rows = cache /\ cache # None
    <2>1. CASE cache = None
        <3> DEFINE rec == [Idle EXCEPT !.op = "claims", !.at = "rows", !.user = u, !.seen = sub]
        <3>1. rec \in Requests /\ rec.op = "claims" /\ rec.user = u /\ rec.at = "rows" /\ rec.seen = sub
            BY DEF Idle, Requests, IndInv, TypeOK
        <3>2. req' = [req EXCEPT ![r] = rec]
            BY <2>1 DEF ReadCache
        <3> HIDE DEF rec
        <3> QED BY <3>1, <3>2
    <2>2. CASE cache # None
        <3> DEFINE rec == [Idle EXCEPT !.op = "claims", !.at = "ready", !.user = u, !.rows = cache,
                                       !.seen = sub]
        <3>1. /\ rec \in Requests /\ rec.op = "claims" /\ rec.user = u /\ rec.at = "ready"
              /\ rec.seen = sub /\ rec.rows = cache
            BY <2>2 DEF Idle, Requests, IndInv, TypeOK
        <3>2. req' = [req EXCEPT ![r] = rec]
            BY <2>2 DEF ReadCache
        <3> HIDE DEF rec
        <3> QED BY <2>2, <3>1, <3>2
    <2> QED BY <2>1, <2>2
<1>2. /\ UNCHANGED <<sub, row, balance, meant, cache, claims, current, failures>>
      /\ Overlap("claims") /\ req[r] = Idle
    BY DEF ReadCache
<1>3. HandlersAreTyped' /\ SeenIncludesActive' /\ Exact' /\ req' \in [Reqs -> Requests]
    BY <1>1, <1>2, HandlerStep, OverlapGrows
<1>4. req'[r] = rec /\ \A s \in Reqs \ {r} : req'[s] = req[s]
    BY <1>1 DEF IndInv, TypeOK
<1>5. ASSUME overlaps' = {}, failures' = 0 PROVE CacheIsCurrent'
    <2>1. CacheIsCurrent
        BY <1>2, <1>5, OverlapGrows DEF IndInv, Current
    <2>2. \A s \in Reqs : req[s].op # "replace" /\ req'[s].op # "replace"
        BY <1>1, <1>2, <1>4, <1>5, OverlapGrows
    <2>3. cache \in {None, sub}
        BY <2>1, <2>2 DEF CacheIsCurrent, Announced, Replacing
    <2>4. \A s \in Reqs : req'[s].op = "claims" /\ req'[s].at # "rows" => req'[s].rows = sub
        BY <1>1, <1>4, <2>1, <2>3 DEF CacheIsCurrent
    <2> QED BY <1>2, <2>1, <2>2, <2>3, <2>4 DEF CacheIsCurrent, Announced, Replacing
<1> QED BY <1>2, <1>3, <1>5 DEF IndInv, TypeOK, Current

\* Reading the rows, filling the cache and announcing a replacement.
LEMMA ReadRowsStep ==
    ASSUME IndInv, NEW r \in Reqs, ReadRows(r)
    PROVE  IndInv'
<1> DEFINE rec == [req[r] EXCEPT !.rows = sub, !.at = "cached"]
<1>1. req[r] \in Requests /\ req[r].op = "claims" /\ req[r].at = "rows"
    BY DEF IndInv, TypeOK, ReadRows
<1>2. /\ rec \in Requests /\ rec.op = "claims" /\ rec.user = req[r].user /\ rec.at = "cached"
      /\ rec.seen = req[r].seen /\ rec.rows = sub
    BY <1>1 DEF Requests, IndInv, TypeOK
<1>3. req' = [req EXCEPT ![r] = rec]
    BY DEF ReadRows
<1> HIDE DEF rec
<1>4. UNCHANGED <<sub, row, balance, meant, cache, claims, current, failures, overlaps>>
    BY DEF ReadRows, history
<1>5. rec.user \in Users /\ sub \subseteq rec.seen
    BY <1>1, <1>2 DEF IndInv, HandlersAreTyped, SeenIncludesActive
<1>6. HandlersAreTyped' /\ SeenIncludesActive' /\ Exact' /\ req' \in [Reqs -> Requests]
    BY <1>2, <1>3, <1>4, <1>5, HandlerStep
<1>7. req'[r] = rec /\ \A s \in Reqs \ {r} : req'[s] = req[s]
    BY <1>3 DEF IndInv, TypeOK
<1>8. ASSUME overlaps' = {}, failures' = 0 PROVE CacheIsCurrent'
    <2>1. CacheIsCurrent
        BY <1>4, <1>8 DEF IndInv, Current
    <2>2. \A s \in Reqs : Announced(s)' <=> Announced(s)
        BY <1>1, <1>2, <1>7 DEF Announced, Replacing
    <2>3. \A s \in Reqs : req'[s].op = req[s].op /\ req'[s].target = req[s].target
        BY <1>1, <1>2, <1>7 DEF rec, Requests
    <2> QED BY <1>2, <1>4, <1>7, <2>1, <2>2, <2>3 DEF CacheIsCurrent, Replacing
<1> QED BY <1>4, <1>6, <1>8 DEF IndInv, TypeOK, Current

LEMMA FillCacheStep ==
    ASSUME IndInv, NEW r \in Reqs, FillCache(r)
    PROVE  IndInv'
<1> DEFINE rec == [req[r] EXCEPT !.at = "ready"]
<1>1. req[r] \in Requests /\ req[r].op = "claims" /\ req[r].at = "cached"
    BY DEF IndInv, TypeOK, FillCache
<1>2. /\ rec \in Requests /\ rec.op = "claims" /\ rec.user = req[r].user /\ rec.at = "ready"
      /\ rec.seen = req[r].seen /\ rec.rows = req[r].rows
    BY <1>1 DEF Requests
<1>3. req' = [req EXCEPT ![r] = rec] /\ cache' = req[r].rows
    BY DEF FillCache
<1> HIDE DEF rec
<1>4. UNCHANGED <<sub, row, balance, meant, claims, current, failures, overlaps>>
    BY DEF FillCache, history
<1>5. rec.user \in Users /\ sub \subseteq rec.seen
    BY <1>1, <1>2 DEF IndInv, HandlersAreTyped, SeenIncludesActive
<1>6. HandlersAreTyped' /\ SeenIncludesActive' /\ Exact' /\ req' \in [Reqs -> Requests]
    BY <1>2, <1>3, <1>4, <1>5, HandlerStep
<1>7. req'[r] = rec /\ \A s \in Reqs \ {r} : req'[s] = req[s]
    BY <1>3 DEF IndInv, TypeOK
<1>8. ASSUME overlaps' = {}, failures' = 0 PROVE CacheIsCurrent'
    <2>1. CacheIsCurrent
        BY <1>4, <1>8 DEF IndInv, Current
    <2>2. \A s \in Reqs : req[s].op # "replace"
        BY <1>1, <2>1 DEF CacheIsCurrent, Replacing
    <2>3. \A s \in Reqs : req'[s].op # "replace"
        BY <1>2, <1>7, <2>2
    <2>4. req[r].rows = sub
        BY <1>1, <2>1 DEF CacheIsCurrent
    <2> QED BY <1>2, <1>3, <1>4, <1>7, <2>1, <2>3, <2>4 DEF CacheIsCurrent, Announced, Replacing
<1>9. cache' \in {None} \cup (SUBSET Modules)
    BY <1>1, <1>3 DEF Requests
<1> QED BY <1>4, <1>6, <1>8, <1>9 DEF IndInv, TypeOK, Current

LEMMA IssueClaimsStep ==
    ASSUME IndInv, NEW r \in Reqs, IssueClaims(r)
    PROVE  IndInv'
<1> DEFINE u == req[r].user
<1>1. req[r] \in Requests /\ req[r].op = "claims" /\ req[r].at = "ready" /\ u \in Users
    BY DEF IndInv, TypeOK, IssueClaims, HandlersAreTyped
<1>2. /\ req' = [req EXCEPT ![r] = Idle]
      /\ claims' = [claims EXCEPT ![u] = Effective(u, req[r].rows)]
      /\ current' = [current EXCEPT ![u] = req[r].seen \cup sub]
      /\ UNCHANGED <<sub, row, cache, balance, meant, failures, overlaps>>
    BY DEF IssueClaims, Issue, history
<1>3. req[r].rows \in SUBSET Modules /\ req[r].seen \in SUBSET Modules
    BY <1>1 DEF Requests
<1>4. Effective(u, req[r].rows) \in SUBSET Modules /\ Effective(u, req[r].rows) \subseteq req[r].rows
    BY <1>1, <1>3, EffectiveIsSubset
<1>5. HandlersAreTyped' /\ SeenIncludesActive' /\ Exact' /\ req' \in [Reqs -> Requests]
    BY <1>2, HandlerStep, IdleTyped DEF Idle
<1>6. req'[r] = Idle /\ \A s \in Reqs \ {r} : req'[s] = req[s]
    BY <1>2 DEF IndInv, TypeOK
<1>7. ASSUME overlaps' = {}, failures' = 0 PROVE CacheIsCurrent'
    <2>1. CacheIsCurrent
        BY <1>2, <1>7 DEF IndInv, Current
    <2>2. \A s \in Reqs : (req'[s].op # "idle" => req'[s] = req[s]) /\ (Announced(s)' <=> Announced(s))
        BY <1>1, <1>6 DEF Idle, Announced, Replacing
    <2>3. \A x \in Users : claims'[x] # None => claims'[x] \subseteq current'[x]
        <3>1. req[r].rows = sub
            BY <1>1, <2>1 DEF CacheIsCurrent
        <3>2. ASSUME NEW x \in Users, x # u, claims'[x] # None PROVE claims'[x] \subseteq current'[x]
            BY <1>2, <2>1, <3>2 DEF CacheIsCurrent, IndInv, TypeOK
        <3>3. claims'[u] \subseteq current'[u]
            BY <1>1, <1>2, <1>4, <3>1 DEF IndInv, TypeOK
        <3> QED BY <3>2, <3>3
    <2> QED BY <1>1, <1>2, <1>6, <2>1, <2>2, <2>3 DEF CacheIsCurrent, Replacing, Announced
<1>8. claims' \in [Users -> {None} \cup (SUBSET Modules)] /\ current' \in [Users -> SUBSET Modules]
    BY <1>1, <1>2, <1>3, <1>4 DEF IndInv, TypeOK
<1> QED BY <1>2, <1>5, <1>7, <1>8 DEF IndInv, TypeOK, Current

LEMMA ReplaceReadStep ==
    ASSUME IndInv, NEW r \in Reqs, NEW target \in Sets, ReplaceRead(r, target)
    PROVE  IndInv'
<1> DEFINE rec == [Idle EXCEPT !.op = "replace", !.at = "read", !.rows = sub, !.ids = row,
                               !.target = target]
<1>1. /\ rec \in Requests /\ rec.op = "replace" /\ rec.at = "read" /\ rec.rows = sub /\ rec.ids = row
    BY DEF Idle, Requests, Sets, IndInv, TypeOK
<1>2. /\ req' = [req EXCEPT ![r] = rec] /\ req[r] = Idle
      /\ UNCHANGED <<sub, row, cache, claims, balance, failures, meant, current>>
      /\ Overlap("replace")
    BY DEF ReplaceRead
<1> HIDE DEF rec
<1>3. HandlersAreTyped' /\ SeenIncludesActive' /\ Exact' /\ req' \in [Reqs -> Requests]
    BY <1>1, <1>2, HandlerStep, OverlapGrows
<1>4. req'[r] = rec /\ \A s \in Reqs \ {r} : req'[s] = req[s]
    BY <1>2 DEF IndInv, TypeOK
<1>5. ASSUME overlaps' = {}, failures' = 0 PROVE CacheIsCurrent'
    <2>1. CacheIsCurrent /\ \A s \in Reqs : req[s].op = "idle"
        BY <1>2, <1>5, OverlapGrows DEF IndInv, Current
    <2> QED BY <1>1, <1>2, <1>4, <2>1 DEF CacheIsCurrent, Announced, Replacing
<1> QED BY <1>2, <1>3, <1>5 DEF IndInv, TypeOK, Current

LEMMA ReplaceCacheStep ==
    ASSUME IndInv, NEW r \in Reqs, ReplaceCache(r)
    PROVE  IndInv'
<1> DEFINE rec == [req[r] EXCEPT !.at = "cached"]
<1>1. req[r] \in Requests /\ req[r].op = "replace" /\ req[r].at = "read"
    BY DEF IndInv, TypeOK, ReplaceCache
<1>2. /\ rec \in Requests /\ rec.op = "replace" /\ rec.at = "cached" /\ rec.rows = req[r].rows
      /\ rec.ids = req[r].ids /\ rec.target = req[r].target
    BY <1>1 DEF Requests
<1>3. /\ req' = [req EXCEPT ![r] = rec] /\ cache' = req[r].target
      /\ UNCHANGED <<sub, row, claims, balance, meant, current, failures, overlaps>>
    BY DEF ReplaceCache, history
<1> HIDE DEF rec
<1>4. HandlersAreTyped' /\ SeenIncludesActive' /\ Exact' /\ req' \in [Reqs -> Requests]
    BY <1>1, <1>2, <1>3, HandlerStep
<1>5. req'[r] = rec /\ \A s \in Reqs \ {r} : req'[s] = req[s]
    BY <1>3 DEF IndInv, TypeOK
<1>6. ASSUME overlaps' = {}, failures' = 0 PROVE CacheIsCurrent'
    <2>1. CacheIsCurrent
        BY <1>3, <1>6 DEF IndInv, Current
    <2>2. \A s \in Reqs \ {r} : req[s].op = "idle"
        BY <1>1, <2>1 DEF CacheIsCurrent, Replacing
    <2> QED BY <1>2, <1>3, <1>5, <2>1, <2>2 DEF CacheIsCurrent, Announced, Replacing
<1>7. cache' \in {None} \cup (SUBSET Modules)
    BY <1>1, <1>3 DEF Requests
<1> QED BY <1>3, <1>4, <1>6, <1>7 DEF IndInv, TypeOK, Current

\* Of the handlers in flight, only those that build claims notice a commit.
LEMMA SeenByKeeps ==
    ASSUME NEW rs \in [Reqs -> Requests], NEW S \in SUBSET Modules
    PROVE  /\ SeenBy(rs, S) \in [Reqs -> Requests]
           /\ \A s \in Reqs : LET x == SeenBy(rs, S)[s] IN
                 /\ rs[s].op # "claims" => x = rs[s]
                 /\ x.op = rs[s].op /\ x.at = rs[s].at /\ x.user = rs[s].user
                 /\ x.rows = rs[s].rows /\ x.ids = rs[s].ids /\ x.target = rs[s].target
                 /\ rs[s].op = "claims" => S \subseteq x.seen
BY DEF SeenBy, Requests

LEMMA ReplaceCommitStep ==
    ASSUME IndInv, NEW r \in Reqs, ReplaceCommit(r)
    PROVE  IndInv'
<1> DEFINE added == req[r].target \ req[r].rows
<1> DEFINE removed == req[r].rows \ req[r].target
<1> DEFINE hit == {m \in removed : row[m] = req[r].ids[m]}
<1>1. /\ req \in [Reqs -> Requests] /\ req[r] \in Requests /\ req[r].op = "replace"
      /\ req[r].at = "cached"
      /\ req[r].target \in SUBSET Modules /\ req[r].rows \in SUBSET Modules
    BY DEF IndInv, TypeOK, ReplaceCommit, Requests
<1>2. UNCHANGED <<cache, claims, failures, current, overlaps>>
    BY DEF ReplaceCommit
<1>3. CASE added \cap sub # {}
    <2>1. req' = [req EXCEPT ![r] = Idle] /\ UNCHANGED <<sub, row, balance, meant>>
        BY <1>3 DEF ReplaceCommit
    <2>2. HandlersAreTyped' /\ SeenIncludesActive' /\ Exact' /\ req' \in [Reqs -> Requests]
        BY <1>2, <2>1, HandlerStep, IdleTyped DEF Idle
    <2>3. overlaps # {}
        <3> SUFFICES ASSUME "replace" \notin overlaps PROVE FALSE
            OBVIOUS
        <3>1. req[r].rows = sub
            BY <1>1 DEF IndInv, Exact, LoadedIsCurrent
        <3> QED BY <1>3, <3>1
    <2> QED BY <1>2, <2>1, <2>2, <2>3 DEF IndInv, TypeOK, Current
<1>4. CASE added \cap sub = {}
    <2> DEFINE rs == [req EXCEPT ![r] = Idle]
    <2>1. /\ sub' = (sub \ hit) \cup added
          /\ row' = [m \in Modules |-> IF m \in added THEN row[m] + 1 ELSE row[m]]
          /\ balance' = [m \in Modules |-> balance[m] + (IF m \in added THEN 1 ELSE 0)
                                                    - (IF m \in removed THEN 1 ELSE 0)]
          /\ meant' = req[r].target /\ req' = SeenBy(rs, sub')
        BY <1>4 DEF ReplaceCommit
    <2>2. sub' \in SUBSET Modules /\ rs \in [Reqs -> Requests]
        BY <1>1, <2>1, IdleTyped DEF IndInv, TypeOK
    <2>3. /\ req' \in [Reqs -> Requests]
          /\ req'[r] = Idle
          /\ \A s \in Reqs \ {r} :
                /\ req[s].op # "claims" => req'[s] = req[s]
                /\ req'[s].op = req[s].op /\ req'[s].at = req[s].at /\ req'[s].user = req[s].user
                /\ req[s].op = "claims" => sub' \subseteq req'[s].seen
        <3>1. rs[r] = Idle /\ rs[r].op # "claims" /\ \A s \in Reqs \ {r} : rs[s] = req[s]
            BY <1>1 DEF Idle
        <3> HIDE DEF rs
        <3> QED BY <2>1, <2>2, <3>1, SeenByKeeps
    <2>4. row' \in [Modules -> Nat] /\ balance' \in [Modules -> Int]
        BY <2>1 DEF IndInv, TypeOK
    <2>5. HandlersAreTyped'
        BY <2>3 DEF IndInv, HandlersAreTyped, Idle
    <2>6. SeenIncludesActive'
        BY <2>3 DEF SeenIncludesActive, Idle
    <2>7. ASSUME "replace" \notin overlaps
          PROVE  /\ sub' = req[r].target /\ \A s \in Reqs \ {r} : req[s].op # "replace"
                 /\ \A m \in Modules : balance'[m] = IF m \in sub' THEN 1 ELSE 0
        <3>1. /\ LoadedIsCurrent /\ \A m \in Modules : balance[m] = IF m \in sub THEN 1 ELSE 0
            BY <2>7 DEF IndInv, Exact, ReplacementsAreExact, LogBalances
        <3>2. /\ req[r].rows = sub /\ req[r].ids = row
              /\ \A s \in Reqs \ {r} : req[s].op # "replace"
            BY <1>1, <3>1 DEF LoadedIsCurrent
        <3>3. hit = removed
            BY <3>2
        <3>4. sub' = req[r].target
            BY <2>1, <3>2, <3>3
        <3>5. \A m \in Modules : balance'[m] = IF m \in sub' THEN 1 ELSE 0
            BY <2>1, <3>1, <3>2, <3>4 DEF IndInv, TypeOK
        <3> QED BY <3>2, <3>4, <3>5
    <2>8. Exact'
        <3>1. ASSUME "replace" \notin overlaps PROVE LoadedIsCurrent'
            <4>1. \A s \in Reqs : req'[s].op # "replace"
                BY <2>3, <2>7, <3>1 DEF Idle
            <4> QED BY <4>1 DEF LoadedIsCurrent
        <3> QED BY <1>2, <2>1, <2>7, <3>1 DEF Exact, ReplacementsAreExact, ReplaceInstalls, LogBalances
    <2>9. ASSUME overlaps' = {}, failures' = 0 PROVE CacheIsCurrent'
        <3>1. CacheIsCurrent /\ sub' = req[r].target
            BY <1>2, <2>7, <2>9 DEF IndInv, Current
        <3>2. \A s \in Reqs : req'[s].op = "idle"
            BY <1>1, <2>3, <3>1 DEF CacheIsCurrent, Replacing, Idle
        <3>3. cache' = sub'
            BY <1>1, <1>2, <3>1 DEF CacheIsCurrent, Announced, Replacing
        <3> QED BY <1>2, <3>1, <3>2, <3>3 DEF CacheIsCurrent, Announced, Replacing
    <2> QED BY <1>2, <2>2, <2>3, <2>4, <2>5, <2>6, <2>8, <2>9 DEF IndInv, TypeOK, Current
<1> QED BY <1>3, <1>4

LEMMA RollbackStep ==
    ASSUME IndInv, NEW r \in Reqs, Rollback(r)
    PROVE  IndInv'
<1>1. /\ req' = [req EXCEPT ![r] = Idle] /\ failures' = failures + 1
      /\ UNCHANGED <<sub, row, cache, claims, balance, meant, current, overlaps>>
    BY DEF Rollback
<1>2. HandlersAreTyped' /\ SeenIncludesActive' /\ Exact' /\ req' \in [Reqs -> Requests]
    BY <1>1, HandlerStep, IdleTyped DEF Idle
<1>3. failures' \in Nat /\ failures' # 0
    BY <1>1 DEF IndInv
<1> QED BY <1>1, <1>2, <1>3 DEF IndInv, TypeOK, Current

LEMMA ExpiryStep ==
    ASSUME IndInv, CacheExpire \/ (\E u \in Users : ClaimsExpire(u)) \/ UNCHANGED vars
    PROVE  IndInv'
<1>1. UNCHANGED <<sub, row, balance, req, current, failures, meant, overlaps>>
    BY DEF CacheExpire, ClaimsExpire, history, vars
<1>2. HandlersAreTyped' /\ SeenIncludesActive' /\ Exact'
    BY <1>1 DEF IndInv, HandlersAreTyped, SeenIncludesActive, Exact, ReplacementsAreExact,
                ReplaceInstalls, LogBalances, LoadedIsCurrent
<1>3. /\ cache' = cache \/ (cache' = None /\ \A r \in Reqs : ~Announced(r))
      /\ claims' \in [Users -> {None} \cup (SUBSET Modules)]
      /\ \A u \in Users : claims'[u] \in {claims[u], None}
    <2>1. CASE CacheExpire
        BY <2>1 DEF CacheExpire, Announced, Replacing, IndInv, TypeOK
    <2>2. CASE \E u \in Users : ClaimsExpire(u)
        BY <2>2 DEF ClaimsExpire, IndInv, TypeOK
    <2>3. CASE UNCHANGED vars
        BY <2>3 DEF vars, IndInv, TypeOK
    <2> QED BY <2>1, <2>2, <2>3
<1>4. Current'
    <2>1. CacheIsCurrent => CacheIsCurrent'
        BY <1>1, <1>3 DEF CacheIsCurrent, Announced, Replacing
    <2> QED BY <1>1, <2>1 DEF IndInv, Current
<1> QED BY <1>1, <1>2, <1>3, <1>4 DEF IndInv, TypeOK

LEMMA NextInv == IndInv /\ [Next]_vars => IndInv'
<1> SUFFICES ASSUME IndInv, [Next]_vars PROVE IndInv'
    OBVIOUS
<1>1. ASSUME NEW r \in Reqs, Handle(r) PROVE IndInv'
    BY <1>1, ReadRowsStep, FillCacheStep, IssueClaimsStep, ReplaceCacheStep, ReplaceCommitStep DEF Handle
<1> QED BY <1>1, ReadCacheStep, ReplaceReadStep, RollbackStep, ExpiryStep DEF Next

LEMMA IndInvAlways == Spec => []IndInv
BY InitInv, NextInv, PTL DEF Spec

-----------------------------------------------------------------------------
\* Rows, cache and claims are sets of modules, whatever overlaps and fails.
THEOREM EntitlementsTyped == Spec => []TypeOK
<1>1. IndInv => TypeOK
    BY DEF IndInv
<1> QED BY <1>1, IndInvAlways, PTL

\* While no two replacements have overlapped, the active modules are the ones the
\* last one asked for and the change log adds up to them, whatever reads, fills of
\* the cache and rolled-back requests happen in between (replace_modules).
THEOREM ReplacementsExact == Spec => []ReplacementsAreExact
<1>1. IndInv => ReplacementsAreExact
    BY DEF IndInv, Exact, ReplacementsAreExact, ReplaceInstalls, LogBalances
<1> QED BY <1>1, IndInvAlways, PTL

\* While no replacement has overlapped with another request or failed, claims hold
\* only modules that were active while they were built (build_claims), though they
\* are taken from a cache that is written before the rows are committed.
THEOREM ClaimsCurrent == Spec => []ClaimsAreCurrent
<1>1. IndInv => ClaimsAreCurrent
    BY DEF IndInv, Current, CacheIsCurrent, ClaimsAreCurrent
<1> QED BY <1>1, IndInvAlways, PTL

=============================================================================
