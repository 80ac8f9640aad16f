-------------------------- MODULE IdempotencyProofs --------------------------
(***************************************************************************)
(* Proofs about Idempotency, for any number of overlapping requests, any   *)
(* keys and payloads.                                                      *)
(***************************************************************************)
EXTENDS Idempotency, TLAPS

\* Past the lookups a request has found its key unused.
Executing == {"unused", "checked", "inserted", "cached", "stored", "done"}

\* done is the set of requests answered by their own commit, a request knows
\* only of commits, and it holds the key and the payload its state needs.
Bookkeeping ==
    \A r \in Reqs :
        /\ r \in done <=> req[r].at = "done"
        /\ req[r].before \subseteq done
        /\ req[r].at \in {"missed", "cached", "stored"} => req[r].key # None
        /\ req[r].at # "idle" => req[r].payload # None
        /\ req[r].at = "idle" => req[r].key = None
        /\ req[r].at = "replayed" => req[r].replays # None

\* Every commit under a key has left a durable record.
DoneLeavesRecord == \A r \in done : req[r].key # None => db[req[r].key] # None

\* Whoever executes saw no commit of its key before it arrived.
ExecutingFoundNothing ==
    \A r \in Reqs : req[r].at \in Executing =>
        \A q \in req[r].before : ~SameKey(q, r)

\* A record in either store is of a request that carried that key and payload.
RecordsTrue ==
    \A k \in Keys : \A record \in {redis[k], db[k]} : record # None =>
        /\ req[record.run].key = k
        /\ req[record.run].payload = record.payload
        /\ req[record.run].at # "idle"

\* A school code has one holder, committed or not.
OneHolder ==
    \A q, r \in Reqs :
        /\ req[q].at \in HoldsCode \cup {"done"}
        /\ req[r].at \in HoldsCode \cup {"done"}
        /\ SameCode(q, r)
        => q = r

IndInv ==
    /\ TypeOK
    /\ Bookkeeping
    /\ DoneLeavesRecord
    /\ ExecutingFoundNothing
    /\ RecordsTrue
    /\ OneHolder
    /\ RecordOfCommittedRun
    /\ ReplayAnswersTheRequest

-----------------------------------------------------------------------------
USE ConstantsAssumption

\* The states of a handler.
Ats == {"idle"} \cup Running \cup Finished

LEMMA RequestFields ==
    ASSUME NEW x \in Requests
    PROVE  /\ x.at \in Ats /\ x.key \in Keys \cup {None}
           /\ x.payload \in Payloads \cup {None} /\ x.replays \in Reqs \cup {None}
           /\ x.before \in SUBSET Reqs
BY DEF Requests, Ats

LEMMA InitInv == Init => IndInv
<1> SUFFICES ASSUME Init PROVE IndInv
    OBVIOUS
<1>1. Idle \in Requests
    BY DEF Idle, Requests
<1>2. TypeOK
    BY <1>1 DEF Init, TypeOK
<1>3. Bookkeeping /\ DoneLeavesRecord /\ ExecutingFoundNothing
    BY DEF Init, Bookkeeping, DoneLeavesRecord, ExecutingFoundNothing, Executing, Idle
<1>4. RecordsTrue /\ OneHolder /\ RecordOfCommittedRun /\ ReplayAnswersTheRequest
    BY DEF Init, RecordsTrue, OneHolder, RecordOfCommittedRun, ReplayAnswersTheRequest,
           HoldsCode, Idle
<1> QED BY <1>2, <1>3, <1>4 DEF IndInv

-----------------------------------------------------------------------------
(* What a step does to the handlers, free of record updates.               *)

\* The others keep what they hold.
Others(r) == \A q \in Reqs \ {r} : req'[q] = req[q]

\* Request r moves on to state a with the key and payload it came with.
Advances(r, a) ==
    /\ req' \in [Reqs -> Requests]
    /\ Others(r)
    /\ req'[r].at = a
    /\ req'[r].key = req[r].key /\ req'[r].payload = req[r].payload
    /\ req'[r].before = req[r].before /\ req'[r].replays = req[r].replays

LEMMA Advance ==
    ASSUME TypeOK, NEW r \in Reqs, NEW a \in Ats, req' = [req EXCEPT ![r].at = a]
    PROVE  Advances(r, a)
<1> DEFINE rec == [req[r] EXCEPT !.at = a]
<1>1. req[r] \in Requests
    BY DEF TypeOK
<1>2. rec \in Requests
    BY <1>1 DEF Requests, Ats
<1>3. /\ rec.at = a /\ rec.key = req[r].key /\ rec.payload = req[r].payload
      /\ rec.before = req[r].before /\ rec.replays = req[r].replays
    BY <1>1 DEF Requests
<1>4. req' = [req EXCEPT ![r] = rec]
    OBVIOUS
<1> HIDE DEF rec
<1> QED BY <1>2, <1>3, <1>4 DEF TypeOK, Advances, Others

\* The three answers of a lookup.
LEMMA Answered ==
    ASSUME NEW x \in Requests, NEW record \in Records \cup {None},
           NEW missed \in Ats
    PROVE  /\ Answer(x, record, missed) \in Requests
           /\ Answer(x, record, missed).key = x.key
           /\ Answer(x, record, missed).payload = x.payload
           /\ Answer(x, record, missed).before = x.before
           /\ \/ record = None /\ Answer(x, record, missed).at = missed
              \/ /\ record # None /\ record.payload = x.payload
                 /\ Answer(x, record, missed).at = "replayed"
                 /\ Answer(x, record, missed).replays = record.run
              \/ record # None /\ Answer(x, record, missed).at = "conflict"
<1>1. CASE record = None
    BY <1>1 DEF Answer, Requests, Ats
<1>2. CASE record # None /\ record.payload = x.payload
    <2>1. Answer(x, record, missed) = [x EXCEPT !.at = "replayed", !.replays = record.run]
        BY <1>2 DEF Answer
    <2>2. record.run \in Reqs
        BY <1>2 DEF Records
    <2>3. [x EXCEPT !.at = "replayed"] \in Requests
        BY DEF Requests, Finished
    <2> DEFINE y == [x EXCEPT !.at = "replayed"]
    <2>4. \A z \in Requests : /\ [z EXCEPT !.replays = record.run] \in Requests
                              /\ [z EXCEPT !.replays = record.run].replays = record.run
                              /\ [z EXCEPT !.replays = record.run].at = z.at
                              /\ [z EXCEPT !.replays = record.run].key = z.key
                              /\ [z EXCEPT !.replays = record.run].payload = z.payload
                              /\ [z EXCEPT !.replays = record.run].before = z.before
        BY <2>2 DEF Requests
    <2>5. [x EXCEPT !.at = "replayed", !.replays = record.run] = [y EXCEPT !.replays = record.run]
        BY DEF Requests
    <2>6. /\ y.at = "replayed" /\ y.key = x.key /\ y.payload = x.payload
          /\ y.before = x.before /\ y \in Requests
        BY <2>3 DEF Requests
    <2> HIDE DEF y
    <2> QED BY <1>2, <2>1, <2>4, <2>5, <2>6
<1>3. CASE record # None /\ record.payload # x.payload
    BY <1>3 DEF Answer, Requests, Finished
<1> QED BY <1>1, <1>2, <1>3


-----------------------------------------------------------------------------
(* Steps that change neither a store nor what is committed.                *)

LEMMA ReadStep ==
    ASSUME IndInv, NEW r \in Reqs, req' \in [Reqs -> Requests], Others(r),
           UNCHANGED <<redis, db, done>>,
           req'[r].at \notin {"idle", "done"},
           req'[r].payload # None,
           req'[r].at \in {"missed", "cached", "stored"} => req'[r].key # None,
           \/ req[r].at = "idle" /\ req'[r].before = done
           \/ /\ req[r].at \in Running
              /\ req'[r].key = req[r].key /\ req'[r].payload = req[r].payload
              /\ req'[r].before = req[r].before,
           req'[r].at \in Executing =>
              \A q \in req'[r].before : req'[r].key # None => req[q].key # req'[r].key,
           req'[r].at \in HoldsCode =>
              \A q \in Reqs \ {r} : req[q].at \in HoldsCode \cup {"done"} =>
                  /\ (CodeOfReq(r))' # None => CodeOfReq(q) # (CodeOfReq(r))',
           req'[r].at = "replayed" =>
              /\ req'[r].replays \in Reqs \ {r} /\ req'[r].key # None
              /\ req[req'[r].replays].key = req'[r].key
              /\ req[req'[r].replays].payload = req'[r].payload
    PROVE  IndInv'
<1> USE DEF IndInv
<1>1. TypeOK'
    BY DEF TypeOK
<1>2. r \notin done /\ req[r].at # "done"
    BY DEF Bookkeeping, Running
<1>3. \A q \in Reqs \ {r} : req'[q] = req[q]
    BY DEF Others
<1>4. \A q \in done : q \in Reqs \ {r}
    BY <1>2 DEF TypeOK
<1>5. Bookkeeping'
    BY <1>2, <1>3 DEF Bookkeeping
<1>6. DoneLeavesRecord'
    BY <1>3, <1>4 DEF DoneLeavesRecord
<1>7. ExecutingFoundNothing'
    <2> SUFFICES ASSUME NEW p \in Reqs, req'[p].at \in Executing, NEW q \in req'[p].before,
                        req'[p].key # None, req'[q].key = req'[p].key
                 PROVE FALSE
        BY DEF ExecutingFoundNothing, SameKey
    <2>1. q \in done
        BY <1>3, <1>5 DEF Bookkeeping
    <2>2. req'[q] = req[q]
        BY <2>1, <1>3, <1>4
    <2>3. CASE p = r
        BY <2>2, <2>3
    <2>4. CASE p # r
        BY <2>2, <2>4, <1>3 DEF ExecutingFoundNothing, SameKey
    <2> QED BY <2>3, <2>4
<1>8. \A k \in Keys : \A record \in {redis[k], db[k]} : record # None =>
          record.run \in Reqs /\ req'[record.run].key = req[record.run].key
          /\ req'[record.run].payload = req[record.run].payload
          /\ req'[record.run].at # "idle"
    <2> SUFFICES ASSUME NEW k \in Keys, NEW record \in {redis[k], db[k]}, record # None
                 PROVE  record.run \in Reqs /\ req'[record.run].key = req[record.run].key
                        /\ req'[record.run].payload = req[record.run].payload
                        /\ req'[record.run].at # "idle"
        OBVIOUS
    <2>1. record \in Records
        BY DEF TypeOK
    <2>2. record.run \in Reqs /\ req[record.run].at # "idle"
        BY <2>1 DEF Records, RecordsTrue
    <2> QED BY <2>2, <1>3
<1>9. RecordsTrue'
    <2> SUFFICES ASSUME NEW k \in Keys, NEW record \in {redis[k], db[k]}, record # None
                 PROVE  /\ req'[record.run].key = k
                        /\ req'[record.run].payload = record.payload
                        /\ req'[record.run].at # "idle"
        BY DEF RecordsTrue
    <2> QED BY <1>8 DEF RecordsTrue
<1>10. OneHolder'
    <2> SUFFICES ASSUME NEW p \in Reqs, NEW q \in Reqs, p # q,
                        req'[p].at \in HoldsCode \cup {"done"},
                        req'[q].at \in HoldsCode \cup {"done"},
                        (CodeOfReq(q))' # None, (CodeOfReq(p))' = (CodeOfReq(q))'
                 PROVE FALSE
        BY DEF OneHolder, SameCode
    <2>1. \A x \in Reqs \ {r} : (CodeOfReq(x))' = CodeOfReq(x)
        BY <1>3 DEF CodeOfReq
    <2>2. CASE p # r /\ q # r
        BY <2>1, <2>2, <1>3 DEF OneHolder, SameCode
    <2>3. CASE p = r
        BY <2>1, <2>3, <1>3
    <2>4. CASE q = r
        BY <2>1, <2>4, <1>3
    <2> QED BY <2>2, <2>3, <2>4
<1>11. RecordOfCommittedRun'
    BY <1>3, <1>4 DEF RecordOfCommittedRun
<1>12. ReplayAnswersTheRequest'
    <2> SUFFICES ASSUME NEW p \in Reqs, req'[p].at = "replayed"
                 PROVE  /\ req'[p].key # None
                        /\ req'[req'[p].replays].key = req'[p].key
                        /\ req'[req'[p].replays].payload = req'[p].payload
        BY DEF ReplayAnswersTheRequest, SameKey
    <2>1. CASE p = r
        BY <2>1, <1>3
    <2>2. CASE p # r
        <3>1. /\ req[p].key # None
              /\ req[req[p].replays].key = req[p].key
              /\ req[req[p].replays].payload = req[p].payload
            BY <2>2, <1>3 DEF ReplayAnswersTheRequest, SameKey
        <3>2. req[p].replays \in Reqs
            BY <2>2, <1>3, RequestFields DEF TypeOK, Bookkeeping
        <3>3. CASE req[p].replays # r
            BY <2>2, <3>1, <3>2, <3>3, <1>3
        <3>4. CASE req[p].replays = r
            BY <2>2, <3>1, <3>4, <1>3 DEF Bookkeeping
        <3> QED BY <3>3, <3>4
    <2> QED BY <2>1, <2>2
<1> QED BY <1>1, <1>5, <1>6, <1>7, <1>9, <1>10, <1>11, <1>12

-----------------------------------------------------------------------------
(* The steps of a request.                                                 *)

\* Bookkeeping of a step that only advances.
LEMMA AdvanceStep ==
    ASSUME IndInv, NEW r \in Reqs, NEW a \in Ats, req[r].at \in Running,
           a \notin {"idle", "done", "replayed"},
           a \in {"missed", "cached", "stored"} => req[r].key # None,
           a \in Executing => req[r].at \in Executing,
           a \in HoldsCode => \/ req[r].at \in HoldsCode
                              \/ \A q \in Reqs \ {r} : SameCode(q, r) =>
                                    req[q].at \notin HoldsCode \cup {"done"},
           req' = [req EXCEPT ![r].at = a], UNCHANGED <<redis, db, done>>
    PROVE  IndInv'
<1>1. Advances(r, a)
    BY Advance DEF IndInv
<1>2. req'[r].payload # None
    BY <1>1 DEF IndInv, Bookkeeping, Advances, Running
<1>3. (CodeOfReq(r))' = CodeOfReq(r)
    BY <1>1 DEF CodeOfReq, Advances
<1>4. a \in HoldsCode =>
        \A q \in Reqs \ {r} : req[q].at \in HoldsCode \cup {"done"} =>
            ((CodeOfReq(r))' # None => CodeOfReq(q) # (CodeOfReq(r))')
    BY <1>3 DEF SameCode, IndInv, OneHolder
<1>5. a \in Executing =>
        \A q \in req'[r].before : req'[r].key # None => req[q].key # req'[r].key
    BY <1>1 DEF Advances, IndInv, ExecutingFoundNothing, SameKey
<1> QED BY <1>1, <1>2, <1>4, <1>5, ReadStep DEF Advances

LEMMA ArriveStep ==
    ASSUME IndInv, NEW r \in Reqs, NEW k \in Keys, NEW p \in Payloads, Arrive(r, k, p)
    PROVE  IndInv'
<1> DEFINE x == [Idle EXCEPT !.key = k, !.payload = p, !.before = done]
           rec == Answer(x, redis[k], "missed")
<1>1. x \in Requests /\ x.key = k /\ x.payload = p /\ x.before = done
    BY DEF Idle, Requests, IndInv, TypeOK
<1>2. redis[k] \in Records \cup {None}
    BY DEF IndInv, TypeOK
<1>3. /\ rec \in Requests /\ rec.key = k /\ rec.payload = p /\ rec.before = done
      /\ \/ redis[k] = None /\ rec.at = "missed"
         \/ /\ redis[k] # None /\ redis[k].payload = p
            /\ rec.at = "replayed" /\ rec.replays = redis[k].run
         \/ redis[k] # None /\ rec.at = "conflict"
    <2> HIDE DEF x
    <2>1. "missed" \in Ats
        BY DEF Ats, Running
    <2> QED BY <1>1, <1>2, <2>1, Answered
<1>4. req[r].at = "idle" /\ req' = [req EXCEPT ![r] = rec] /\ UNCHANGED <<redis, db, done>>
    BY DEF Arrive, MayArrive
<1> HIDE DEF rec
<1>5. req' \in [Reqs -> Requests] /\ Others(r) /\ req'[r] = rec
    BY <1>3, <1>4 DEF IndInv, TypeOK, Others
<1>6. rec.at = "replayed" =>
          /\ rec.replays \in Reqs \ {r}
          /\ req[rec.replays].key = k /\ req[rec.replays].payload = p
    BY <1>2, <1>3, <1>4 DEF Records, IndInv, RecordsTrue
<1>7. k # None /\ p # None
    OBVIOUS
<1> QED BY <1>3, <1>4, <1>5, <1>6, <1>7, ReadStep DEF Executing, HoldsCode

LEMMA ArriveUnkeyedStep ==
    ASSUME IndInv, NEW r \in Reqs, NEW p \in Payloads, ArriveUnkeyed(r, p)
    PROVE  IndInv'
<1> DEFINE rec == [Idle EXCEPT !.at = "unused", !.payload = p, !.before = done]
<1>1. /\ rec \in Requests /\ rec.at = "unused" /\ rec.key = None /\ rec.payload = p
      /\ rec.before = done
    BY DEF Idle, Requests, Running, IndInv, TypeOK
<1>2. req[r].at = "idle" /\ req' = [req EXCEPT ![r] = rec] /\ UNCHANGED <<redis, db, done>>
    BY DEF ArriveUnkeyed, MayArrive
<1> HIDE DEF rec
<1>3. req' \in [Reqs -> Requests] /\ Others(r) /\ req'[r] = rec
    BY <1>1, <1>2 DEF IndInv, TypeOK, Others
<1> QED BY <1>1, <1>2, <1>3, ReadStep DEF HoldsCode

LEMMA LookupDbStep ==
    ASSUME IndInv, NEW r \in Reqs, LookupDb(r)
    PROVE  IndInv'
<1> DEFINE k == req[r].key
           rec == Answer(req[r], db[k], "unused")
<1>1. req[r] \in Requests /\ req[r].at = "missed" /\ req[r].payload # None
      /\ k \in Keys /\ k # None
    BY RequestFields DEF LookupDb, IndInv, TypeOK, Bookkeeping
<1>2. db[k] \in Records \cup {None}
    BY <1>1 DEF IndInv, TypeOK
<1>3. /\ rec \in Requests /\ rec.key = k /\ rec.payload = req[r].payload
      /\ rec.before = req[r].before
      /\ \/ db[k] = None /\ rec.at = "unused"
         \/ /\ db[k] # None /\ db[k].payload = req[r].payload
            /\ rec.at = "replayed" /\ rec.replays = db[k].run
         \/ db[k] # None /\ rec.at = "conflict"
    <2>1. "unused" \in Ats
        BY DEF Ats, Running
    <2> QED BY <1>1, <1>2, <2>1, Answered
<1>4. req' = [req EXCEPT ![r] = rec] /\ UNCHANGED <<redis, db, done>>
    BY DEF LookupDb
<1> HIDE DEF rec
<1>5. req' \in [Reqs -> Requests] /\ Others(r) /\ req'[r] = rec
    BY <1>3, <1>4 DEF IndInv, TypeOK, Others
<1>6. rec.at = "replayed" =>
          /\ rec.replays \in Reqs \ {r}
          /\ req[rec.replays].key = k /\ req[rec.replays].payload = req[r].payload
    <2> SUFFICES ASSUME rec.at = "replayed"
                 PROVE  /\ rec.replays \in Reqs \ {r}
                        /\ req[rec.replays].key = k /\ req[rec.replays].payload = req[r].payload
        OBVIOUS
    <2>1. /\ db[k] # None /\ db[k] \in Records /\ rec.replays = db[k].run
          /\ db[k].payload = req[r].payload
        BY <1>2, <1>3
    <2>2. db[k].run \in done /\ db[k].run \in Reqs
        BY <1>1, <2>1 DEF IndInv, RecordOfCommittedRun, Records
    <2>3. r \notin done
        BY <1>1 DEF IndInv, Bookkeeping
    <2> QED BY <1>1, <2>1, <2>2, <2>3 DEF IndInv, RecordsTrue
<1>7. rec.at = "unused" => \A q \in req[r].before : req[q].key # k
    <2> SUFFICES ASSUME rec.at = "unused", NEW q \in req[r].before, req[q].key = k
                 PROVE  FALSE
        OBVIOUS
    <2>1. q \in done /\ db[k] = None
        BY <1>3 DEF IndInv, Bookkeeping
    <2> QED BY <1>1, <2>1 DEF IndInv, DoneLeavesRecord
<1>8. req[r].at \in Running /\ rec.at \notin HoldsCode
    BY <1>1, <1>3 DEF Running, HoldsCode
<1> QED BY <1>1, <1>3, <1>4, <1>5, <1>6, <1>7, <1>8, ReadStep DEF Executing

LEMMA StoreRedisStep ==
    ASSUME IndInv, NEW r \in Reqs, StoreRedis(r)
    PROVE  IndInv'
<1> USE DEF IndInv
<1> DEFINE record == [run |-> r, payload |-> req[r].payload]
<1>1. /\ req[r].at = "inserted" /\ req[r].key # None /\ req[r].key \in Keys
      /\ req[r].payload \in Payloads
    BY RequestFields DEF StoreRedis, TypeOK, Bookkeeping
<1>2. Advances(r, "cached") /\ UNCHANGED <<db, done>>
    BY Advance DEF StoreRedis, Ats, Running
<1>3. redis' = [redis EXCEPT ![req[r].key] = record]
    BY DEF StoreRedis
<1>4. record \in Records /\ record.run = r /\ record.payload = req[r].payload
    BY <1>1 DEF Records
<1> HIDE DEF record
<1>5. TypeOK'
    BY <1>1, <1>2, <1>3, <1>4 DEF TypeOK, Advances
<1>6. \A q \in Reqs : /\ req'[q].key = req[q].key /\ req'[q].payload = req[q].payload
                      /\ req'[q].before = req[q].before /\ req'[q].replays = req[q].replays
                      /\ q # r => req'[q].at = req[q].at
    BY <1>2 DEF Advances, Others
<1>7. req'[r].at = "cached"
    BY <1>2 DEF Advances
<1>8. Bookkeeping'
    BY <1>1, <1>2, <1>6, <1>7 DEF Bookkeeping
<1>9. DoneLeavesRecord' /\ RecordOfCommittedRun'
    BY <1>2, <1>6 DEF DoneLeavesRecord, RecordOfCommittedRun, TypeOK
<1>10. ExecutingFoundNothing'
    BY <1>1, <1>2, <1>6, <1>7 DEF ExecutingFoundNothing, Executing, SameKey, Bookkeeping, TypeOK
<1>11. RecordsTrue'
    <2> SUFFICES ASSUME NEW k \in Keys, NEW x \in {redis'[k], db'[k]}, x # None
                 PROVE  /\ req'[x.run].key = k /\ req'[x.run].payload = x.payload
                        /\ req'[x.run].at # "idle"
        BY DEF RecordsTrue
    <2>1. CASE x = record /\ k = req[r].key
        BY <1>4, <1>6, <1>7, <2>1
    <2>2. CASE x = redis[k] \/ x = db[k]
        <3>1. x.run \in Reqs
            BY <2>2 DEF TypeOK, Records
        <3> QED BY <3>1, <1>6, <1>7, <2>2 DEF RecordsTrue
    <2> QED BY <2>1, <2>2, <1>1, <1>2, <1>3 DEF TypeOK
<1>12. OneHolder'
    BY <1>1, <1>6, <1>7 DEF OneHolder, SameCode, CodeOfReq, HoldsCode
<1>13. ReplayAnswersTheRequest'
    <2> SUFFICES ASSUME NEW p \in Reqs, req'[p].at = "replayed"
                 PROVE  /\ req'[p].key # None
                        /\ req'[req'[p].replays].key = req'[p].key
                        /\ req'[req'[p].replays].payload = req'[p].payload
        BY DEF ReplayAnswersTheRequest, SameKey
    <2>1. p # r /\ req[p].at = "replayed"
        BY <1>6, <1>7
    <2>2. req[p].replays \in Reqs
        BY <2>1, RequestFields DEF TypeOK, Bookkeeping
    <2> QED BY <2>1, <2>2, <1>6 DEF ReplayAnswersTheRequest, SameKey
<1> QED BY <1>5, <1>8, <1>9, <1>10, <1>11, <1>12, <1>13

LEMMA CommitStep ==
    ASSUME IndInv, NEW r \in Reqs, Commit(r)
    PROVE  IndInv'
<1> USE DEF IndInv
<1> DEFINE record == [run |-> r, payload |-> req[r].payload]
           k == req[r].key
<1>1. /\ req[r].at \in {"inserted", "stored"} /\ k \in Keys \cup {None}
      /\ req[r].payload \in Payloads
    BY RequestFields DEF Commit, TypeOK, Bookkeeping
<1>2. Advances(r, "done") /\ UNCHANGED redis /\ done' = done \cup {r}
    BY Advance DEF Commit, Ats, Finished
<1>3. \/ (k = None \/ db[k] # None) /\ db' = db
      \/ k \in Keys /\ db[k] = None /\ db' = [db EXCEPT ![k] = record]
    BY <1>1 DEF Commit
<1>4. record \in Records /\ record.run = r /\ record.payload = req[r].payload /\ record # None
    <2>1. record \in Records /\ record.run = r /\ record.payload = req[r].payload
        BY <1>1 DEF Records
    <2>2. None \notin Records
        BY DEF Records
    <2> QED BY <2>1, <2>2
<1> HIDE DEF record
<1>5. TypeOK'
    BY <1>1, <1>2, <1>3, <1>4 DEF TypeOK, Advances
<1>6. \A q \in Reqs : /\ req'[q].key = req[q].key /\ req'[q].payload = req[q].payload
                      /\ req'[q].before = req[q].before /\ req'[q].replays = req[q].replays
                      /\ q # r => req'[q].at = req[q].at
    BY <1>2 DEF Advances, Others
<1>7. req'[r].at = "done"
    BY <1>2 DEF Advances
<1>8. Bookkeeping'
    BY <1>1, <1>2, <1>6, <1>7 DEF Bookkeeping
<1>9. DoneLeavesRecord'
    <2>1. \A j \in Keys : db[j] # None => db'[j] # None
        BY <1>3, <1>4 DEF TypeOK
    <2>2. k # None => db'[k] # None
        BY <1>1, <1>3, <1>4 DEF TypeOK
    <2> SUFFICES ASSUME NEW q \in done', req'[q].key # None PROVE db'[req'[q].key] # None
        BY DEF DoneLeavesRecord
    <2>3. CASE q = r
        BY <2>2, <2>3, <1>6
    <2>4. CASE q \in done
        <3>1. q \in Reqs /\ req[q].key \in Keys \cup {None}
            BY <2>4, RequestFields DEF TypeOK
        <3> QED BY <3>1, <2>1, <2>4, <1>6 DEF DoneLeavesRecord
    <2> QED BY <2>3, <2>4, <1>2
<1>10. RecordOfCommittedRun'
    <2> SUFFICES ASSUME NEW j \in Keys, db'[j] # None
                 PROVE  /\ db'[j].run \in done' /\ req'[db'[j].run].key = j
                        /\ req'[db'[j].run].payload = db'[j].payload
        BY DEF RecordOfCommittedRun
    <2>1. CASE db'[j] = db[j]
        BY <1>2, <1>6, <2>1 DEF RecordOfCommittedRun, TypeOK
    <2>2. CASE db'[j] = record /\ j = k
        BY <1>2, <1>4, <1>6, <2>2
    <2> QED BY <2>1, <2>2, <1>3 DEF TypeOK
<1>11. ExecutingFoundNothing'
    <2>1. req[r].at \in Executing
        BY <1>1 DEF Executing
    <2>2. \A p \in Reqs : req'[p].at \in Executing => req[p].at \in Executing
        BY <1>6, <2>1
    <2> QED BY <1>6, <2>2 DEF ExecutingFoundNothing, SameKey, Bookkeeping, TypeOK
<1>12. RecordsTrue'
    <2> SUFFICES ASSUME NEW j \in Keys, NEW x \in {redis'[j], db'[j]}, x # None
                 PROVE  /\ req'[x.run].key = j /\ req'[x.run].payload = x.payload
                        /\ req'[x.run].at # "idle"
        BY DEF RecordsTrue
    <2>1. CASE x = record /\ j = k
        BY <1>4, <1>6, <1>7, <2>1
    <2>2. CASE x = redis[j] \/ x = db[j]
        <3>1. x.run \in Reqs
            BY <2>2 DEF TypeOK, Records
        <3> QED BY <3>1, <1>6, <1>7, <2>2 DEF RecordsTrue
    <2> QED BY <2>1, <2>2, <1>2, <1>3 DEF TypeOK
<1>13. OneHolder'
    BY <1>1, <1>6, <1>7 DEF OneHolder, SameCode, CodeOfReq, HoldsCode
<1>14. ReplayAnswersTheRequest'
    <2> SUFFICES ASSUME NEW p \in Reqs, req'[p].at = "replayed"
                 PROVE  /\ req'[p].key # None
                        /\ req'[req'[p].replays].key = req'[p].key
                        /\ req'[req'[p].replays].payload = req'[p].payload
        BY DEF ReplayAnswersTheRequest, SameKey
    <2>1. p # r /\ req[p].at = "replayed"
        BY <1>6, <1>7
    <2>2. req[p].replays \in Reqs
        BY <2>1, RequestFields DEF TypeOK, Bookkeeping
    <2> QED BY <2>1, <2>2, <1>6 DEF ReplayAnswersTheRequest, SameKey
<1> QED BY <1>5, <1>8, <1>9, <1>10, <1>11, <1>12, <1>13, <1>14

LEMMA NextInv == IndInv /\ [Next]_vars => IndInv'
<1> SUFFICES ASSUME IndInv, [Next]_vars PROVE IndInv'
    OBVIOUS
<1>1. ASSUME NEW r \in Reqs, Precheck(r) PROVE IndInv'
    <2>1. PICK a \in {"refused", "checked"} : req' = [req EXCEPT ![r].at = a]
        BY <1>1 DEF Precheck
    <2>2. a \in Ats /\ req[r].at \in Running /\ req[r].at \in Executing
          /\ a \notin {"idle", "done", "replayed"} /\ a \notin {"missed", "cached", "stored"}
          /\ a \notin HoldsCode
        BY <1>1 DEF Precheck, Ats, Running, Finished, Executing, HoldsCode
    <2> QED BY <1>1, <2>1, <2>2, AdvanceStep DEF Precheck
<1>2. ASSUME NEW r \in Reqs, Insert(r) PROVE IndInv'
    <2>1. PICK a \in {"refused", "inserted"} :
              /\ req' = [req EXCEPT ![r].at = a]
              /\ a = "inserted" => \A q \in done : ~SameCode(q, r)
        BY <1>2 DEF Insert
    <2>2. a \in Ats /\ req[r].at \in Running /\ req[r].at \in Executing
          /\ a \notin {"idle", "done", "replayed"} /\ a \notin {"missed", "cached", "stored"}
          /\ (a \in HoldsCode => a = "inserted")
        BY <1>2 DEF Insert, Ats, Running, Finished, Executing, HoldsCode
    <2>3. a \in HoldsCode => \A q \in Reqs \ {r} : SameCode(q, r) =>
              req[q].at \notin HoldsCode \cup {"done"}
        BY <1>2, <2>1, <2>2 DEF Insert, IndInv, Bookkeeping
    <2> QED BY <1>2, <2>1, <2>2, <2>3, AdvanceStep DEF Insert
<1>3. ASSUME NEW r \in Reqs, StoreDb(r) PROVE IndInv'
    <2>1. /\ req[r].at = "cached" /\ "stored" \in Ats /\ req[r].at \in Running
          /\ req[r].at \in Executing /\ req[r].at \in HoldsCode /\ req[r].key # None
        BY <1>3 DEF StoreDb, Ats, Running, Executing, HoldsCode, IndInv, Bookkeeping
    <2> QED BY <1>3, <2>1, AdvanceStep DEF StoreDb
<1>4. ASSUME NEW r \in Reqs, Rollback(r) PROVE IndInv'
    <2>1. "failed" \in Ats /\ "failed" \notin Executing /\ "failed" \notin HoldsCode
        BY DEF Ats, Finished, Executing, HoldsCode
    <2> QED BY <1>4, <2>1, AdvanceStep DEF Rollback
<1>5. ASSUME NEW k \in Keys, RedisExpire(k) PROVE IndInv'
    <2>1. /\ \A j \in Keys : redis'[j] = redis[j] \/ redis'[j] = None
          /\ redis' \in [Keys -> Records \cup {None}] /\ UNCHANGED <<db, done, req>>
        BY <1>5 DEF RedisExpire, IndInv, TypeOK
    <2>2. RecordsTrue'
        BY <2>1 DEF IndInv, RecordsTrue
    <2> QED BY <2>1, <2>2 DEF IndInv, TypeOK, Bookkeeping, DoneLeavesRecord,
              ExecutingFoundNothing, OneHolder, RecordOfCommittedRun,
              ReplayAnswersTheRequest, SameCode, SameKey, CodeOfReq
<1>6. CASE UNCHANGED vars
    BY <1>6 DEF vars, IndInv, TypeOK, Bookkeeping, DoneLeavesRecord, RecordsTrue,
              ExecutingFoundNothing, OneHolder, RecordOfCommittedRun,
              ReplayAnswersTheRequest, SameCode, SameKey, CodeOfReq
<1> QED BY <1>1, <1>2, <1>3, <1>4, <1>5, <1>6, ArriveStep, ArriveUnkeyedStep,
          LookupDbStep, StoreRedisStep, CommitStep DEF Next

LEMMA IndInvImplies == IndInv => CommittedKeyRunsNoMore /\ OneSchoolPerCode
<1> SUFFICES ASSUME IndInv PROVE CommittedKeyRunsNoMore /\ OneSchoolPerCode
    OBVIOUS
<1>1. \A r \in done : r \in Reqs /\ req[r].at = "done"
    BY DEF IndInv, TypeOK, Bookkeeping
<1>2. CommittedKeyRunsNoMore
    BY <1>1 DEF IndInv, CommittedKeyRunsNoMore, ExecutingFoundNothing, Executing
<1>3. OneSchoolPerCode
    BY <1>1 DEF IndInv, OneSchoolPerCode, OneHolder
<1> QED BY <1>2, <1>3

-----------------------------------------------------------------------------
LEMMA IndInvAlways == Spec => []IndInv
BY InitInv, NextInv, PTL DEF Spec

\* Whatever overlaps, fails half-way or expires from Redis, the state is well
\* typed.
THEOREM IdempotencyTyped == Spec => []TypeOK
<1>1. IndInv => TypeOK
    BY DEF IndInv
<1> QED BY <1>1, IndInvAlways, PTL

\* Whatever overlaps, a durable record speaks of a committed request with that key
\* and payload, and a school code has one school (store, onboard_school).
THEOREM OnboardedOnce == Spec => []OnboardedAsRecorded
<1>1. IndInv => OnboardedAsRecorded
    BY IndInvImplies DEF IndInv, OnboardedAsRecorded
<1> QED BY <1>1, IndInvAlways, PTL

\* Whatever overlaps, a key found committed is not executed again (lookup).
THEOREM DurableIdempotency == Spec => []CommittedKeyRunsNoMore
<1>1. IndInv => CommittedKeyRunsNoMore
    BY IndInvImplies
<1> QED BY <1>1, IndInvAlways, PTL

\* Whatever overlaps or expires, a replay answers the request that is repeated
\* (lookup compares the payload's hash).
THEOREM ReplaysAnswer == Spec => []ReplayAnswersTheRequest
<1>1. IndInv => ReplayAnswersTheRequest
    BY DEF IndInv
<1> QED BY <1>1, IndInvAlways, PTL

\* Once committed, the answer of a key never changes (INSERT ... ON CONFLICT
\* DO NOTHING in store).
THEOREM DurableAnswersStay == Spec => DurableAnswerStays
<1>1. IndInv /\ [Next]_vars => [\A k \in Keys : db[k] # None => db'[k] = db[k]]_vars
    <2> SUFFICES ASSUME IndInv, Next, NEW k \in Keys, db[k] # None PROVE db'[k] = db[k]
        BY DEF vars
    <2>1. ASSUME NEW r \in Reqs, Commit(r) PROVE db'[k] = db[k]
        BY <2>1 DEF Commit, IndInv, TypeOK
    <2> QED BY <2>1 DEF Next, Arrive, ArriveUnkeyed, LookupDb, Precheck, Insert,
              StoreRedis, StoreDb, Rollback, RedisExpire
<1>2. Spec => [][\A k \in Keys : db[k] # None => db'[k] = db[k]]_vars
    BY <1>1, IndInvAlways, PTL DEF Spec
<1> QED BY <1>2 DEF DurableAnswerStays

=============================================================================
