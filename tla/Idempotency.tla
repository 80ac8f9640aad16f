----------------------------- MODULE Idempotency -----------------------------
(***************************************************************************)
(* Unsafe platform mutations under an Idempotency-Key:                     *)
(* services/idempotency_service.py as the three routes of                  *)
(* routers/platform/schools.py use it (onboard, update_school,             *)
(* replace_modules).                                                       *)
(*                                                                         *)
(* A request looks the key up in Redis, then in idempotency_records, runs  *)
(* the mutation in its transaction, sets the Redis record, inserts the     *)
(* durable record and commits.  Redis is not part of the transaction: what *)
(* is set there stays when the transaction is rolled back.                 *)
(*                                                                         *)
(* A payload stands for the endpoint and the request body together, the    *)
(* response body for the request that produced it.                         *)
(***************************************************************************)
EXTENDS Naturals, FiniteSets

CONSTANTS
    Reqs,       \* requests that ever arrive (a client's retry is another one)
    Keys,       \* Idempotency-Key values
    Payloads,   \* endpoint + body
    Codes,      \* school codes
    CodeOf,     \* the school code a payload onboards; None for the two updates
    MaxOpen,    \* bound: requests in progress at once
    None

ASSUME ConstantsAssumption ==
    /\ None \notin Reqs \cup Keys \cup Payloads \cup Codes
    /\ None \notin [run : Reqs, payload : Payloads]
    /\ CodeOf \in [Payloads -> Codes \cup {None}]
    /\ MaxOpen \in Nat

VARIABLES
    redis,      \* idempotency:<key>, the fast store
    db,         \* committed rows of idempotency_records
    done,       \* requests whose mutation is committed
    req         \* what each request handler holds

vars == <<redis, db, done, req>>

-----------------------------------------------------------------------------
Records == [run : Reqs, payload : Payloads]

Running  == {"missed", "unused", "checked", "inserted", "cached", "stored"}
Finished == {"done", "replayed", "conflict", "refused", "failed"}

\* before: history, the requests that were committed when this one arrived.
Idle == [at |-> "idle", key |-> None, payload |-> None, replays |-> None, before |-> {}]

Requests == [at : {"idle"} \cup Running \cup Finished, key : Keys \cup {None},
             payload : Payloads \cup {None}, replays : Reqs \cup {None},
             before : SUBSET Reqs]

CodeOfReq(r) == IF req[r].payload = None THEN None ELSE CodeOf[req[r].payload]

\* Transactions that hold, or have committed, the unique school_code of r.
HoldsCode == {"inserted", "cached", "stored"}
SameCode(q, r) == CodeOfReq(r) # None /\ CodeOfReq(q) = CodeOfReq(r)
SameKey(q, r)  == req[r].key # None /\ req[q].key = req[r].key

MayArrive(r) ==
    /\ req[r].at = "idle"
    /\ Cardinality({q \in Reqs : req[q].at \in Running}) < MaxOpen

Init ==
    /\ redis = [k \in Keys |-> None]
    /\ db = [k \in Keys |-> None]
    /\ done = {}
    /\ req = [r \in Reqs |-> Idle]

\* Faulty: a replay that does not compare the request hash.
AnswerAny(request, record, missed) ==
    IF record = None THEN [request EXCEPT !.at = missed]
    ELSE [request EXCEPT !.at = "replayed", !.replays = record.run]

\* What lookup answers from one of the two stores: replay, 409, or keep going.
Answer(request, record, missed) ==
    CASE record = None                       -> [request EXCEPT !.at = missed]
      [] record # None /\ record.payload = request.payload
                                             -> [request EXCEPT !.at = "replayed",
                                                                !.replays = record.run]
      [] record # None /\ record.payload # request.payload
                                             -> [request EXCEPT !.at = "conflict"]

-----------------------------------------------------------------------------
(* Faulty variants: what the properties must catch.                        *)

\* A lookup in Redis alone.
LookupDbSkipped(r) ==
    /\ req[r].at = "missed"
    /\ req' = [req EXCEPT ![r].at = "unused"]
    /\ UNCHANGED <<redis, db, done>>

\* ON CONFLICT DO UPDATE instead of DO NOTHING.
CommitUpsert(r) ==
    /\ req[r].at = "stored" \/ (req[r].at = "inserted" /\ req[r].key = None)
    /\ db' = IF req[r].key = None THEN db
             ELSE [db EXCEPT ![req[r].key] = [run |-> r, payload |-> req[r].payload]]
    /\ done' = done \cup {r}
    /\ req' = [req EXCEPT ![r].at = "done"]
    /\ UNCHANGED redis

\* No unique index on tenants.school_code: only the pre-check.
InsertUnindexed(r) ==
    /\ req[r].at = "checked"
    /\ req' = [req EXCEPT ![r].at = "inserted"]
    /\ UNCHANGED <<redis, db, done>>

\* A Redis record without the response to replay.
StoreRedisNoBody(r) ==
    /\ req[r].at = "inserted" /\ req[r].key # None
    /\ redis' = [redis EXCEPT ![req[r].key] = [payload |-> req[r].payload]]
    /\ req' = [req EXCEPT ![r].at = "cached"]
    /\ UNCHANGED <<db, done>>

-----------------------------------------------------------------------------
(* lookup                                                                  *)

\* With a key: the Redis GET.
Arrive(r, k, p) ==
    /\ MayArrive(r)
    /\ req' = [req EXCEPT ![r] =
                 Answer([Idle EXCEPT !.key = k, !.payload = p, !.before = done],
                        redis[k], "missed")]
    /\ UNCHANGED <<redis, db, done>>

\* Without the header nothing is looked up or stored.
ArriveUnkeyed(r, p) ==
    /\ MayArrive(r)
    /\ req' = [req EXCEPT ![r] = [Idle EXCEPT !.at = "unused", !.payload = p, !.before = done]]
    /\ UNCHANGED <<redis, db, done>>

\* Redis had nothing: the SELECT on idempotency_records, committed rows only.
LookupDb(r) ==
    /\ req[r].at = "missed"
    /\ req' = [req EXCEPT ![r] = Answer(req[r], db[req[r].key], "unused")]
    /\ UNCHANGED <<redis, db, done>>

-----------------------------------------------------------------------------
(* The mutation                                                            *)

\* onboard_school's pre-checks read committed rows; the updates read their school.
Precheck(r) ==
    /\ req[r].at = "unused"
    /\ req' = [req EXCEPT ![r].at =
                 IF \E q \in done : SameCode(q, r) THEN "refused" ELSE "checked"]
    /\ UNCHANGED <<redis, db, done>>

\* The flushed INSERT waits for an open transaction with the same code and
\* fails on a committed one.
Insert(r) ==
    /\ req[r].at = "checked"
    /\ \A q \in Reqs \ {r} : SameCode(q, r) => req[q].at \notin HoldsCode
    /\ req' = [req EXCEPT ![r].at =
                 IF \E q \in done : SameCode(q, r) THEN "refused" ELSE "inserted"]
    /\ UNCHANGED <<redis, db, done>>

-----------------------------------------------------------------------------
(* store and commit                                                        *)

\* The Redis SET, last writer wins, before anything is committed.
StoreRedis(r) ==
    /\ req[r].at = "inserted" /\ req[r].key # None
    /\ redis' = [redis EXCEPT ![req[r].key] = [run |-> r, payload |-> req[r].payload]]
    /\ req' = [req EXCEPT ![r].at = "cached"]
    /\ UNCHANGED <<db, done>>

\* INSERT ... ON CONFLICT DO NOTHING waits for an open insert of the same key.
StoreDb(r) ==
    /\ req[r].at = "cached"
    /\ db[req[r].key] = None =>
         \A q \in Reqs \ {r} : SameKey(q, r) => req[q].at # "stored"
    /\ req' = [req EXCEPT ![r].at = "stored"]
    /\ UNCHANGED <<redis, db, done>>

\* A row that was there already stays.
Commit(r) ==
    /\ req[r].at = "stored" \/ (req[r].at = "inserted" /\ req[r].key = None)
    /\ db' = IF req[r].key = None \/ db[req[r].key] # None THEN db
             ELSE [db EXCEPT ![req[r].key] = [run |-> r, payload |-> req[r].payload]]
    /\ done' = done \cup {r}
    /\ req' = [req EXCEPT ![r].at = "done"]
    /\ UNCHANGED redis

\* An error, a lost connection or a crash: the transaction is rolled back.
Rollback(r) ==
    /\ req[r].at \in Running
    /\ req' = [req EXCEPT ![r].at = "failed"]
    /\ UNCHANGED <<redis, db, done>>

\* 24 hours have passed since the SET.
RedisExpire(k) ==
    /\ redis[k] # None
    /\ redis' = [redis EXCEPT ![k] = None]
    /\ UNCHANGED <<db, done, req>>

Next ==
    \/ \E r \in Reqs :
          \/ \E p \in Payloads : \/ \E k \in Keys : Arrive(r, k, p)
                                 \/ ArriveUnkeyed(r, p)
          \/ LookupDb(r) \/ Precheck(r) \/ Insert(r)
          \/ StoreRedis(r) \/ StoreDb(r) \/ Commit(r) \/ Rollback(r)
    \/ \E k \in Keys : RedisExpire(k)

Spec == Init /\ [][Next]_vars

-----------------------------------------------------------------------------
(* Properties                                                              *)

\* Records name requests and payloads, handlers hold what they may hold.
TypeOK ==
    /\ redis \in [Keys -> Records \cup {None}]
    /\ db \in [Keys -> Records \cup {None}]
    /\ done \subseteq Reqs
    /\ req \in [Reqs -> Requests]

\* The durable record of a key names a committed request that carried that key
\* and that payload (the audit trail of idempotency_service.py line 3 never
\* speaks of a mutation that was rolled back).
RecordOfCommittedRun ==
    \A k \in Keys : db[k] # None =>
        /\ db[k].run \in done
        /\ req[db[k].run].key = k
        /\ req[db[k].run].payload = db[k].payload

\* A mutation is not run again for a key under which one had been committed
\* before the request came in, whatever expires or fails in between.
CommittedKeyRunsNoMore ==
    \A r \in done : \A q \in req[r].before : ~SameKey(q, r)

\* Overlapping onboardings of one school code leave at most one school
\* (onboarding_service.py line 44: the constraints are the backstop).
OneSchoolPerCode ==
    \A q, r \in done : SameCode(q, r) => q = r

\* What onboarding leaves behind is exact: the durable audit trail tells the truth
\* and a school code has one school.
OnboardedAsRecorded == RecordOfCommittedRun /\ OneSchoolPerCode

\* A replayed response answers the request that is repeated: the replayed
\* request carried the same key and the same payload.
ReplayAnswersTheRequest ==
    \A r \in Reqs : req[r].at = "replayed" =>
        /\ SameKey(req[r].replays, r)
        /\ req[req[r].replays].payload = req[r].payload

\* Once durable, what a key answers never changes (ON CONFLICT DO NOTHING),
\* so two late retries get the same response.
DurableAnswerStays ==
    [][\A k \in Keys : db[k] # None => db'[k] = db[k]]_vars

\* At most one mutation per key is ever committed (idempotency_service.py
\* lines 3-5): the others are replayed or refused.
KeyRunsOnce ==
    \A q, r \in done : SameKey(q, r) => q = r

\* A response is replayed only for a mutation that was committed.
ReplayedRunIsCommitted ==
    \A r \in Reqs : req[r].at = "replayed" => req[r].replays \in done

=============================================================================
