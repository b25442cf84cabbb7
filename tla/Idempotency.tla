---------------------------- MODULE Idempotency -----------------------------
(***************************************************************************)
(* IdempotencyInterceptor (apps/api/src/common/interceptors/               *)
(* idempotency.interceptor.ts): a request carries a key; the row of that   *)
(* key, inserted before the handler runs, is the lock, and afterwards the  *)
(* memory of what was answered.  The row is scoped to a user and an        *)
(* endpoint: here there is one of each.  The handler is abstract: it       *)
(* finishes with an answer or it throws.  Conversion puts a real one in.   *)
(***************************************************************************)
EXTENDS Naturals, FiniteSets

CONSTANTS Calls,     \* concurrent requests
          Keys,      \* Idempotency-Key values
          Bodies,    \* request bodies, told apart by their hash
          Answers,   \* what a handler may answer
          MaxRows,   \* bound: key rows ever inserted
          NoCall, NoRow, NoAnswer

ASSUME IdempotencyAssumption == MaxRows \in Nat /\ NoAnswer \notin Answers

VARIABLES keyRow,    \* idempotency_key: one row per key, or none
          lastId,    \* the id given to the newest row
          call,      \* each request, between its arrival and its end
          lapsed,    \* history: the keys whose row ever outlived its 24 hours
          finished,  \* history: per key, how often a handler finished
          replayed   \* history: the stored answers that were sent again

keyVars == <<keyRow, lastId, call, lapsed, finished, replayed>>

Holding == {"RUN", "REMEMBER", "RELEASE"}
Stages  == {"CLAIM", "LOOKUP", "RECLAIM"} \cup Holding

KeyRow == [id : 1..MaxRows, body : Bodies, expired : BOOLEAN,
           answer : Answers \cup {NoAnswer}]

Call == [stage : Stages, key : Keys, body : Bodies, id : 0..MaxRows,
         answer : Answers \cup {NoAnswer}]

(* What stands for nothing is not a row, nor a request.                     *)
ASSUME KeyRowsAssumption == NoRow \notin KeyRow /\ NoCall \notin Call

KeyInit ==
    /\ keyRow = [k \in Keys |-> NoRow]
    /\ lastId = 0
    /\ call = [p \in Calls |-> NoCall]
    /\ lapsed = {}
    /\ finished = [k \in Keys |-> 0]
    /\ replayed = {}

At(p, stage)   == call[p] # NoCall /\ call[p].stage = stage
GoTo(p, stage) == call' = [call EXCEPT ![p].stage = stage]
End(p)         == call' = [call EXCEPT ![p] = NoCall]
RowOf(p)       == keyRow[call[p].key]

(* The row a call works on is named by its id, not by its key.             *)
IsRow(p) == RowOf(p) # NoRow /\ RowOf(p).id = call[p].id

(* intercept(): a request arrives with a key.                              *)
Arrive(p, k, body) ==
    /\ call[p] = NoCall
    /\ call' = [call EXCEPT ![p] = [stage |-> "CLAIM", key |-> k, body |-> body,
                                    id |-> 0, answer |-> NoAnswer]]
    /\ UNCHANGED <<keyRow, lastId, lapsed, finished, replayed>>

(***************************************************************************)
(* claim(): the insert is the lock                                         *)
(***************************************************************************)
NewRow(body) ==
    [id |-> lastId + 1, body |-> body, expired |-> FALSE, answer |-> NoAnswer]

MayInsert(p) == RowOf(p) = NoRow /\ lastId < MaxRows

Insert(p) ==
    /\ At(p, "CLAIM")
    /\ MayInsert(p)
    /\ keyRow' = [keyRow EXCEPT ![call[p].key] = NewRow(call[p].body)]
    /\ lastId' = lastId + 1
    /\ call' = [call EXCEPT ![p].stage = "RUN", ![p].id = lastId + 1]
    /\ UNCHANGED <<lapsed, finished, replayed>>

InsertRefused(p) ==
    /\ At(p, "CLAIM")
    /\ RowOf(p) # NoRow
    /\ GoTo(p, "LOOKUP")
    /\ UNCHANGED <<keyRow, lastId, lapsed, finished, replayed>>

(* The row that was in the way is read in a statement of its own: it may   *)
(* be gone, or expired, of another body, still in progress, or answered.   *)
LookUpGone(p) ==
    /\ At(p, "LOOKUP")
    /\ RowOf(p) = NoRow
    /\ GoTo(p, "CLAIM")
    /\ UNCHANGED <<keyRow, lastId, lapsed, finished, replayed>>

LookUpExpired(p) ==
    /\ At(p, "LOOKUP")
    /\ RowOf(p) # NoRow
    /\ RowOf(p).expired
    /\ call' = [call EXCEPT ![p].stage = "RECLAIM", ![p].id = RowOf(p).id]
    /\ UNCHANGED <<keyRow, lastId, lapsed, finished, replayed>>

Replayable(p) == RowOf(p).body = call[p].body /\ RowOf(p).answer # NoAnswer

LookUp(p) ==
    /\ At(p, "LOOKUP")
    /\ RowOf(p) # NoRow
    /\ ~RowOf(p).expired
    /\ replayed' = IF Replayable(p)
                   THEN replayed \cup {[key |-> call[p].key, body |-> call[p].body,
                                        stored |-> RowOf(p)]}
                   ELSE replayed
    /\ End(p)
    /\ UNCHANGED <<keyRow, lastId, lapsed, finished>>

(* An expired row is deleted by id; if somebody else was faster, the       *)
(* delete fails and so does the request.                                   *)
Reclaim(p) ==
    /\ At(p, "RECLAIM")
    /\ IF IsRow(p)
       THEN GoTo(p, "CLAIM") /\ keyRow' = [keyRow EXCEPT ![call[p].key] = NoRow]
       ELSE End(p) /\ UNCHANGED keyRow
    /\ UNCHANGED <<lastId, lapsed, finished, replayed>>

(***************************************************************************)
(* The handler, and what is made of its outcome                            *)
(***************************************************************************)
Finish(p, answer) ==
    /\ At(p, "RUN")
    /\ call' = [call EXCEPT ![p].stage = "REMEMBER", ![p].answer = answer]
    /\ finished' = [finished EXCEPT ![call[p].key] = @ + 1]
    /\ UNCHANGED <<keyRow, lastId, lapsed, replayed>>

Throw(p) ==
    /\ At(p, "RUN")
    /\ GoTo(p, "RELEASE")
    /\ UNCHANGED <<keyRow, lastId, lapsed, finished, replayed>>

(* remember() and release() are not awaited, name the row by id, and       *)
(* swallow their errors.                                                   *)
Remember(p) ==
    /\ At(p, "REMEMBER")
    /\ keyRow' = IF IsRow(p)
                 THEN [keyRow EXCEPT ![call[p].key].answer = call[p].answer]
                 ELSE keyRow
    /\ End(p)
    /\ UNCHANGED <<lastId, lapsed, finished, replayed>>

(* Mutant: the key is freed whatever became of the request.                *)
ReleaseAlways(p) == At(p, "RELEASE") \/ At(p, "REMEMBER")

ToBeReleased(p) == At(p, "RELEASE")

Release(p) ==
    /\ ToBeReleased(p)
    /\ keyRow' = IF IsRow(p) THEN [keyRow EXCEPT ![call[p].key] = NoRow] ELSE keyRow
    /\ End(p)
    /\ UNCHANGED <<lastId, lapsed, finished, replayed>>

(* The process dies, or the write of remember() or release() fails.        *)
Lose(p) ==
    /\ call[p] # NoCall
    /\ End(p)
    /\ UNCHANGED <<keyRow, lastId, lapsed, finished, replayed>>

(***************************************************************************)
(* Time: 24 hours, which no request outlives, and the nightly purge        *)
(***************************************************************************)
Held(k) == \E p \in Calls : call[p] # NoCall /\ call[p].stage \in Holding /\ call[p].key = k

Expire(k) ==
    /\ keyRow[k] # NoRow
    /\ ~keyRow[k].expired
    /\ ~Held(k)
    /\ keyRow' = [keyRow EXCEPT ![k].expired = TRUE]
    /\ lapsed' = lapsed \cup {k}
    /\ UNCHANGED <<lastId, call, finished, replayed>>

Purge(k) ==
    /\ keyRow[k] # NoRow
    /\ keyRow[k].expired
    /\ keyRow' = [keyRow EXCEPT ![k] = NoRow]
    /\ UNCHANGED <<lastId, call, lapsed, finished, replayed>>

Intercept(p) ==
    \/ Insert(p) \/ InsertRefused(p)
    \/ LookUpGone(p) \/ LookUpExpired(p) \/ LookUp(p)
    \/ Reclaim(p)
    \/ Remember(p) \/ Release(p)

KeyNext ==
    \/ \E p \in Calls, k \in Keys, body \in Bodies : Arrive(p, k, body)
    \/ \E p \in Calls : Intercept(p) \/ Throw(p) \/ Lose(p)
    \/ \E p \in Calls, answer \in Answers : Finish(p, answer)
    \/ \E k \in Keys : Expire(k) \/ Purge(k)

KeySpec == KeyInit /\ [][KeyNext]_keyVars

(***************************************************************************)
(* Properties                                                              *)
(***************************************************************************)
KeyTypeOK ==
    /\ keyRow \in [Keys -> KeyRow \cup {NoRow}]
    /\ lastId \in 0..MaxRows
    /\ call \in [Calls -> Call \cup {NoCall}]
    /\ lapsed \in SUBSET Keys
    /\ finished \in [Keys -> Nat]
    /\ replayed \subseteq [key : Keys, body : Bodies, stored : KeyRow]

ExclusiveKey ==
    \A p, q \in Calls :
        /\ call[p] # NoCall /\ call[p].stage \in Holding
        /\ call[q] # NoCall /\ call[q].stage \in Holding
        /\ call[p].key = call[q].key
        => p = q

FinishesOnce == \A k \in Keys \ lapsed : finished[k] <= 1

ReplaysItsAnswer ==
    \A r \in replayed : r.stored.answer # NoAnswer /\ r.stored.body = r.body

(* Two requests with one key never run the handler at the same time;       *)
(* within the 24 hours of its row a key's handler finishes at most once,   *)
(* whatever crashes between the work and the memory of it; and what is     *)
(* replayed was answered to a request with the same body.                  *)
OneAnswerPerKey ==
    /\ ExclusiveKey
    /\ FinishesOnce
    /\ ReplaysItsAnswer
=============================================================================
