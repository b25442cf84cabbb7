----------------------------- MODULE DocumentsProofs -----------------------------
(***************************************************************************)
(* The documents of a sale: the quotation and its conversion, then the     *)
(* statutory series and the invoice, the returns, and the price of a line. *)
(***************************************************************************)
EXTENDS Conversion, Billing, Prices, Returns, Sums

(***************************************************************************)
(* First the interceptor, around any handler: one answer per key, for any  *)
(* number of requests, keys and bodies.  What KeyInv adds to the property  *)
(* is why it holds: a request that runs or reports on a handler owns the   *)
(* row of its key, unanswered and unexpired; a row that has expired is     *)
(* nobody's and stays expired; and while a key has not lapsed, a handler   *)
(* that finished leaves the row in the way of every later request.         *)
(*                                                                         *)
(* Then the endpoint that converts quotations, which implements the        *)
(* interceptor: each of its steps is a step of KeySpec or leaves the keys  *)
(* alone.  So what is proved of any handler holds of this one.             *)
(***************************************************************************)

Working(p) == call[p] # NoCall /\ call[p].stage \in Holding

(* The holder of a key owns its row.                                       *)
HoldersOwnRows ==
    \A p \in Calls : Working(p) =>
        /\ IsRow(p)
        /\ ~RowOf(p).expired
        /\ RowOf(p).answer = NoAnswer

(* A row that is about to be reclaimed has expired, if it still exists.    *)
ReclaimsExpired ==
    \A p \in Calls : At(p, "RECLAIM") =>
        /\ call[p].id <= lastId
        /\ IsRow(p) => RowOf(p).expired

RowsAreNumbered == \A k \in Keys : keyRow[k] # NoRow => keyRow[k].id <= lastId

ExpiredHaveLapsed == \A k \in Keys : keyRow[k] # NoRow /\ keyRow[k].expired => k \in lapsed

(* A handler that finished cannot run again while its row is there.        *)
FinishedBarsTheKey ==
    \A k \in Keys \ lapsed :
        \/ finished[k] = 0
        \/ /\ finished[k] = 1
           /\ keyRow[k] # NoRow
           /\ \A p \in Calls : Working(p) /\ call[p].key = k => call[p].stage = "REMEMBER"

KeyInv ==
    /\ KeyTypeOK
    /\ HoldersOwnRows
    /\ ReclaimsExpired
    /\ RowsAreNumbered
    /\ ExpiredHaveLapsed
    /\ FinishedBarsTheKey
    /\ ExclusiveKey
    /\ ReplaysItsAnswer

-----------------------------------------------------------------------------
(* Type correctness is inductive by itself.                                *)
LEMMA KeyTypes == KeyTypeOK /\ [KeyNext]_keyVars => KeyTypeOK'
<1> SUFFICES ASSUME KeyTypeOK, [KeyNext]_keyVars PROVE KeyTypeOK'
  OBVIOUS
<1> USE IdempotencyAssumption DEF KeyTypeOK, Stages, Holding
<1>1. ASSUME NEW p \in Calls, NEW k \in Keys, NEW body \in Bodies, Arrive(p, k, body)
      PROVE  KeyTypeOK'
  BY <1>1 DEF Arrive, Call
<1>2. ASSUME NEW p \in Calls, Insert(p) PROVE KeyTypeOK'
  <2>1. call[p] \in Call /\ NewRow(call[p].body) \in KeyRow
    BY <1>2 DEF Insert, At, Call, NewRow, KeyRow, MayInsert
  <2>2. [[call[p] EXCEPT !.stage = "RUN"] EXCEPT !.id = lastId + 1] \in Call
    <3>1. lastId + 1 \in 0..MaxRows
      BY <1>2 DEF Insert, MayInsert
    <3> QED
      BY <2>1, <3>1 DEF Call
  <2>3. call' = [call EXCEPT ![p] = [[call[p] EXCEPT !.stage = "RUN"]
                                        EXCEPT !.id = lastId + 1]]
    BY <1>2 DEF Insert
  <2>4. call' \in [Calls -> Call \cup {NoCall}]
    BY <2>2, <2>3
  <2>5. lastId' \in 0..MaxRows
    BY <1>2 DEF Insert, MayInsert
  <2>6. keyRow' \in [Keys -> KeyRow \cup {NoRow}]
    BY <1>2, <2>1 DEF Insert
  <2> QED
    BY <1>2, <2>4, <2>5, <2>6 DEF Insert
<1>3. ASSUME NEW p \in Calls, InsertRefused(p) \/ LookUpGone(p) \/ Throw(p)
      PROVE  KeyTypeOK'
  BY <1>3 DEF InsertRefused, LookUpGone, Throw, At, GoTo, Call
<1>4. ASSUME NEW p \in Calls, LookUpExpired(p) PROVE KeyTypeOK'
  <2>1. call[p] \in Call /\ RowOf(p) \in KeyRow
    BY <1>4 DEF LookUpExpired, At, RowOf, Call
  <2>2. [[call[p] EXCEPT !.stage = "RECLAIM"] EXCEPT !.id = RowOf(p).id] \in Call
    <3>1. RowOf(p).id \in 0..MaxRows
      BY <2>1 DEF KeyRow
    <3> QED
      BY <2>1, <3>1 DEF Call
  <2>3. call' = [call EXCEPT ![p] = [[call[p] EXCEPT !.stage = "RECLAIM"]
                                        EXCEPT !.id = RowOf(p).id]]
    BY <1>4 DEF LookUpExpired
  <2>4. call' \in [Calls -> Call \cup {NoCall}]
    BY <2>2, <2>3
  <2> QED
    BY <1>4, <2>4 DEF LookUpExpired
<1>5. ASSUME NEW p \in Calls, LookUp(p) PROVE KeyTypeOK'
  <2>1. call[p] \in Call /\ RowOf(p) \in KeyRow
    BY <1>5 DEF LookUp, At, RowOf, Call
  <2> QED
    BY <1>5, <2>1 DEF LookUp, End, Call
<1>6. ASSUME NEW p \in Calls, Reclaim(p) PROVE KeyTypeOK'
  BY <1>6 DEF Reclaim, At, GoTo, End, Call
<1>7. ASSUME NEW p \in Calls, NEW answer \in Answers, Finish(p, answer)
      PROVE  KeyTypeOK'
  <2>1. call[p] \in Call
    BY <1>7 DEF Finish, At
  <2>2. [[call[p] EXCEPT !.stage = "REMEMBER"] EXCEPT !.answer = answer] \in Call
    BY <2>1 DEF Call
  <2>3. call' = [call EXCEPT ![p] = [[call[p] EXCEPT !.stage = "REMEMBER"]
                                        EXCEPT !.answer = answer]]
    BY <1>7 DEF Finish
  <2>4. call' \in [Calls -> Call \cup {NoCall}]
    BY <2>2, <2>3
  <2>5. finished' \in [Keys -> Nat]
    BY <1>7, <2>1 DEF Finish, Call
  <2> QED
    BY <1>7, <2>4, <2>5 DEF Finish
<1>8. ASSUME NEW p \in Calls, Remember(p) PROVE KeyTypeOK'
  <2>1. call[p] \in Call
    BY <1>8 DEF Remember, At
  <2>2. IsRow(p) => [RowOf(p) EXCEPT !.answer = call[p].answer] \in KeyRow
    BY <2>1 DEF IsRow, RowOf, Call, KeyRow
  <2> QED
    BY <1>8, <2>1, <2>2 DEF Remember, End, RowOf, Call
<1>9. ASSUME NEW p \in Calls, Release(p) \/ Lose(p) PROVE KeyTypeOK'
  BY <1>9 DEF Release, ToBeReleased, Lose, At, End, Call
<1>10. ASSUME NEW k \in Keys, Expire(k) \/ Purge(k) PROVE KeyTypeOK'
  <2>1. keyRow[k] \in KeyRow /\ [keyRow[k] EXCEPT !.expired = TRUE] \in KeyRow
    BY <1>10 DEF Expire, Purge, KeyRow
  <2> QED
    BY <1>10, <2>1 DEF Expire, Purge
<1>11. CASE UNCHANGED keyVars
  BY <1>11 DEF keyVars
<1> QED
  BY <1>1, <1>2, <1>3, <1>4, <1>5, <1>6, <1>7, <1>8, <1>9, <1>10, <1>11
  DEF KeyNext, Intercept

-----------------------------------------------------------------------------
(* The row goes to a request that nobody shares the key with: any holder   *)
(* would own a row, and there is none.  Its number is new, so that no      *)
(* request about to reclaim can mistake it for the row it has in mind.     *)
LEMMA InsertKeepsInvariant ==
    ASSUME KeyInv, KeyTypeOK', NEW p \in Calls, Insert(p)
    PROVE  KeyInv'
<1> DEFINE k == call[p].key
<1>1. /\ call[p] # NoCall /\ call[p].stage = "CLAIM" /\ call[p] \in Call /\ k \in Keys
      /\ keyRow[k] = NoRow
      /\ keyRow' = [keyRow EXCEPT ![k] = NewRow(call[p].body)]
      /\ lastId' = lastId + 1
      /\ UNCHANGED <<lapsed, finished, replayed>>
  BY DEF Insert, At, MayInsert, RowOf, KeyInv, KeyTypeOK, Call
<1>2. /\ call'[p] # NoCall /\ call'[p].stage = "RUN" /\ call'[p].key = k
      /\ call'[p].id = lastId + 1
      /\ \A q \in Calls \ {p} : call'[q] = call[q]
  <2>1. call' = [call EXCEPT ![p] = [[call[p] EXCEPT !.stage = "RUN"]
                                        EXCEPT !.id = lastId + 1]]
    BY DEF Insert
  <2>2. call'[p] = [[call[p] EXCEPT !.stage = "RUN"] EXCEPT !.id = lastId + 1]
    BY <2>1 DEF KeyInv, KeyTypeOK
  <2>3. call'[p] # NoCall
    <3>1. call'[p].stage = "RUN" /\ call'[p] \in Call \cup {NoCall}
      BY <1>1, <2>2 DEF KeyTypeOK, Call
    <3>2. call'[p] \in Call
      <4>1. lastId + 1 \in 0..MaxRows
        BY <1>1 DEF KeyTypeOK
      <4> QED
        BY <1>1, <2>2, <4>1 DEF Call, Stages, Holding
    <3> QED
      BY <3>2, KeyRowsAssumption
  <2> QED
    BY <1>1, <2>1, <2>2, <2>3 DEF KeyInv, KeyTypeOK, Call
<1>3. /\ keyRow'[k] = NewRow(call[p].body)
      /\ keyRow'[k] # NoRow
      /\ \A j \in Keys \ {k} : keyRow'[j] = keyRow[j]
  <2>1. NewRow(call[p].body) \in KeyRow
    BY <1>1, IdempotencyAssumption DEF NewRow, KeyRow, Call, Insert, MayInsert, KeyInv, KeyTypeOK
  <2> QED
    BY <1>1, <2>1, KeyRowsAssumption DEF KeyInv, KeyTypeOK
<1>4. \A q \in Calls : call[q] # NoCall => call[q] \in Call /\ call[q].key \in Keys
  BY DEF KeyInv, KeyTypeOK, Call
<1>5. \A q \in Calls : Working(q) => call[q].key # k
  BY <1>1 DEF KeyInv, HoldersOwnRows, IsRow, RowOf
<1> HIDE DEF k
<1>6. HoldersOwnRows'
  <2> SUFFICES ASSUME NEW q \in Calls, Working(q)'
               PROVE  (IsRow(q) /\ ~RowOf(q).expired /\ RowOf(q).answer = NoAnswer)'
    BY DEF HoldersOwnRows
  <2>1. CASE q = p
    BY <1>2, <1>3, <2>1 DEF IsRow, RowOf, NewRow
  <2>2. CASE q # p
    BY <1>2, <1>3, <1>4, <1>5, <2>2 DEF Working, IsRow, RowOf, KeyInv, HoldersOwnRows
  <2> QED
    BY <2>1, <2>2
<1>7. ReclaimsExpired'
  <2> SUFFICES ASSUME NEW q \in Calls, At(q, "RECLAIM")'
               PROVE  (call[q].id <= lastId /\ (IsRow(q) => RowOf(q).expired))'
    BY DEF ReclaimsExpired
  <2>1. q # p /\ At(q, "RECLAIM") /\ call'[q] = call[q]
    BY <1>2 DEF At
  <2>2. call[q].id \in Nat /\ lastId \in Nat /\ call[q].key \in Keys /\ call[q].id <= lastId
    BY <1>4, <2>1 DEF Call, At, KeyInv, KeyTypeOK, ReclaimsExpired
  <2>3. CASE call[q].key = k
    BY <1>1, <1>3, <2>1, <2>2, <2>3 DEF IsRow, RowOf, NewRow
  <2>4. CASE call[q].key # k
    BY <1>1, <1>3, <2>1, <2>2, <2>4 DEF IsRow, RowOf, KeyInv, ReclaimsExpired
  <2> QED
    BY <2>3, <2>4
<1>8. RowsAreNumbered'
  <2>1. lastId \in Nat /\ \A j \in Keys : keyRow[j] # NoRow => keyRow[j].id \in Nat
    BY IdempotencyAssumption DEF KeyInv, KeyTypeOK, KeyRow
  <2> QED
    BY <1>1, <1>3, <2>1 DEF KeyInv, RowsAreNumbered, NewRow
<1>9. ExpiredHaveLapsed'
  BY <1>1, <1>3 DEF KeyInv, ExpiredHaveLapsed, NewRow
<1>10. FinishedBarsTheKey'
  <2> SUFFICES ASSUME NEW j \in Keys \ lapsed, finished[j] # 0
               PROVE  /\ finished[j] = 1
                      /\ keyRow'[j] # NoRow
                      /\ \A q \in Calls : Working(q)' /\ call'[q].key = j
                             => call'[q].stage = "REMEMBER"
    BY <1>1 DEF FinishedBarsTheKey, Working
  <2>1. /\ finished[j] = 1 /\ keyRow[j] # NoRow
        /\ \A q \in Calls : Working(q) /\ call[q].key = j => call[q].stage = "REMEMBER"
    BY DEF KeyInv, FinishedBarsTheKey
  <2>2. j # k
    BY <1>1, <2>1
  <2> QED
    BY <1>2, <1>3, <2>1, <2>2 DEF Working
<1>11. ExclusiveKey'
  <2>1. \A q \in Calls \ {p} : Working(q)' => Working(q) /\ call'[q] = call[q]
    BY <1>2 DEF Working
  <2> QED
    BY <1>2, <1>5, <2>1 DEF KeyInv, ExclusiveKey, Working
<1>12. ReplaysItsAnswer'
  BY <1>1 DEF KeyInv, ReplaysItsAnswer
<1> QED
  BY <1>6, <1>7, <1>8, <1>9, <1>10, <1>11, <1>12 DEF KeyInv

(* A request that holds no row after its step leaves every row as it was:  *)
(* all it may not do is set out to reclaim a row that is alive.            *)
LEMMA BystandersKeepInvariant ==
    ASSUME KeyInv, KeyTypeOK', ReplaysItsAnswer', NEW p \in Calls,
           \A q \in Calls \ {p} : call'[q] = call[q],
           UNCHANGED <<keyRow, lastId, lapsed, finished>>,
           ~Working(p)',
           At(p, "RECLAIM")' => call'[p].id <= lastId /\ (IsRow(p)' => RowOf(p)'.expired)
    PROVE  KeyInv'
<1>1. \A q \in Calls \ {p} : /\ Working(q)' <=> Working(q)
                             /\ At(q, "RECLAIM")' <=> At(q, "RECLAIM")
  BY DEF Working, At
<1>2. HoldersOwnRows'
  BY <1>1 DEF KeyInv, HoldersOwnRows, IsRow, RowOf
<1>3. ReclaimsExpired'
  <2> SUFFICES ASSUME NEW q \in Calls, At(q, "RECLAIM")'
               PROVE  (call[q].id <= lastId /\ (IsRow(q) => RowOf(q).expired))'
    BY DEF ReclaimsExpired
  <2>1. CASE q = p
    BY <2>1
  <2>2. CASE q # p
    BY <1>1, <2>2 DEF KeyInv, ReclaimsExpired, IsRow, RowOf
  <2> QED
    BY <2>1, <2>2
<1>4. RowsAreNumbered' /\ ExpiredHaveLapsed'
  BY DEF KeyInv, RowsAreNumbered, ExpiredHaveLapsed
<1>5. FinishedBarsTheKey'
  BY <1>1 DEF KeyInv, FinishedBarsTheKey
<1>6. ExclusiveKey'
  BY <1>1 DEF KeyInv, ExclusiveKey, Working
<1> QED
  BY <1>2, <1>3, <1>4, <1>5, <1>6 DEF KeyInv

LEMMA WaitingKeepsInvariant ==
    ASSUME KeyInv, KeyTypeOK', NEW p \in Calls,
           \/ \E k \in Keys, body \in Bodies : Arrive(p, k, body)
           \/ InsertRefused(p) \/ LookUpGone(p) \/ LookUpExpired(p) \/ LookUp(p)
           \/ Lose(p)
    PROVE  KeyInv'
<1>1. \A q \in Calls \ {p} : call'[q] = call[q]
  BY DEF Arrive, InsertRefused, LookUpGone, LookUpExpired, LookUp, Lose, GoTo, End,
         KeyInv, KeyTypeOK
<1>2. UNCHANGED <<keyRow, lastId, lapsed, finished>>
  BY DEF Arrive, InsertRefused, LookUpGone, LookUpExpired, LookUp, Lose
<1>3. ReplaysItsAnswer'
  BY DEF Arrive, InsertRefused, LookUpGone, LookUpExpired, LookUp, Lose, Replayable,
         KeyInv, ReplaysItsAnswer
<1>4. CASE LookUpExpired(p)
  <2>1. call' = [call EXCEPT ![p] = [[call[p] EXCEPT !.stage = "RECLAIM"]
                                        EXCEPT !.id = RowOf(p).id]]
    BY <1>4 DEF LookUpExpired
  <2>2. call'[p] = [[call[p] EXCEPT !.stage = "RECLAIM"] EXCEPT !.id = RowOf(p).id]
    BY <2>1 DEF KeyInv, KeyTypeOK
  <2>3. call[p] \in Call /\ RowOf(p) # NoRow /\ RowOf(p).expired
    BY <1>4 DEF LookUpExpired, At, KeyInv, KeyTypeOK
  <2>4. /\ call'[p].stage = "RECLAIM" /\ call'[p].id = RowOf(p).id
        /\ call'[p].key = call[p].key
    BY <2>2, <2>3 DEF Call
  <2>5. call[p].key \in Keys /\ RowOf(p).id <= lastId
    BY <2>3 DEF Call, RowOf, KeyInv, RowsAreNumbered
  <2>6. ~Working(p)'
    BY <2>4 DEF Working, Holding
  <2>7. At(p, "RECLAIM")' => call'[p].id <= lastId /\ (IsRow(p)' => RowOf(p)'.expired)
    BY <1>2, <2>3, <2>4, <2>5 DEF RowOf
  <2> QED
    BY <1>1, <1>2, <1>3, <2>6, <2>7, BystandersKeepInvariant
<1>5. CASE ~LookUpExpired(p)
  <2>1. call'[p] = NoCall \/ call'[p].stage \in {"CLAIM", "LOOKUP"}
    BY <1>5 DEF Arrive, InsertRefused, LookUpGone, LookUp, Lose, GoTo, End, At, Call,
                KeyInv, KeyTypeOK
  <2>2. ~Working(p)' /\ ~At(p, "RECLAIM")'
    BY <2>1 DEF Working, At, Holding
  <2> QED
    BY <1>1, <1>2, <1>3, <2>2, BystandersKeepInvariant
<1> QED
  BY <1>4, <1>5

(* Only a row that has expired is reclaimed, and nobody holds it.          *)
LEMMA ReclaimKeepsInvariant ==
    ASSUME KeyInv, KeyTypeOK', NEW p \in Calls, Reclaim(p)
    PROVE  KeyInv'
<1> DEFINE k == call[p].key
<1>1. /\ call[p] # NoCall /\ call[p] \in Call /\ k \in Keys
      /\ UNCHANGED <<lastId, lapsed, finished, replayed>>
      /\ \A q \in Calls \ {p} : call'[q] = call[q]
      /\ call'[p] = NoCall \/ call'[p].stage = "CLAIM"
  BY DEF Reclaim, At, GoTo, End, KeyInv, KeyTypeOK, Call
<1>2. ReplaysItsAnswer'
  BY <1>1 DEF KeyInv, ReplaysItsAnswer
<1>3. ~Working(p)' /\ ~At(p, "RECLAIM")'
  BY <1>1 DEF Working, At, Holding
<1>4. CASE ~IsRow(p)
  BY <1>1, <1>2, <1>3, <1>4, BystandersKeepInvariant DEF Reclaim
<1>5. CASE IsRow(p)
  <2>1. /\ keyRow' = [keyRow EXCEPT ![k] = NoRow]
        /\ keyRow[k] # NoRow /\ keyRow[k].expired /\ k \in lapsed
    BY <1>1, <1>5 DEF Reclaim, IsRow, RowOf, KeyInv, ReclaimsExpired, ExpiredHaveLapsed
  <2>2. keyRow'[k] = NoRow /\ \A j \in Keys \ {k} : keyRow'[j] = keyRow[j]
    BY <1>1, <2>1 DEF KeyInv, KeyTypeOK
  <2>3. \A q \in Calls : call[q] # NoCall => call[q].key \in Keys
    BY DEF KeyInv, KeyTypeOK, Call
  <2>4. \A q \in Calls : Working(q)' => /\ Working(q) /\ q # p /\ call'[q] = call[q]
                                        /\ call[q].key \in Keys \ {k}
    <3> SUFFICES ASSUME NEW q \in Calls, Working(q)'
                 PROVE  /\ Working(q) /\ q # p /\ call'[q] = call[q]
                        /\ call[q].key \in Keys \ {k}
      OBVIOUS
    <3>1. q # p /\ call'[q] = call[q] /\ Working(q)
      BY <1>1, <1>3 DEF Working
    <3> QED
      BY <2>1, <2>3, <3>1 DEF Working, KeyInv, HoldersOwnRows, RowOf
  <2> HIDE DEF k
  <2>5. HoldersOwnRows'
    BY <2>2, <2>4 DEF KeyInv, HoldersOwnRows, IsRow, RowOf
  <2>6. ReclaimsExpired'
    <3> SUFFICES ASSUME NEW q \in Calls, At(q, "RECLAIM")'
                 PROVE  (call[q].id <= lastId /\ (IsRow(q) => RowOf(q).expired))'
      BY DEF ReclaimsExpired
    <3>1. q # p /\ At(q, "RECLAIM") /\ call'[q] = call[q] /\ call[q].key \in Keys
      BY <1>1, <1>3, <2>3 DEF At
    <3> QED
      BY <1>1, <2>2, <3>1 DEF KeyInv, ReclaimsExpired, IsRow, RowOf
  <2>7. RowsAreNumbered' /\ ExpiredHaveLapsed'
    BY <1>1, <2>2 DEF KeyInv, RowsAreNumbered, ExpiredHaveLapsed
  <2>8. FinishedBarsTheKey'
    BY <1>1, <2>1, <2>2, <2>4 DEF KeyInv, FinishedBarsTheKey
  <2>9. ExclusiveKey'
    BY <2>4 DEF KeyInv, ExclusiveKey, Working
  <2> QED
    BY <1>2, <2>5, <2>6, <2>7, <2>8, <2>9 DEF KeyInv
<1> QED
  BY <1>4, <1>5

(* While it runs the handler a request keeps its row as it is.  Nobody     *)
(* else holds the key, and it had not finished before.                     *)
LEMMA HandlerKeepsInvariant ==
    ASSUME KeyInv, KeyTypeOK', NEW p \in Calls,
           Throw(p) \/ \E answer \in Answers : Finish(p, answer)
    PROVE  KeyInv'
<1> DEFINE k == call[p].key
<1>1. /\ call[p] # NoCall /\ call[p] \in Call /\ k \in Keys
      /\ call[p].stage = "RUN" /\ Working(p)
      /\ UNCHANGED <<keyRow, lastId, lapsed, replayed>>
  BY DEF Throw, Finish, At, KeyInv, KeyTypeOK, Call, Working, Holding
<1>2. /\ \A q \in Calls \ {p} : call'[q] = call[q]
      /\ call'[p].key = k /\ call'[p].id = call[p].id
      /\ \/ call'[p].stage = "RELEASE" /\ finished' = finished
         \/ /\ call'[p].stage = "REMEMBER"
            /\ finished' = [finished EXCEPT ![k] = @ + 1]
  <2>1. CASE Throw(p)
    BY <1>1, <2>1 DEF Throw, GoTo, KeyInv, KeyTypeOK, Call
  <2>2. ASSUME NEW answer \in Answers, Finish(p, answer)
        PROVE  /\ \A q \in Calls \ {p} : call'[q] = call[q]
               /\ call'[p].key = k /\ call'[p].id = call[p].id
               /\ call'[p].stage = "REMEMBER"
               /\ finished' = [finished EXCEPT ![k] = @ + 1]
    <3>1. call' = [call EXCEPT ![p] = [[call[p] EXCEPT !.stage = "REMEMBER"]
                                          EXCEPT !.answer = answer]]
      BY <2>2 DEF Finish
    <3>2. call'[p] = [[call[p] EXCEPT !.stage = "REMEMBER"] EXCEPT !.answer = answer]
      BY <3>1 DEF KeyInv, KeyTypeOK
    <3> QED
      BY <1>1, <2>2, <3>1, <3>2 DEF Finish, Call, KeyInv, KeyTypeOK
  <2> QED
    BY <2>1, <2>2
<1> HIDE DEF k
<1>3. \A q \in Calls \ {p} : (Working(q)' <=> Working(q))
                             /\ (At(q, "RECLAIM")' <=> At(q, "RECLAIM"))
  BY <1>2 DEF Working, At
<1>4. HoldersOwnRows'
  <2> SUFFICES ASSUME NEW q \in Calls, Working(q)'
               PROVE  (IsRow(q) /\ ~RowOf(q).expired /\ RowOf(q).answer = NoAnswer)'
    BY DEF HoldersOwnRows
  <2>1. Working(q) /\ call'[q].key = call[q].key /\ call'[q].id = call[q].id
    BY <1>1, <1>2, <1>3 DEF k
  <2> QED
    BY <1>1, <2>1 DEF KeyInv, HoldersOwnRows, IsRow, RowOf
<1>5. ReclaimsExpired'
  <2> SUFFICES ASSUME NEW q \in Calls, At(q, "RECLAIM")'
               PROVE  (call[q].id <= lastId /\ (IsRow(q) => RowOf(q).expired))'
    BY DEF ReclaimsExpired
  <2>1. q # p /\ At(q, "RECLAIM") /\ call'[q] = call[q]
    BY <1>2, <1>3 DEF At
  <2> QED
    BY <1>1, <2>1 DEF KeyInv, ReclaimsExpired, IsRow, RowOf
<1>6. RowsAreNumbered' /\ ExpiredHaveLapsed' /\ ReplaysItsAnswer'
  BY <1>1 DEF KeyInv, RowsAreNumbered, ExpiredHaveLapsed, ReplaysItsAnswer
<1>7. ExclusiveKey'
  BY <1>1, <1>2, <1>3 DEF KeyInv, ExclusiveKey, Working, k
<1>8. FinishedBarsTheKey'
  <2> SUFFICES ASSUME NEW j \in Keys \ lapsed, finished'[j] # 0
               PROVE  /\ finished'[j] = 1
                      /\ keyRow[j] # NoRow
                      /\ \A q \in Calls : Working(q)' /\ call'[q].key = j
                             => call'[q].stage = "REMEMBER"
    BY <1>1 DEF FinishedBarsTheKey, Working
  <2>1. CASE j = k
    <3>1. finished[k] = 0
      BY <1>1, <2>1 DEF KeyInv, FinishedBarsTheKey, k
    <3>2. call'[p].stage = "REMEMBER" /\ finished' = [finished EXCEPT ![k] = @ + 1]
      BY <1>2, <2>1, <3>1
    <3>3. finished'[j] = 1
      BY <2>1, <3>1, <3>2 DEF KeyInv, KeyTypeOK
    <3>4. keyRow[j] # NoRow
      BY <1>1, <2>1 DEF KeyInv, HoldersOwnRows, IsRow, RowOf, k
    <3>5. \A q \in Calls \ {p} : Working(q)' => call'[q].key # k
      BY <1>1, <1>2, <1>3 DEF KeyInv, ExclusiveKey, Working, k
    <3> QED
      BY <2>1, <3>2, <3>3, <3>4, <3>5
  <2>2. CASE j # k
    <3>1. finished'[j] = finished[j]
      BY <1>2, <2>2 DEF KeyInv, KeyTypeOK
    <3>2. /\ finished[j] = 1 /\ keyRow[j] # NoRow
          /\ \A q \in Calls : Working(q) /\ call[q].key = j => call[q].stage = "REMEMBER"
      BY <3>1 DEF KeyInv, FinishedBarsTheKey
    <3> QED
      BY <1>2, <1>3, <2>2, <3>1, <3>2
  <2> QED
    BY <2>1, <2>2
<1> QED
  BY <1>4, <1>5, <1>6, <1>7, <1>8 DEF KeyInv

(* remember() and release() find their row, and nobody else's: the answer  *)
(* stays as long as the row does, and a row is freed only while its        *)
(* handler has not finished.                                               *)
LEMMA ReportKeepsInvariant ==
    ASSUME KeyInv, KeyTypeOK', NEW p \in Calls, Remember(p) \/ Release(p)
    PROVE  KeyInv'
<1> DEFINE k == call[p].key
<1>1. /\ call[p] # NoCall /\ call[p] \in Call /\ k \in Keys /\ Working(p)
      /\ UNCHANGED <<lastId, lapsed, finished, replayed>>
      /\ call'[p] = NoCall
      /\ \A q \in Calls \ {p} : call'[q] = call[q]
  BY DEF Remember, Release, ToBeReleased, At, End, KeyInv, KeyTypeOK, Call, Working, Holding
<1>2. keyRow[k] # NoRow /\ keyRow[k] \in KeyRow /\ ~keyRow[k].expired /\ IsRow(p)
  BY <1>1 DEF KeyInv, KeyTypeOK, HoldersOwnRows, IsRow, RowOf
<1>3. \A j \in Keys \ {k} : keyRow'[j] = keyRow[j]
  BY <1>1 DEF Remember, Release, KeyInv, KeyTypeOK
<1>4. \/ call[p].stage = "RELEASE" /\ keyRow'[k] = NoRow
      \/ /\ call[p].stage = "REMEMBER"
         /\ keyRow'[k] = [keyRow[k] EXCEPT !.answer = call[p].answer]
  BY <1>1, <1>2 DEF Remember, Release, ToBeReleased, At, KeyInv, KeyTypeOK
<1>5. keyRow'[k] # NoRow =>
          keyRow'[k].id = keyRow[k].id /\ keyRow'[k].expired = keyRow[k].expired
  BY <1>2, <1>4 DEF KeyRow
<1>6. \A q \in Calls : call[q] # NoCall => call[q].key \in Keys
  BY DEF KeyInv, KeyTypeOK, Call
<1>7. \A q \in Calls : Working(q)' => /\ Working(q) /\ q # p /\ call'[q] = call[q]
                                      /\ call[q].key \in Keys \ {k}
  <2> SUFFICES ASSUME NEW q \in Calls, Working(q)'
               PROVE  /\ Working(q) /\ q # p /\ call'[q] = call[q]
                      /\ call[q].key \in Keys \ {k}
    OBVIOUS
  <2>1. q # p /\ call'[q] = call[q] /\ Working(q)
    BY <1>1 DEF Working
  <2> QED
    BY <1>1, <1>6, <2>1 DEF KeyInv, ExclusiveKey, Working
<1>8. keyRow'[k] = NoRow => k \in lapsed \/ finished[k] = 0
  <2>1. CASE call[p].stage = "RELEASE"
    BY <1>1, <2>1 DEF KeyInv, FinishedBarsTheKey
  <2>2. CASE call[p].stage = "REMEMBER"
    <3>1. keyRow'[k] \in KeyRow
      BY <1>1, <1>2, <1>4, <2>2 DEF KeyRow, Call
    <3> QED
      BY <3>1, KeyRowsAssumption
  <2> QED
    BY <1>4, <2>1, <2>2
<1> HIDE DEF k
<1>9. HoldersOwnRows'
  BY <1>3, <1>7 DEF KeyInv, HoldersOwnRows, IsRow, RowOf
<1>10. ReclaimsExpired'
  <2> SUFFICES ASSUME NEW q \in Calls, At(q, "RECLAIM")'
               PROVE  (call[q].id <= lastId /\ (IsRow(q) => RowOf(q).expired))'
    BY DEF ReclaimsExpired
  <2>1. q # p /\ At(q, "RECLAIM") /\ call'[q] = call[q] /\ call[q].key \in Keys
    BY <1>1, <1>6 DEF At
  <2>2. CASE call[q].key = k
    BY <1>1, <1>2, <1>5, <2>1, <2>2 DEF KeyInv, ReclaimsExpired, IsRow, RowOf
  <2>3. CASE call[q].key # k
    BY <1>1, <1>3, <2>1, <2>3 DEF KeyInv, ReclaimsExpired, IsRow, RowOf
  <2> QED
    BY <2>2, <2>3
<1>11. RowsAreNumbered' /\ ExpiredHaveLapsed'
  BY <1>1, <1>2, <1>3, <1>5 DEF KeyInv, RowsAreNumbered, ExpiredHaveLapsed
<1>12. FinishedBarsTheKey'
  <2> SUFFICES ASSUME NEW j \in Keys \ lapsed, finished[j] # 0
               PROVE  /\ finished[j] = 1
                      /\ keyRow'[j] # NoRow
                      /\ \A q \in Calls : Working(q)' /\ call'[q].key = j
                             => call'[q].stage = "REMEMBER"
    BY <1>1 DEF FinishedBarsTheKey, Working
  <2>1. /\ finished[j] = 1 /\ keyRow[j] # NoRow
        /\ \A q \in Calls : Working(q) /\ call[q].key = j => call[q].stage = "REMEMBER"
    BY DEF KeyInv, FinishedBarsTheKey
  <2> QED
    BY <1>3, <1>7, <1>8, <2>1
<1>13. ExclusiveKey'
  BY <1>7 DEF KeyInv, ExclusiveKey, Working
<1>14. ReplaysItsAnswer'
  BY <1>1 DEF KeyInv, ReplaysItsAnswer
<1> QED
  BY <1>9, <1>10, <1>11, <1>12, <1>13, <1>14 DEF KeyInv

(* A row expires only when nobody holds its key, and then it is fair game. *)
LEMMA TimeKeepsInvariant ==
    ASSUME KeyInv, KeyTypeOK', NEW k \in Keys, Expire(k) \/ Purge(k)
    PROVE  KeyInv'
<1>1. /\ UNCHANGED <<lastId, call, finished, replayed>>
      /\ keyRow[k] # NoRow /\ keyRow[k] \in KeyRow
      /\ \A j \in Keys \ {k} : keyRow'[j] = keyRow[j]
      /\ k \in lapsed' /\ lapsed \subseteq lapsed'
      /\ keyRow'[k] = NoRow \/ keyRow'[k] = [keyRow[k] EXCEPT !.expired = TRUE]
  BY DEF Expire, Purge, KeyInv, KeyTypeOK, ExpiredHaveLapsed
<1>2. keyRow'[k] # NoRow => keyRow'[k].id = keyRow[k].id /\ keyRow'[k].expired
  BY <1>1 DEF KeyRow
<1>3. \A q \in Calls : Working(q) => call[q].key \in Keys \ {k}
  <2> SUFFICES ASSUME NEW q \in Calls, Working(q) PROVE call[q].key \in Keys \ {k}
    OBVIOUS
  <2>1. call[q].key \in Keys
    BY DEF Working, KeyInv, KeyTypeOK, Call
  <2>2. CASE Expire(k)
    BY <2>1, <2>2 DEF Expire, Held, Working
  <2>3. CASE Purge(k)
    BY <2>1, <2>3 DEF Purge, KeyInv, HoldersOwnRows, RowOf
  <2> QED
    BY <2>2, <2>3
<1>4. \A q \in Calls : At(q, "RECLAIM") => call[q].key \in Keys
  BY DEF At, KeyInv, KeyTypeOK, Call
<1>5. HoldersOwnRows'
  BY <1>1, <1>3 DEF KeyInv, HoldersOwnRows, IsRow, RowOf, Working
<1>6. ReclaimsExpired'
  <2> SUFFICES ASSUME NEW q \in Calls, At(q, "RECLAIM")
               PROVE  call[q].id <= lastId /\ (IsRow(q)' => RowOf(q)'.expired)
    BY <1>1 DEF ReclaimsExpired, At
  <2> QED
    BY <1>1, <1>2, <1>4 DEF KeyInv, ReclaimsExpired, IsRow, RowOf
<1>7. RowsAreNumbered'
  BY <1>1, <1>2 DEF KeyInv, RowsAreNumbered
<1>8. ExpiredHaveLapsed'
  BY <1>1 DEF KeyInv, ExpiredHaveLapsed
<1>9. FinishedBarsTheKey'
  BY <1>1 DEF KeyInv, FinishedBarsTheKey, Working
<1>10. ExclusiveKey' /\ ReplaysItsAnswer'
  BY <1>1 DEF KeyInv, ExclusiveKey, ReplaysItsAnswer
<1> QED
  BY <1>5, <1>6, <1>7, <1>8, <1>9, <1>10 DEF KeyInv

-----------------------------------------------------------------------------
LEMMA KeyInvInductive == KeyInv /\ [KeyNext]_keyVars => KeyInv'
<1> SUFFICES ASSUME KeyInv, [KeyNext]_keyVars PROVE KeyInv'
  OBVIOUS
<1>1. KeyTypeOK'
  BY KeyTypes DEF KeyInv
<1>2. CASE UNCHANGED keyVars
  BY <1>1, <1>2 DEF keyVars, KeyInv, HoldersOwnRows, ReclaimsExpired, RowsAreNumbered,
     ExpiredHaveLapsed, FinishedBarsTheKey, ExclusiveKey, ReplaysItsAnswer, Working,
     At, IsRow, RowOf
<1>3. CASE KeyNext
  BY <1>1, <1>3, InsertKeepsInvariant, WaitingKeepsInvariant, ReclaimKeepsInvariant,
     HandlerKeepsInvariant, ReportKeepsInvariant, TimeKeepsInvariant
  DEF KeyNext, Intercept
<1> QED
  BY <1>2, <1>3

LEMMA KeyInvHolds == KeySpec => []KeyInv
<1>1. KeyInit => KeyInv
  BY IdempotencyAssumption
  DEF KeyInit, KeyInv, KeyTypeOK, HoldersOwnRows, ReclaimsExpired, RowsAreNumbered,
      ExpiredHaveLapsed, FinishedBarsTheKey, ExclusiveKey, ReplaysItsAnswer, Working, At
<1> QED
  BY <1>1, KeyInvInductive, PTL DEF KeySpec

(* The rows and requests of the interceptor keep their types.              *)
THEOREM KeyTypeCorrect == KeySpec => []KeyTypeOK
<1>1. KeyInv => KeyTypeOK
  BY DEF KeyInv
<1> QED
  BY <1>1, KeyInvHolds, PTL

(* However many requests carry one key, and whatever of them dies at which *)
(* step, no two run the handler together, it finishes at most once within  *)
(* the life of the key's row, and what is replayed was answered to the     *)
(* same body.                                                              *)
THEOREM KeysAnswerOnce == KeySpec => []OneAnswerPerKey
<1>1. KeyInv => OneAnswerPerKey
  BY DEF KeyInv, KeyTypeOK, OneAnswerPerKey, FinishesOnce, FinishedBarsTheKey
<1> QED
  BY <1>1, KeyInvHolds, PTL

(***************************************************************************)
(* The conversion of quotations                                            *)
(***************************************************************************)
(* What a handler answers with is an order that was created.               *)
WorkTyped ==
    /\ orders \in Seq(Order)
    /\ Len(orders) <= MaxOrders
    /\ work \in [Calls -> Work \cup {NoWork}]

LEMMA WorkStaysTyped == WorkTyped /\ KeyTypeOK /\ [Next]_vars => WorkTyped'
<1> SUFFICES ASSUME WorkTyped, KeyTypeOK, [Next]_vars PROVE WorkTyped'
  OBVIOUS
<1> USE DEF WorkTyped
<1>1. CASE UNCHANGED <<orders, work>>
  BY <1>1
<1>2. ASSUME NEW p \in Calls, NEW rev \in Revisions, LoadAccepted(p, rev)
      PROVE  WorkTyped'
  <2>1. [revision |-> rev, order |-> 0] \in Work
    BY ConversionAssumption DEF Work
  <2> QED
    BY <1>2, <2>1 DEF LoadAccepted
<1>3. ASSUME NEW p \in Calls, CreateOrder(p) PROVE WorkTyped'
  <2> DEFINE o == [revision |-> work[p].revision, key |-> call[p].key]
  <2>1. work[p] \in Work /\ call[p].key \in Keys
    BY <1>3 DEF CreateOrder, At, KeyTypeOK, Call
  <2>2. o \in Order
    BY <2>1 DEF Order, Work
  <2>3. Len(orders) + 1 \in 0..MaxOrders
    BY <1>3, ConversionAssumption DEF CreateOrder
  <2>4. orders' = Append(orders, o)
    BY <1>3 DEF CreateOrder
  <2> HIDE DEF o
  <2>5. orders' \in Seq(Order) /\ Len(orders') <= MaxOrders
    BY <2>2, <2>3, <2>4
  <2>6. [work[p] EXCEPT !.order = Len(orders) + 1] \in Work
    BY <2>1, <2>3 DEF Work
  <2> QED
    BY <1>3, <2>5, <2>6 DEF CreateOrder
<1>4. ASSUME NEW p \in Calls, MarkConverted(p) \/ HandlerThrows(p) \/ ProcessDies(p)
      PROVE  WorkTyped'
  BY <1>4 DEF MarkConverted, HandlerThrows, ProcessDies, Abandoned
<1> QED
  BY <1>1, <1>2, <1>3, <1>4 DEF Next, QuotationStep, InterceptorStep, HandlerStep, vars

(* Every step of the endpoint is the interceptor's, or none of its business. *)
LEMMA StepImplements == WorkTyped /\ [Next]_vars => [KeyNext]_keyVars
<1> SUFFICES ASSUME WorkTyped, [Next]_vars PROVE [KeyNext]_keyVars
  OBVIOUS
<1>1. CASE UNCHANGED keyVars
  BY <1>1
<1>2. CASE InterceptorStep
  BY <1>2 DEF InterceptorStep, KeyNext
<1>3. ASSUME NEW p \in Calls, MarkConverted(p) PROVE [KeyNext]_keyVars
  <2>1. work[p].order \in Answers
    BY <1>3, ConversionAssumption DEF MarkConverted, WorkTyped, Work
  <2> QED
    BY <1>3, <2>1 DEF MarkConverted, KeyNext
<1>4. ASSUME NEW p \in Calls, HandlerThrows(p) \/ ProcessDies(p)
      PROVE  [KeyNext]_keyVars
  BY <1>4 DEF HandlerThrows, ProcessDies, KeyNext
<1> QED
  BY <1>1, <1>2, <1>3, <1>4
  DEF Next, QuotationStep, HandlerStep, LoadAccepted, CreateOrder, vars

LEMMA WorkTypedHolds == Spec => [](WorkTyped /\ KeyTypeOK)
<1>1. Init => WorkTyped /\ KeyTypeOK
  BY IdempotencyAssumption, ConversionAssumption
  DEF Init, KeyInit, WorkTyped, KeyTypeOK
<1>2. WorkTyped /\ KeyTypeOK /\ [Next]_vars => (WorkTyped /\ KeyTypeOK)'
  BY WorkStaysTyped, StepImplements, KeyTypes
<1> QED
  BY <1>1, <1>2, PTL DEF Spec

(* The conversion endpoint behaves as an interceptor around a handler,     *)
(* whatever its two transactions, their failures and the quotation's other *)
(* users do.                                                               *)
THEOREM ConversionImplementsInterceptor == Spec => ImplementsInterceptor
<1>1. Init => Interceptor!KeyInit
  BY DEF Init, KeyInit, Interceptor!KeyInit
<1>2. [KeyNext]_keyVars => [Interceptor!KeyNext]_(Interceptor!keyVars)
  BY DEF
      KeyNext, keyVars, Intercept, Arrive, Insert, InsertRefused, LookUpGone,
      LookUpExpired, LookUp, Reclaim, Finish, Throw, Remember, Release,
      ToBeReleased, Lose, Expire, Purge, Held, Holding, MayInsert, NewRow,
      Replayable, At, GoTo, End, RowOf, IsRow, Interceptor!KeyNext,
      Interceptor!keyVars, Interceptor!Intercept, Interceptor!Arrive,
      Interceptor!Insert, Interceptor!InsertRefused, Interceptor!LookUpGone,
      Interceptor!LookUpExpired, Interceptor!LookUp, Interceptor!Reclaim,
      Interceptor!Finish, Interceptor!Throw, Interceptor!Remember,
      Interceptor!Release, Interceptor!ToBeReleased, Interceptor!Lose,
      Interceptor!Expire, Interceptor!Purge, Interceptor!Held,
      Interceptor!Holding, Interceptor!MayInsert, Interceptor!NewRow,
      Interceptor!Replayable, Interceptor!At, Interceptor!GoTo,
      Interceptor!End, Interceptor!RowOf, Interceptor!IsRow
<1> QED
  BY <1>1, <1>2, WorkTypedHolds, StepImplements, PTL
  DEF Spec, ImplementsInterceptor, Interceptor!KeySpec

(* One key never has its conversion run twice at once, or finish twice     *)
(* within the life of its row, and is answered only with its own answer.   *)
THEOREM ConversionsAnswerOnce == Spec => []OneAnswerPerKey
<1>1. Init => KeyInit
  BY DEF Init
<1>2. KeyInv => OneAnswerPerKey
  BY DEF KeyInv, KeyTypeOK, OneAnswerPerKey, FinishesOnce, FinishedBarsTheKey
<1>3. KeyInit => KeyInv
  BY IdempotencyAssumption
  DEF KeyInit, KeyInv, KeyTypeOK, HoldersOwnRows, ReclaimsExpired, RowsAreNumbered,
      ExpiredHaveLapsed, FinishedBarsTheKey, ExclusiveKey, ReplaysItsAnswer, Working, At
<1> QED
  BY <1>1, <1>2, <1>3, WorkTypedHolds, StepImplements, KeyInvInductive, PTL DEF Spec

(***************************************************************************)
(* Then the quotation and what becomes of it, for any number of requests,  *)
(* keys and revisions.  QuoteInv adds to QuotationHolds why it holds while *)
(* requests do not overlap: whoever works on a revision works on it alone, *)
(* so the status that was checked is the status still; every revision but  *)
(* the last is rejected, so the order that exists names the one revision   *)
(* alive, which is converted or in the hands of the order's creator.       *)
(***************************************************************************)

(* Whoever works on a revision works on it alone.                          *)
WorkAlone ==
    /\ \A u, v \in Users : u # v /\ ~Waiting(u) /\ ~Waiting(v)
           => request[u].revision # request[v].revision
    /\ \A u \in Users, p \in Calls : ~Waiting(u) /\ work[p] # NoWork
           => request[u].revision # work[p].revision
    /\ \A p, q \in Calls : p # q /\ work[p] # NoWork /\ work[q] # NoWork
           => work[p].revision # work[q].revision

(* The status that was checked is the status still.                        *)
ChecksHold ==
    /\ \A u \in Users : ~Waiting(u) => Checked(request[u].kind, request[u].revision)
    /\ \A p \in Calls : work[p] # NoWork => quotation[work[p].revision].status = "ACCEPTED"

(* What a revision supersedes has been rejected.                           *)
OnlyTheLatestLives ==
    \A rev, later \in Revisions :
        rev < later /\ quotation[later].status # "NONE" => quotation[rev].status = "REJECTED"

(* An order's quotation is converted, or will be by who created the order. *)
OrdersAreAccountedFor ==
    /\ Len(orders) <= 1
    /\ \A i \in 1..Len(orders) :
           \/ quotation[orders[i].revision].status = "CONVERTED"
           \/ \E p \in Calls : /\ work[p] # NoWork /\ work[p].order # 0
                               /\ work[p].revision = orders[i].revision

QuoteInv ==
    /\ QuoteTypeOK /\ halfway \in BOOLEAN
    /\ ~raced => WorkAlone /\ ChecksHold /\ OnlyTheLatestLives /\ CustomerHoldsTheRow
    /\ ~raced /\ ~halfway => OrdersAreAccountedFor

(* The statuses each operation starts from.                                *)
LEMMA FromEach ==
    /\ From("UPDATE") = {"DRAFT"} /\ From("SEND") = {"DRAFT", "SENT"} /\ From("ACCEPT") = {"SENT"}
    /\ From("REJECT") = {"DRAFT", "SENT", "ACCEPTED"}
    /\ From("REVISE") = {"DRAFT", "SENT", "ACCEPTED", "REJECTED"}
  BY DEF From

(* What an operation was let through on is a revision that exists and is   *)
(* not converted.                                                          *)
LEMMA NoWorkOnNothing ==
    ASSUME NEW kind \in Operations, NEW rev, Checked(kind, rev)
    PROVE  quotation[rev].status \in {"DRAFT", "SENT", "ACCEPTED", "REJECTED"}
  BY FromEach DEF Checked, Operations

(* Every order is of a revision.                                           *)
LEMMA OrdersNameRevisions ==
    ASSUME WorkTyped
    PROVE  \A i \in 1..Len(orders) : orders[i].revision \in Revisions
<1>1. orders \in Seq(Order)
  BY DEF WorkTyped
<1>2. \A i \in 1..Len(orders) : orders[i] \in Order
  BY <1>1
<1> QED
  BY <1>2 DEF Order

(* The fields of a revision's row, and what may be written into them.      *)
LEMMA QuotationTakes ==
    ASSUME NEW row \in Quotation
    PROVE  /\ row.status \in QuotationStatuses /\ row.sent \in Nat /\ row.lines \in Nat
           /\ row.lines \in 0..(MaxEdits + 1)
           /\ \A n \in 0..(MaxEdits + 1), s \in QuotationStatuses :
                  [[row EXCEPT !.status = s] EXCEPT !.sent = n] \in Quotation
<1>1. /\ row.status \in QuotationStatuses /\ row.sent \in 0..(MaxEdits + 1)
      /\ row.lines \in 1..(MaxEdits + 1)
  BY DEF Quotation
<1>2. row.sent \in Nat /\ row.lines \in Nat /\ row.lines \in 0..(MaxEdits + 1)
  BY <1>1, QuotationsAssumption
<1>3. ASSUME NEW n \in 0..(MaxEdits + 1), NEW s \in QuotationStatuses
      PROVE  [[row EXCEPT !.status = s] EXCEPT !.sent = n] \in Quotation
  BY DEF Quotation
<1> QED
  BY <1>1, <1>2, <1>3

(* When every revision but the last is rejected, at most one is alive.     *)
LEMMA AtMostOneIsLive ==
    ASSUME QuoteTypeOK, OnlyTheLatestLives
    PROVE  OneLiveRevision
<1> DEFINE L == {rev \in Revisions : quotation[rev].status \in Live}
<1>1. ASSUME NEW r \in L, NEW s \in L PROVE r = s
  <2>1. /\ r \in Revisions /\ s \in Revisions /\ r \in Int /\ s \in Int
        /\ quotation[r].status \in Live /\ quotation[s].status \in Live
    BY <1>1, QuotationsAssumption DEF Revisions
  <2>2. ~(r < s) /\ ~(s < r)
    BY <2>1 DEF OnlyTheLatestLives, Live
  <2> QED
    BY <2>1, <2>2
<1>2. Cardinality(L) <= 1
  <2>1. CASE L = {}
    BY <2>1, FS_EmptySet
  <2>2. CASE L # {}
    <3>1. PICK r \in L : TRUE
      BY <2>2
    <3>2. L = {r}
      BY <1>1, <3>1
    <3> HIDE DEF L
    <3> QED
      BY <3>2, FS_Singleton
  <2> QED
    BY <2>1, <2>2
<1> QED
  BY <1>2 DEF OneLiveRevision

(* Loading a quotation: whoever finds it in other hands has raced.         *)
LEMMA LoadingStands ==
    ASSUME QuoteInv, WorkTyped, NEW u \in Users, NEW kind \in Operations, NEW rev \in Revisions,
           LoadQuotation(u, kind, rev), Touch(rev), UNCHANGED <<orders, work, halfway>>
    PROVE  QuoteInv'
<1>1. /\ Waiting(u) /\ Checked(kind, rev) /\ quotation' = quotation
      /\ request'[u] = [kind |-> kind, revision |-> rev]
      /\ \A v \in Users \ {u} : request'[v] = request[v]
      /\ raced' = (raced \/ InFlight(rev) \/ Converting(rev))
  BY DEF LoadQuotation, Touch, QuoteInv, QuoteTypeOK
<1>2. QuoteTypeOK' /\ halfway' \in BOOLEAN
  BY <1>1 DEF QuoteInv, QuoteTypeOK, LoadQuotation, Request
<1>3. ASSUME ~raced' PROVE WorkAlone' /\ ChecksHold' /\ OnlyTheLatestLives' /\ CustomerHoldsTheRow'
  <2>1. ~raced /\ ~InFlight(rev) /\ ~Converting(rev)
    BY <1>1, <1>3
  <2>2. WorkAlone /\ ChecksHold /\ OnlyTheLatestLives /\ CustomerHoldsTheRow
    BY <2>1 DEF QuoteInv
  <2>3. WorkAlone'
    BY <1>1, <2>1, <2>2 DEF WorkAlone, Waiting, InFlight, Converting
  <2>4. ChecksHold'
    BY <1>1, <2>2 DEF ChecksHold, Waiting, Checked
  <2> QED
    BY <1>1, <2>2, <2>3, <2>4 DEF OnlyTheLatestLives, CustomerHoldsTheRow
<1>4. ~raced' /\ ~halfway' => OrdersAreAccountedFor'
  BY <1>1 DEF QuoteInv, OrdersAreAccountedFor
<1> QED
  BY <1>2, <1>3, <1>4 DEF QuoteInv

(* A commit, by whoever works on a revision alone, of a new row for it.    *)
LEMMA RowStands ==
    ASSUME QuoteInv, QuoteTypeOK', WorkTyped, NEW u \in Users, ~Waiting(u), Waiting(u)',
           \A v \in Users \ {u} : request'[v] = request[v],
           UNCHANGED <<raced, orders, work, halfway>>, ~raced,
           NEW rev, rev = request[u].revision,
           NEW next, next # rev,
           \A r \in Revisions \ {rev, next} : quotation'[r] = quotation[r],
           next \in Revisions => \/ quotation'[next] = quotation[next]
                                 \/ quotation[next].status = "NONE",
           OnlyTheLatestLives', CustomerHoldsTheRow'
    PROVE  QuoteInv'
<1>1. WorkAlone /\ ChecksHold
  BY DEF QuoteInv
<1>2. rev \in Revisions /\ request[u].kind \in Operations
  BY DEF QuoteInv, QuoteTypeOK, Waiting, Request
<1>3. WorkAlone'
  BY <1>1 DEF WorkAlone, Waiting
<1>4. ASSUME NEW r \in Revisions, r # rev, quotation[r].status # "NONE" PROVE quotation'[r] = quotation[r]
  BY <1>4
<1>5. ChecksHold'
  <2>1. ASSUME NEW v \in Users, ~Waiting(v)' PROVE Checked(request[v].kind, request[v].revision)'
    <3>1. v # u /\ ~Waiting(v) /\ request'[v] = request[v]
      BY <2>1 DEF Waiting
    <3>2. request[v].revision \in Revisions /\ request[v].kind \in Operations /\ request[v].revision # rev
      BY <1>1, <3>1 DEF QuoteInv, QuoteTypeOK, Waiting, Request, WorkAlone
    <3>3. Checked(request[v].kind, request[v].revision)
      BY <1>1, <3>1 DEF ChecksHold
    <3>4. quotation[request[v].revision].status # "NONE"
      BY <3>2, <3>3, NoWorkOnNothing
    <3> QED
      BY <1>4, <3>1, <3>2, <3>3, <3>4 DEF Checked
  <2>2. ASSUME NEW p \in Calls, work[p] # NoWork PROVE quotation'[work[p].revision].status = "ACCEPTED"
    <3>1. quotation[work[p].revision].status = "ACCEPTED" /\ work[p].revision # rev
      BY <1>1, <2>2 DEF ChecksHold, WorkAlone
    <3>2. work[p].revision \in Revisions
      BY <2>2 DEF WorkTyped, Work
    <3>3. quotation'[work[p].revision] = quotation[work[p].revision]
      BY <1>4, <3>1, <3>2
    <3> QED
      BY <3>1, <3>3
  <2> QED
    BY <2>1, <2>2 DEF ChecksHold
<1>6. ASSUME ~halfway PROVE OrdersAreAccountedFor'
  <2>1. OrdersAreAccountedFor
    BY <1>6 DEF QuoteInv
  <2>2. ASSUME NEW r \in Revisions, quotation[r].status = "CONVERTED" PROVE quotation'[r].status = "CONVERTED"
    <3>1. Checked(request[u].kind, rev)
      BY <1>1 DEF ChecksHold
    <3>2. r # rev
      BY <1>2, <2>2, <3>1, NoWorkOnNothing
    <3> QED
      BY <1>4, <2>2, <3>2
  <2>3. \A i \in 1..Len(orders) : orders[i].revision \in Revisions
    BY OrdersNameRevisions
  <2> QED
    BY <2>1, <2>2, <2>3 DEF OrdersAreAccountedFor
<1> QED
  BY <1>3, <1>5, <1>6 DEF QuoteInv

(* The commits of the five operations, and a commit that fails.            *)
LEMMA CommitsStand ==
    ASSUME QuoteInv, WorkTyped, NEW u \in Users, QuoteCommit(u), UNCHANGED <<orders, work, halfway>>
    PROVE  QuoteInv'
<1>1. PICK req : req = request[u]
  OBVIOUS
<1> DEFINE rev == req.revision
<1>2. /\ ~Waiting(u) /\ req \in Request
      /\ request'[u] = NoRequest /\ Waiting(u)'
      /\ \A v \in Users \ {u} : request'[v] = request[v]
      /\ request' \in [Users -> Request \cup {NoRequest}] /\ raced' = raced
  BY <1>1 DEF QuoteCommit, CommitEdit, CommitSend, CommitTransition, CommitRevise, RollBack,
     Committing, Waiting, QuoteInv, QuoteTypeOK
<1>3. rev \in Revisions /\ req.kind \in Operations /\ rev \in Int /\ quotation[rev] \in Quotation
  BY <1>2, QuotationsAssumption DEF Request, Revisions, QuoteInv, QuoteTypeOK
<1>4. ~raced => /\ quotation[rev].status \in From(req.kind)
                /\ WorkAlone /\ OnlyTheLatestLives /\ CustomerHoldsTheRow
  BY <1>1, <1>2 DEF QuoteInv, ChecksHold, Checked
<1>t. quotation \in [Revisions -> Quotation]
  BY DEF QuoteInv, QuoteTypeOK
<1>5. ASSUME quotation' \in [Revisions -> Quotation]
      PROVE  QuoteTypeOK' /\ halfway' \in BOOLEAN
  BY <1>2, <1>5 DEF QuoteInv, QuoteTypeOK
<1>6. CASE CommitEdit(u)
  <2>1. quotation' = [quotation EXCEPT ![rev].lines = quotation[rev].lines + 1] /\ req.kind = "UPDATE"
        /\ quotation[rev].lines <= MaxEdits
    BY <1>1, <1>6 DEF CommitEdit, Committing
  <2>2. /\ [quotation[rev] EXCEPT !.lines = quotation[rev].lines + 1] \in Quotation
        /\ [quotation[rev] EXCEPT !.lines = quotation[rev].lines + 1].status = quotation[rev].status
    BY <1>3, <2>1, QuotationsAssumption DEF Quotation
  <2>3. /\ quotation' \in [Revisions -> Quotation]
        /\ quotation'[rev].status = quotation[rev].status
        /\ \A r \in Revisions \ {rev} : quotation'[r] = quotation[r]
    BY <1>3, <1>t, <2>1, <2>2
  <2>4. ~raced => OnlyTheLatestLives' /\ CustomerHoldsTheRow'
    BY <1>4, <2>1, <2>3, FromEach DEF OnlyTheLatestLives, CustomerHoldsTheRow
  <2>5. MaxRevisions + 1 # rev
    BY <1>3, QuotationsAssumption DEF Revisions
  <2>6. QuoteTypeOK' /\ halfway' \in BOOLEAN
    BY <1>5, <2>3
  <2>7. ~raced => QuoteInv'
    BY <1>1, <1>2, <2>3, <2>4, <2>5, <2>6, RowStands
  <2> QED
    BY <1>2, <2>6, <2>7 DEF QuoteInv
<1>7. CASE CommitSend(u)
  <2>1. /\ quotation' = [quotation EXCEPT ![rev] =
               [[quotation[rev] EXCEPT !.status = "SENT"] EXCEPT !.sent = quotation[rev].lines]]
        /\ req.kind = "SEND"
    BY <1>1, <1>7 DEF CommitSend, Committing
  <2> DEFINE row == [[quotation[rev] EXCEPT !.status = "SENT"] EXCEPT !.sent = quotation[rev].lines]
  <2>2. row \in Quotation /\ row.status = "SENT" /\ row.sent = row.lines
    <3>1. row \in Quotation
      <4>1. quotation[rev].lines \in 0..(MaxEdits + 1) /\ "SENT" \in QuotationStatuses
        BY <1>3, QuotationTakes DEF QuotationStatuses
      <4> QED
        BY <1>3, <4>1, QuotationTakes
    <3>2. row.status = "SENT" /\ row.sent = row.lines
      BY <1>3 DEF Quotation
    <3> QED
      BY <3>1, <3>2
  <2> HIDE DEF row
  <2>3. /\ quotation' \in [Revisions -> Quotation]
        /\ quotation'[rev] = row
        /\ \A r \in Revisions \ {rev} : quotation'[r] = quotation[r]
    BY <1>3, <1>t, <2>1, <2>2 DEF row
  <2>4. ~raced => OnlyTheLatestLives' /\ CustomerHoldsTheRow'
    <3>1. ~raced => quotation[rev].status \in {"DRAFT", "SENT"}
      BY <1>4, <2>1, FromEach
    <3> QED
      BY <1>3, <1>4, <2>2, <2>3, <3>1 DEF OnlyTheLatestLives, CustomerHoldsTheRow
  <2>5. MaxRevisions + 1 # rev
    BY <1>3, QuotationsAssumption DEF Revisions
  <2>6. QuoteTypeOK' /\ halfway' \in BOOLEAN
    BY <1>5, <2>3
  <2>7. ~raced => QuoteInv'
    BY <1>1, <1>2, <2>3, <2>4, <2>5, <2>6, RowStands
  <2> QED
    BY <1>2, <2>6, <2>7 DEF QuoteInv
<1>8. ASSUME NEW status \in {"ACCEPTED", "REJECTED"},
             \/ status = "ACCEPTED" /\ CommitTransition(u, "ACCEPT", status)
             \/ status = "REJECTED" /\ CommitTransition(u, "REJECT", status)
      PROVE  QuoteInv'
  <2>1. /\ quotation' = [quotation EXCEPT ![rev].status = status]
        /\ req.kind = IF status = "ACCEPTED" THEN "ACCEPT" ELSE "REJECT"
    BY <1>1, <1>8 DEF CommitTransition, Committing
  <2> DEFINE row == [quotation[rev] EXCEPT !.status = status]
  <2>2. /\ row \in Quotation /\ row.status = status
        /\ row.sent = quotation[rev].sent /\ row.lines = quotation[rev].lines
    BY <1>3, <1>8 DEF Quotation, QuotationStatuses
  <2> HIDE DEF row
  <2>3. /\ quotation' \in [Revisions -> Quotation]
        /\ quotation'[rev] = row
        /\ \A r \in Revisions \ {rev} : quotation'[r] = quotation[r]
    BY <1>3, <1>t, <2>1, <2>2 DEF row
  <2>4. ~raced => OnlyTheLatestLives' /\ CustomerHoldsTheRow'
    <3>1. ~raced => /\ quotation[rev].status \in {"DRAFT", "SENT", "ACCEPTED"}
                    /\ status = "ACCEPTED" => quotation[rev].status = "SENT"
      BY <1>4, <2>1, FromEach
    <3> QED
      BY <1>3, <1>4, <1>8, <2>2, <2>3, <3>1 DEF OnlyTheLatestLives, CustomerHoldsTheRow
  <2>5. MaxRevisions + 1 # rev
    BY <1>3, QuotationsAssumption DEF Revisions
  <2>6. QuoteTypeOK' /\ halfway' \in BOOLEAN
    BY <1>5, <2>3
  <2>7. ~raced => QuoteInv'
    BY <1>1, <1>2, <2>3, <2>4, <2>5, <2>6, RowStands
  <2> QED
    BY <1>2, <2>6, <2>7 DEF QuoteInv
<1>9. CASE CommitRevise(u)
  <2> DEFINE next == rev + 1
             new  == [quotation[next] EXCEPT !.status = "DRAFT"]
             old  == [quotation[rev] EXCEPT !.status = "REJECTED"]
  <2>1. /\ next \in Revisions /\ next # rev /\ quotation[next].status = "NONE" /\ quotation[next] \in Quotation
        /\ req.kind = "REVISE"
        /\ quotation' = [[quotation EXCEPT ![next] = new] EXCEPT ![rev] = old]
    <3>1. /\ rev < MaxRevisions /\ quotation[rev + 1].status = "NONE" /\ req.kind = "REVISE"
          /\ quotation' = [quotation EXCEPT ![rev + 1].status = "DRAFT", ![rev].status = "REJECTED"]
      BY <1>1, <1>9 DEF CommitRevise, Committing, Superseded
    <3>2. next \in Revisions /\ next # rev
      BY <1>3, <3>1, QuotationsAssumption DEF Revisions
    <3> QED
      BY <1>3, <1>t, <3>1, <3>2
  <2>2. /\ new \in Quotation /\ new.status = "DRAFT"
        /\ old \in Quotation /\ old.status = "REJECTED"
    BY <1>3, <2>1 DEF Quotation, QuotationStatuses
  <2>3. next = rev + 1
    OBVIOUS
  <2> HIDE DEF new, old, next
  <2>4. /\ quotation' \in [Revisions -> Quotation]
        /\ quotation'[rev] = old /\ quotation'[next] = new
        /\ \A r \in Revisions \ {rev, next} : quotation'[r] = quotation[r]
    BY <1>3, <1>t, <2>1, <2>2
  <2>5. ASSUME ~raced PROVE OnlyTheLatestLives' /\ CustomerHoldsTheRow'
    <3>1. \A r \in Revisions : r < rev => quotation[r].status = "REJECTED"
      <4>1. quotation[rev].status # "NONE"
        BY <1>4, <2>1, <2>5, FromEach
      <4> QED
        BY <1>3, <1>4, <2>5, <4>1 DEF OnlyTheLatestLives
    <3>2. \A r \in Revisions : r > next => quotation[r].status = "NONE"
      <4>1. quotation[next].status # "REJECTED"
        BY <2>1
      <4> QED
        BY <1>3, <1>4, <2>1, <2>3, <2>5, <4>1 DEF OnlyTheLatestLives, Revisions
    <3>3. OnlyTheLatestLives'
      <4> SUFFICES ASSUME NEW r \in Revisions, NEW s \in Revisions, r < s, quotation'[s].status # "NONE"
                   PROVE  quotation'[r].status = "REJECTED"
        BY DEF OnlyTheLatestLives
      <4>1. r \in Int /\ s \in Int
        BY QuotationsAssumption DEF Revisions
      <4>2. ~(s > next)
        BY <1>3, <2>3, <2>4, <3>2, <4>1
      <4>3. r = rev \/ r < rev
        BY <1>3, <2>3, <4>1, <4>2
      <4>4. r # next
        BY <1>3, <2>3, <4>1, <4>3
      <4> QED
        BY <2>2, <2>4, <3>1, <4>3, <4>4
    <3>4. CustomerHoldsTheRow'
      BY <1>4, <2>2, <2>4, <2>5 DEF CustomerHoldsTheRow
    <3> QED
      BY <3>3, <3>4
  <2>6. QuoteTypeOK' /\ halfway' \in BOOLEAN
    BY <1>5, <2>4
  <2>7. ~raced => QuoteInv'
    BY <1>1, <1>2, <2>1, <2>4, <2>5, <2>6, RowStands
  <2> QED
    BY <1>2, <2>6, <2>7 DEF QuoteInv
<1>10. CASE RollBack(u)
  <2>1. quotation' = quotation
    BY <1>10 DEF RollBack
  <2>2. ~raced => OnlyTheLatestLives' /\ CustomerHoldsTheRow'
    BY <1>4, <2>1 DEF OnlyTheLatestLives, CustomerHoldsTheRow
  <2>3. MaxRevisions + 1 # rev
    BY <1>3, QuotationsAssumption DEF Revisions
  <2>4. QuoteTypeOK' /\ halfway' \in BOOLEAN
    BY <1>5, <1>t, <2>1
  <2>5. ~raced => QuoteInv'
    BY <1>1, <1>2, <2>1, <2>2, <2>3, <2>4, RowStands
  <2> QED
    BY <1>2, <2>4, <2>5 DEF QuoteInv
<1> QED
  BY <1>6, <1>7, <1>8, <1>9, <1>10 DEF QuoteCommit

(* A conversion reads a quotation that is accepted.                        *)
LEMMA LoadAcceptedStands ==
    ASSUME QuoteInv, WorkTyped, NEW p \in Calls, NEW rev \in Revisions, LoadAccepted(p, rev)
    PROVE  QuoteInv'
<1>1. /\ work[p] = NoWork /\ quotation[rev].status = "ACCEPTED"
      /\ work'[p] = [revision |-> rev, order |-> 0]
      /\ \A q \in Calls \ {p} : work'[q] = work[q]
      /\ raced' = (raced \/ InFlight(rev) \/ Converting(rev))
      /\ UNCHANGED <<quotation, request, orders, halfway>>
  BY DEF LoadAccepted, Touch, WorkTyped
<1>2. ASSUME ~raced' PROVE WorkAlone' /\ ChecksHold' /\ OnlyTheLatestLives' /\ CustomerHoldsTheRow'
  <2>1. ~raced /\ ~InFlight(rev) /\ ~Converting(rev)
    BY <1>1, <1>2
  <2>2. WorkAlone /\ ChecksHold /\ OnlyTheLatestLives /\ CustomerHoldsTheRow
    BY <2>1 DEF QuoteInv
  <2>3. WorkAlone'
    BY <1>1, <2>1, <2>2 DEF WorkAlone, Waiting, InFlight, Converting
  <2>4. ChecksHold'
    BY <1>1, <2>2 DEF ChecksHold, Waiting, Checked
  <2> QED
    BY <1>1, <2>2, <2>3, <2>4 DEF OnlyTheLatestLives, CustomerHoldsTheRow
<1>3. ASSUME ~raced', ~halfway' PROVE OrdersAreAccountedFor'
  <2>1. OrdersAreAccountedFor /\ UNCHANGED <<quotation, orders>>
    BY <1>1, <1>3 DEF QuoteInv
  <2>2. ASSUME NEW i \in 1..Len(orders),
               NEW q \in Calls, work[q] # NoWork /\ work[q].order # 0
                                /\ work[q].revision = orders[i].revision
        PROVE  work'[q] = work[q]
    BY <1>1, <1>3, <2>2
  <2> QED
    BY <2>1, <2>2 DEF OrdersAreAccountedFor
<1>4. QuoteTypeOK' /\ halfway' \in BOOLEAN
  BY <1>1 DEF QuoteInv, QuoteTypeOK
<1> QED
  BY <1>2, <1>3, <1>4 DEF QuoteInv

(* Whoever creates an order works on its quotation alone: an order that    *)
(* was there would be of the same revision, the only one alive, and would  *)
(* be in other hands.                                                      *)
LEMMA CreateOrderStands ==
    ASSUME QuoteInv, WorkTyped, NEW p \in Calls, CreateOrder(p)
    PROVE  QuoteInv'
<1>1. PICK rev \in Revisions : rev = work[p].revision
  BY DEF CreateOrder, WorkTyped, Work
<1>2. /\ work[p] # NoWork /\ work[p].order = 0
      /\ orders' = Append(orders, [revision |-> rev, key |-> call[p].key])
      /\ work'[p] = [work[p] EXCEPT !.order = Len(orders) + 1]
      /\ \A q \in Calls \ {p} : work'[q] = work[q]
      /\ UNCHANGED <<quotation, request, raced, halfway>>
      /\ orders \in Seq(Order) /\ Len(orders) \in Nat
  BY <1>1 DEF CreateOrder, WorkTyped, quoteVars
<1>3. /\ work'[p] # NoWork /\ work'[p].order = Len(orders) + 1 /\ work'[p].order # 0
      /\ work'[p].revision = rev
  <2>1. work[p] \in Work /\ Len(orders) + 1 \in 0..MaxOrders
    BY <1>2, ConversionAssumption DEF WorkTyped, CreateOrder
  <2>2. work'[p] \in Work
    BY <1>2, <2>1 DEF Work
  <2> QED
    BY <1>1, <1>2, <2>1, <2>2, NoWorkAssumption DEF Work
<1>4. ASSUME ~raced PROVE WorkAlone' /\ ChecksHold' /\ OnlyTheLatestLives' /\ CustomerHoldsTheRow'
  <2>1. WorkAlone /\ ChecksHold /\ OnlyTheLatestLives /\ CustomerHoldsTheRow
    BY <1>4 DEF QuoteInv
  <2>2. \A q \in Calls : /\ work'[q] # NoWork <=> work[q] # NoWork
                        /\ work'[q].revision = work[q].revision
    BY <1>1, <1>2, <1>3
  <2>3. WorkAlone'
    <3>1. \A u, v \in Users : u # v /\ ~Waiting(u)' /\ ~Waiting(v)'
              => request'[u].revision # request'[v].revision
      BY <1>2, <2>1 DEF WorkAlone, Waiting
    <3>2. \A u \in Users, q \in Calls : ~Waiting(u)' /\ work'[q] # NoWork
              => request'[u].revision # work'[q].revision
      BY <1>2, <2>1, <2>2 DEF WorkAlone, Waiting
    <3>3. \A q, s \in Calls : q # s /\ work'[q] # NoWork /\ work'[s] # NoWork
              => work'[q].revision # work'[s].revision
      BY <2>1, <2>2 DEF WorkAlone
    <3> QED
      BY <3>1, <3>2, <3>3 DEF WorkAlone
  <2>4. ChecksHold'
    BY <1>2, <2>1, <2>2 DEF ChecksHold, Waiting, Checked
  <2> QED
    BY <1>2, <2>1, <2>3, <2>4 DEF OnlyTheLatestLives, CustomerHoldsTheRow
<1>5. ASSUME ~raced, ~halfway PROVE OrdersAreAccountedFor'
  <2>1. OrdersAreAccountedFor /\ WorkAlone /\ ChecksHold /\ OnlyTheLatestLives
    BY <1>5 DEF QuoteInv
  <2>2. quotation[rev].status = "ACCEPTED"
    BY <1>1, <1>2, <2>1 DEF ChecksHold
  <2>3. ASSUME NEW i \in 1..Len(orders) PROVE FALSE
    <3>1. orders[i].revision \in Revisions
      BY OrdersNameRevisions
    <3>2. quotation[orders[i].revision].status \in {"ACCEPTED", "CONVERTED"}
      BY <2>1 DEF OrdersAreAccountedFor, ChecksHold
    <3>3. orders[i].revision = rev
      <4>1. rev \in Int /\ orders[i].revision \in Int
        BY <3>1, QuotationsAssumption DEF Revisions
      <4>2. ~(orders[i].revision < rev) /\ ~(rev < orders[i].revision)
        BY <2>1, <2>2, <3>1, <3>2 DEF OnlyTheLatestLives
      <4> QED
        BY <4>1, <4>2
    <3>4. PICK q \in Calls : work[q] # NoWork /\ work[q].order # 0 /\ work[q].revision = rev
      BY <2>1, <2>2, <3>3 DEF OrdersAreAccountedFor
    <3> QED
      BY <1>1, <1>2, <2>1, <3>4 DEF WorkAlone
  <2>4. Len(orders) = 0
    BY <1>2, <2>3
  <2>5. Len(orders') = 1 /\ orders'[1].revision = rev
    BY <1>2, <2>4
  <2> QED
    BY <1>3, <2>5 DEF OrdersAreAccountedFor
<1>6. QuoteTypeOK' /\ halfway' \in BOOLEAN
  BY <1>2 DEF QuoteInv, QuoteTypeOK
<1> QED
  BY <1>2, <1>4, <1>5, <1>6 DEF QuoteInv

(* The second transaction: the order is accounted for by the status.       *)
LEMMA MarkConvertedStands ==
    ASSUME QuoteInv, WorkTyped, NEW p \in Calls, MarkConverted(p)
    PROVE  QuoteInv'
<1>1. PICK rev \in Revisions : rev = work[p].revision
  BY DEF MarkConverted, WorkTyped, Work
<1>2. /\ work[p] # NoWork
      /\ quotation' = [quotation EXCEPT ![rev].status = "CONVERTED"]
      /\ work'[p] = NoWork
      /\ \A q \in Calls \ {p} : work'[q] = work[q]
      /\ UNCHANGED <<request, raced, orders, halfway>>
  BY <1>1 DEF MarkConverted, Converted, WorkTyped
<1>3. /\ quotation' \in [Revisions -> Quotation]
      /\ quotation'[rev].status = "CONVERTED"
      /\ \A r \in Revisions \ {rev} : quotation'[r] = quotation[r]
  <2>1. quotation[rev] \in Quotation /\ quotation \in [Revisions -> Quotation]
    BY DEF QuoteInv, QuoteTypeOK
  <2>2. [quotation[rev] EXCEPT !.status = "CONVERTED"] \in Quotation
    BY <2>1 DEF Quotation, QuotationStatuses
  <2> QED
    BY <1>2, <2>1, <2>2 DEF Quotation
<1>4. ASSUME ~raced PROVE WorkAlone' /\ ChecksHold' /\ OnlyTheLatestLives' /\ CustomerHoldsTheRow'
  <2>1. /\ WorkAlone /\ ChecksHold /\ OnlyTheLatestLives /\ CustomerHoldsTheRow
        /\ quotation[rev].status = "ACCEPTED"
    BY <1>1, <1>2, <1>4 DEF QuoteInv, ChecksHold
  <2>2. WorkAlone'
    BY <1>2, <2>1 DEF WorkAlone, Waiting
  <2>3. ChecksHold'
    <3>1. ASSUME NEW u \in Users, ~Waiting(u) PROVE Checked(request[u].kind, request[u].revision)'
      <4>1. /\ request[u].revision \in Revisions \ {rev}
            /\ Checked(request[u].kind, request[u].revision)
        BY <1>1, <1>2, <2>1, <3>1 DEF WorkAlone, ChecksHold, QuoteInv, QuoteTypeOK, Waiting, Request
      <4> QED
        BY <1>2, <1>3, <4>1 DEF Checked
    <3>2. ASSUME NEW q \in Calls, work'[q] # NoWork PROVE quotation'[work'[q].revision].status = "ACCEPTED"
      <4>1. q # p /\ work'[q] = work[q] /\ work[q].revision # rev /\ work[q].revision \in Revisions
        BY <1>1, <1>2, <2>1, <3>2 DEF WorkAlone, WorkTyped, Work
      <4> QED
        BY <1>3, <2>1, <3>2, <4>1 DEF ChecksHold
    <3> QED
      BY <1>2, <3>1, <3>2 DEF ChecksHold, Waiting
  <2>4. OnlyTheLatestLives'
    BY <1>3, <2>1 DEF OnlyTheLatestLives
  <2>5. CustomerHoldsTheRow'
    BY <1>3, <2>1 DEF CustomerHoldsTheRow
  <2> QED
    BY <2>2, <2>3, <2>4, <2>5
<1>5. ASSUME ~raced, ~halfway PROVE OrdersAreAccountedFor'
  <2>1. OrdersAreAccountedFor
    BY <1>5 DEF QuoteInv
  <2>2. \A i \in 1..Len(orders) : orders[i].revision \in Revisions
    BY OrdersNameRevisions
  <2>3. ASSUME NEW i \in 1..Len(orders)
        PROVE  \/ quotation'[orders[i].revision].status = "CONVERTED"
               \/ \E q \in Calls : /\ work'[q] # NoWork /\ work'[q].order # 0
                                   /\ work'[q].revision = orders[i].revision
    <3>1. CASE orders[i].revision = rev
      BY <1>3, <3>1
    <3>2. CASE orders[i].revision # rev
      BY <1>1, <1>2, <1>3, <2>1, <2>2, <3>2 DEF OrdersAreAccountedFor
    <3> QED
      BY <3>1, <3>2
  <2> QED
    BY <1>2, <2>1, <2>3 DEF OrdersAreAccountedFor
<1>6. QuoteTypeOK' /\ halfway' \in BOOLEAN
  BY <1>2, <1>3 DEF QuoteInv, QuoteTypeOK
<1> QED
  BY <1>2, <1>4, <1>5, <1>6 DEF QuoteInv

(* A conversion that breaks off leaves its order unaccounted for, and      *)
(* halfway says so.                                                        *)
LEMMA AbandonedStands ==
    ASSUME QuoteInv, WorkTyped, NEW p \in Calls, Abandoned(p)
    PROVE  QuoteInv'
<1>1. /\ work'[p] = NoWork
      /\ \A q \in Calls \ {p} : work'[q] = work[q]
      /\ UNCHANGED <<quotation, request, raced, orders>>
      /\ halfway' = (halfway \/ (work[p] # NoWork /\ work[p].order # 0))
  BY DEF Abandoned, quoteVars, WorkTyped
<1>2. ~raced => WorkAlone' /\ ChecksHold' /\ OnlyTheLatestLives' /\ CustomerHoldsTheRow'
  BY <1>1 DEF QuoteInv, WorkAlone, ChecksHold, OnlyTheLatestLives, CustomerHoldsTheRow, Waiting, Checked
<1>3. ASSUME ~raced, ~halfway' PROVE OrdersAreAccountedFor'
  <2>1. OrdersAreAccountedFor /\ UNCHANGED <<quotation, orders>>
    BY <1>1, <1>3 DEF QuoteInv
  <2>2. ASSUME NEW i \in 1..Len(orders),
               NEW q \in Calls, work[q] # NoWork /\ work[q].order # 0
                                /\ work[q].revision = orders[i].revision
        PROVE  work'[q] = work[q]
    BY <1>1, <1>3, <2>2
  <2> QED
    BY <2>1, <2>2 DEF OrdersAreAccountedFor
<1>4. QuoteTypeOK' /\ halfway' \in BOOLEAN
  BY <1>1 DEF QuoteInv, QuoteTypeOK
<1> QED
  BY <1>1, <1>2, <1>3, <1>4 DEF QuoteInv

(* Every step of the endpoint and of the quotation keeps QuoteInv.         *)
LEMMA QuoteInvInductive == QuoteInv /\ WorkTyped /\ [Next]_vars => QuoteInv'
<1> SUFFICES ASSUME QuoteInv, WorkTyped, [Next]_vars PROVE QuoteInv'
  OBVIOUS
<1>1. CASE UNCHANGED <<quoteVars, orders, work, halfway>>
  BY <1>1 DEF quoteVars, QuoteInv, QuoteTypeOK, WorkAlone, ChecksHold, OnlyTheLatestLives,
     CustomerHoldsTheRow, OrdersAreAccountedFor, Waiting, Checked
<1>2. ASSUME NEW u \in Users, QuotationStep(u) PROVE QuoteInv'
  BY <1>2, LoadingStands, CommitsStand DEF QuotationStep
<1>3. ASSUME NEW p \in Calls, HandlerStep(p) PROVE QuoteInv'
  BY <1>3, LoadAcceptedStands, CreateOrderStands, MarkConvertedStands, AbandonedStands
  DEF HandlerStep, HandlerThrows, ProcessDies
<1> QED
  BY <1>1, <1>2, <1>3 DEF Next, InterceptorStep, vars

(* QuoteInv holds in every state that can be reached.                      *)
LEMMA QuoteInvHolds == Spec => [](QuoteInv /\ WorkTyped /\ KeyTypeOK)
<1>1. Init => QuoteInv
  <2> SUFFICES ASSUME Init PROVE QuoteInv
    OBVIOUS
  <2>1. QuoteTypeOK /\ halfway = FALSE
    <3>1. 1 \in 1..(MaxEdits + 1) /\ 0 \in 0..(MaxEdits + 1)
      BY QuotationsAssumption
    <3>2. \A s \in QuotationStatuses : [status |-> s, lines |-> 1, sent |-> 0] \in Quotation
      BY <3>1 DEF Quotation
    <3>3. quotation \in [Revisions -> Quotation]
      BY <3>2 DEF Init, QuoteInit, QuotationStatuses
    <3>4. request \in [Users -> Request \cup {NoRequest}] /\ raced = FALSE
      BY DEF Init, QuoteInit
    <3> QED
      BY <3>3, <3>4 DEF Init, QuoteTypeOK
  <2>2. WorkAlone /\ ChecksHold
    BY DEF Init, QuoteInit, WorkAlone, ChecksHold, Waiting
  <2>3. OnlyTheLatestLives
    BY QuotationsAssumption DEF Init, QuoteInit, OnlyTheLatestLives, Revisions
  <2>4. CustomerHoldsTheRow
    BY DEF Init, QuoteInit, CustomerHoldsTheRow
  <2>5. OrdersAreAccountedFor
    BY DEF Init, OrdersAreAccountedFor
  <2> QED
    BY <2>1, <2>2, <2>3, <2>4, <2>5 DEF QuoteInv
<1> QED
  BY <1>1, QuoteInvInductive, WorkTypedHolds, PTL DEF Spec

(* One revision of a quotation is alive and says what its customer was     *)
(* sent, and it becomes one order, for any number of requests, keys and    *)
(* revisions, unless requests overlapped or a conversion broke off.        *)
THEOREM QuotationTheorem == Spec => []QuotationHolds
<1>1. QuoteInv /\ WorkTyped /\ KeyTypeOK => QuotationHolds
  <2> SUFFICES ASSUME QuoteInv, WorkTyped, KeyTypeOK PROVE QuotationHolds
    OBVIOUS
  <2>1. TypeOK
    BY DEF TypeOK, QuoteInv, WorkTyped
  <2>2. ~raced => OneLiveRevision /\ CustomerHoldsTheRow
    BY AtMostOneIsLive DEF QuoteInv
  <2>3. ~raced /\ ~halfway => OneOrderPerQuotation
    BY DEF QuoteInv, OrdersAreAccountedFor, OneOrderPerQuotation, Converting
  <2> QED
    BY <2>1, <2>2, <2>3 DEF QuotationHolds
<1> QED
  BY <1>1, QuoteInvHolds, PTL

(***************************************************************************)
(* The statutory series and the frozen invoice, for any number of clerks   *)
(* and invoices.  The series has no gap since only one transaction holds   *)
(* its row, from the number it takes to the invoice it commits it with;    *)
(* an issued invoice stands since whatever would change it is refused by   *)
(* the triggers, and a request that writes by id alone was loaded in a     *)
(* state from which the invoice cannot have come back.                     *)
(* Then what adds up, and what header, lines and ledger say of one         *)
(* invoice: BillingStands, on top of BInv, relates what each request has   *)
(* read and computed to what is stored when it commits, unless its overlap *)
(* with another is noted.                                                  *)
(***************************************************************************)

(* What a request that was loaded may count on when it commits.            *)
TasksFit ==
    \A c \in Clerks : task[c] # NoTask =>
        /\ task[c].kind \notin {"WRITE_OFF", "OPENING"} => task[c].invoice \in Invoices
        /\ task[c].kind = "BILL" => /\ task[c].amount \in 0..Ordered
                                    /\ Is(task[c].invoice, "NONE")
        /\ task[c].kind = "CANCEL" => Numbered(task[c].invoice)
        /\ task[c].stage \in {"HEADER_WRITTEN", "RETAXED"} => task[c].kind = "UPDATE"

(* An invoice row is being created by one request.                         *)
OneDrafter ==
    \A c, d \in Clerks :
        /\ task[c] # NoTask /\ task[c].kind = "BILL"
        /\ task[d] # NoTask /\ task[d].kind = "BILL"
        /\ task[c].invoice = task[d].invoice
        => c = d

(* Whoever has taken a number holds the series, and the number is next.    *)
SeriesIsLocked ==
    /\ \A c \in Clerks : Doing(c, "ISSUE", "NUMBERED") => task[c].amount = nextNumber
    /\ \A c, d \in Clerks :
           Doing(c, "ISSUE", "NUMBERED") /\ Doing(d, "ISSUE", "NUMBERED") => c = d

(* The acts without a document that only load.                             *)
CountsOrWritesOff(c) ==
    \/ \E amount \in 1..MaxWrittenOff : LoadWriteOff(c, amount)
    \/ CountOpenings(c)

BInv ==
    /\ BillingTypeOK
    /\ TasksFit
    /\ OneDrafter
    /\ SeriesIsLocked
    /\ NumbersAreGapless

-----------------------------------------------------------------------------
LEMMA LoadIsTyped ==
    ASSUME BillingTypeOK, NEW c \in Clerks, NEW kind \in Kinds,
           NEW i \in Invoices \cup {NoFigures}, NEW amount \in Nat,
           NEW place \in Places, NEW seen \in Places,
           Load(c, kind, i, amount, place, seen)
    PROVE  BillingTypeOK'
<1>1. [kind |-> kind, stage |-> "LOADED", invoice |-> i,
       amount |-> amount, place |-> place, seen |-> seen] \in Task
  BY DEF Task, BillingStages
<1>2. task' \in [Clerks -> Task \cup {NoTask}]
  BY <1>1 DEF Load, BillingTypeOK
<1>3. contested' \in SUBSET Invoices
  BY DEF Load, BillingTypeOK
<1>4. clashed' \in SUBSET Clashes
  BY DEF Load, BillingTypeOK
<1> QED
  BY <1>2, <1>3, <1>4 DEF Load, BillingTypeOK, figureVars

LEMMA TypesKept == BillingTypeOK /\ TasksFit /\ [BillingNext]_billingVars => BillingTypeOK'
<1> SUFFICES ASSUME BillingTypeOK, TasksFit, [BillingNext]_billingVars
             PROVE  BillingTypeOK'
  OBVIOUS
<1>a. \A i \in Invoices : invoices[i] \in Invoice
  BY DEF BillingTypeOK
<1>b. \A c \in Clerks : task[c] # NoTask => task[c] \in Task
  BY DEF BillingTypeOK
<1>1. ASSUME NEW c \in Clerks, NEW i \in Invoices,
             \/ \E wanted \in 1..Ordered : LoadBill(c, i, wanted)
             \/ \E place \in Places : LoadUpdate(c, i, place)
             \/ LoadRemove(c, i) \/ LoadIssue(c, i) \/ LoadCancel(c, i)
      PROVE  BillingTypeOK'
  <2>1. /\ {"BILL", "UPDATE", "REMOVE", "ISSUE", "CANCEL"} \subseteq Kinds
        /\ "INTRA" \in Places /\ i \in Invoices \cup {NoFigures}
        /\ invoices[i].place \in Places /\ invoices[i].split \in Places
        /\ invoices[i].quantity \in Nat /\ 0 \in Nat /\ 1..Ordered \subseteq Nat
    BY <1>a, BillingAssumption DEF Invoice, Kinds, Places
  <2>2. \/ \E wanted \in 1..Ordered : Load(c, "BILL", i, wanted, "INTRA", "INTRA")
        \/ \E place \in Places : Load(c, "UPDATE", i, 0, place, invoices[i].place)
        \/ Load(c, "REMOVE", i, 0, "INTRA", "INTRA")
        \/ Load(c, "ISSUE", i, invoices[i].quantity, invoices[i].place, invoices[i].split)
        \/ Load(c, "CANCEL", i, 0, "INTRA", "INTRA")
    BY <1>1 DEF LoadBill, LoadUpdate, LoadRemove, LoadIssue, LoadCancel
  <2> QED
    BY <2>1, <2>2, LoadIsTyped
<1>2. ASSUME NEW c \in Clerks,
             CountsOrWritesOff(c)
      PROVE  BillingTypeOK'
  <2>1. /\ {"WRITE_OFF", "OPENING"} \subseteq Kinds /\ "INTRA" \in Places
        /\ NoFigures \in Invoices \cup {NoFigures} /\ 1 \in Nat
        /\ 1..MaxWrittenOff \subseteq Nat
    BY BillingAssumption DEF Kinds, Places
  <2>2. \/ \E amount \in 1..MaxWrittenOff :
               Load(c, "WRITE_OFF", NoFigures, amount, "INTRA", "INTRA")
        \/ Load(c, "OPENING", NoFigures, 1, "INTRA", "INTRA")
    BY <1>2 DEF CountsOrWritesOff, LoadWriteOff, CountOpenings
  <2> QED
    BY <2>1, <2>2, LoadIsTyped
<1>3. ASSUME NEW c \in Clerks, CommitBill(c) PROVE BillingTypeOK'
  <2> DEFINE i == task[c].invoice
  <2>1. i \in Invoices /\ task[c].amount \in 0..Ordered
    BY <1>3 DEF CommitBill, Doing, TasksFit
  <2>2. [[invoices[i] EXCEPT !.status = "DRAFT"] EXCEPT !.quantity = task[c].amount] \in Invoice
    BY <1>a, <2>1 DEF Invoice
  <2>3. invoices' = [invoices EXCEPT ![i] = [[invoices[i] EXCEPT !.status = "DRAFT"]
                                                EXCEPT !.quantity = task[c].amount]]
    BY <1>3 DEF CommitBill
  <2>4. invoices' \in [Invoices -> Invoice]
    BY <2>2, <2>3 DEF BillingTypeOK
  <2> QED
    BY <1>3, <2>4 DEF CommitBill, Done, BillingTypeOK, figureVars
<1>4. ASSUME NEW c \in Clerks, CommitHeader(c) \/ CommitTaxes(c) PROVE BillingTypeOK'
  <2> DEFINE i == task[c].invoice
  <2>1. i \in Invoices /\ task[c] \in Task
    BY <1>4, <1>b DEF CommitHeader, CommitTaxes, Doing, TasksFit
  <2>2. /\ [invoices[i] EXCEPT !.place = task[c].place] \in Invoice
        /\ [invoices[i] EXCEPT !.split = task[c].seen] \in Invoice
    BY <1>a, <2>1 DEF Invoice, Task
  <2>3. invoices' \in [Invoices -> Invoice]
    BY <1>4, <2>2 DEF CommitHeader, CommitTaxes, BillingTypeOK
  <2>4. [task[c] EXCEPT !.stage = "HEADER_WRITTEN"] \in Task
    BY <2>1 DEF Task, BillingStages
  <2>5. task' \in [Clerks -> Task \cup {NoTask}]
    BY <1>4, <2>4 DEF CommitHeader, CommitTaxes, Becomes, Done, BillingTypeOK
  <2> QED
    BY <1>4, <2>3, <2>5 DEF CommitHeader, CommitTaxes, BillingTypeOK, figureVars
<1>5. ASSUME NEW c \in Clerks, Retax(c) \/ TakeNumber(c) PROVE BillingTypeOK'
  <2>1. /\ task[c] \in Task
        /\ task[c].kind = "UPDATE" => task[c].invoice \in Invoices
        /\ nextNumber \in Nat
    BY <1>5, <1>b DEF Retax, TakeNumber, Doing, TasksFit, BillingTypeOK
  <2>2. task' \in [Clerks -> Task \cup {NoTask}]
    <3>1. CASE Retax(c)
      <4>1. invoices[task[c].invoice].place \in Places
        BY <1>a, <2>1, <3>1 DEF Retax, Doing, Invoice
      <4>2. [[task[c] EXCEPT !.stage = "RETAXED"]
                EXCEPT !.seen = invoices[task[c].invoice].place] \in Task
        BY <2>1, <4>1 DEF Task, BillingStages
      <4>3. task' = [task EXCEPT ![c] = [[task[c] EXCEPT !.stage = "RETAXED"]
                EXCEPT !.seen = invoices[task[c].invoice].place]]
        BY <3>1 DEF Retax
      <4> QED
        BY <4>2, <4>3 DEF BillingTypeOK
    <3>2. CASE TakeNumber(c)
      <4>1. [[task[c] EXCEPT !.stage = "NUMBERED"] EXCEPT !.amount = nextNumber] \in Task
        BY <2>1 DEF Task, BillingStages
      <4>2. task' = [task EXCEPT ![c] = [[task[c] EXCEPT !.stage = "NUMBERED"]
                                            EXCEPT !.amount = nextNumber]]
        BY <3>2 DEF TakeNumber
      <4> QED
        BY <4>1, <4>2 DEF BillingTypeOK
    <3> QED
      BY <1>5, <3>1, <3>2
  <2> QED
    BY <1>5, <2>2 DEF Retax, TakeNumber, BillingTypeOK, figureVars
<1>6. ASSUME NEW c \in Clerks, CommitRemove(c) \/ CommitCancel(c) PROVE BillingTypeOK'
  <2> DEFINE i == task[c].invoice
  <2>1. i \in Invoices
    BY <1>6 DEF CommitRemove, CommitCancel, Doing, TasksFit
  <2>2. /\ [invoices[i] EXCEPT !.status = "REMOVED"] \in Invoice
        /\ [invoices[i] EXCEPT !.status = "CANCELLED"] \in Invoice
    BY <1>a, <2>1 DEF Invoice
  <2>3. invoices' \in [Invoices -> Invoice] /\ contras' \in [Invoices -> Nat]
    BY <1>6, <2>1, <2>2 DEF CommitRemove, CommitCancel, BillingTypeOK, figureVars
  <2> QED
    BY <1>6, <2>3 DEF CommitRemove, CommitCancel, Done, BillingTypeOK, figureVars
<1>7. ASSUME NEW c \in Clerks, CommitIssue(c) PROVE BillingTypeOK'
  <2> DEFINE i == task[c].invoice
  <2>1. i \in Invoices /\ task[c] \in Task /\ task[c].amount \in Nat /\ task[c].seen \in Places
    BY <1>7, <1>b DEF CommitIssue, Doing, TasksFit, Task
  <2>2. [[invoices[i] EXCEPT !.status = "ISSUED"] EXCEPT !.number = task[c].amount] \in Invoice
    BY <1>a, <2>1 DEF Invoice
  <2>3. invoices' = [invoices EXCEPT ![i] = [[invoices[i] EXCEPT !.status = "ISSUED"]
                                                EXCEPT !.number = task[c].amount]]
    BY <1>7 DEF CommitIssue
  <2>4. invoices' \in [Invoices -> Invoice]
    BY <2>2, <2>3 DEF BillingTypeOK
  <2>5. [quantity |-> invoices[i].quantity, split |-> task[c].seen] \in Figures
    BY <1>a, <2>1 DEF Invoice, Figures
  <2>6. entry' \in [Invoices -> Figures \cup {NoFigures}]
    BY <1>7, <2>5 DEF CommitIssue, BillingTypeOK
  <2>7. nextNumber' \in Nat \ {0}
    BY <1>7, <2>1 DEF CommitIssue
  <2> QED
    BY <1>7, <2>4, <2>6, <2>7 DEF CommitIssue, Done, BillingTypeOK
<1>8. ASSUME NEW c \in Clerks, CommitWriteOff(c) \/ CommitOpening(c) \/ Drop(c)
      PROVE  BillingTypeOK'
  <2>1. task[c] \in Task /\ task[c].amount \in Nat
    BY <1>8, <1>b DEF CommitWriteOff, CommitOpening, Drop, Doing, Task
  <2>2. writtenOff' \in 0..MaxWrittenOff /\ openings' \in Nat
    BY <1>8, <2>1, BillingAssumption
    DEF CommitWriteOff, CommitOpening, Drop, BillingTypeOK, figureVars
  <2>3. contested' \in SUBSET Invoices
    <3>1. Drop(c) /\ task[c].stage \in {"HEADER_WRITTEN", "RETAXED"}
              => task[c].invoice \in Invoices
      BY DEF Drop, TasksFit
    <3> QED
      BY <1>8, <3>1 DEF CommitWriteOff, CommitOpening, Drop, TasksFit, BillingTypeOK
  <2> QED
    BY <1>8, <2>2, <2>3 DEF CommitWriteOff, CommitOpening, Drop, Done, BillingTypeOK, figureVars
<1>9. CASE UNCHANGED billingVars
  BY <1>9 DEF billingVars, figureVars, BillingTypeOK
<1> QED
  BY <1>1, <1>2, <1>3, <1>4, <1>5, <1>6, <1>7, <1>8, <1>9
  DEF BillingNext, DraftStep, IssueStep, LedgerStep, CountsOrWritesOff

-----------------------------------------------------------------------------
(* A request that has only been loaded commits nothing.                    *)
LEMMA LoadKeepsInvariant ==
    ASSUME BInv, BillingTypeOK', NEW c \in Clerks, NEW kind \in Kinds,
           NEW i \in Invoices \cup {NoFigures}, NEW amount \in Nat,
           NEW place \in Places, NEW seen \in Places,
           Load(c, kind, i, amount, place, seen),
           kind \notin {"WRITE_OFF", "OPENING"} => i \in Invoices,
           kind = "BILL" => /\ amount \in 0..Ordered
                            /\ Is(i, "NONE")
                            /\ \A d \in Clerks : task[d] # NoTask => task[d].invoice # i,
           kind = "CANCEL" => Numbered(i)
    PROVE  BInv'
<1>1. /\ UNCHANGED <<invoices, nextNumber>>
      /\ \A d \in Clerks \ {c} : task'[d] = task[d]
      /\ task'[c] = [kind |-> kind, stage |-> "LOADED", invoice |-> i,
                     amount |-> amount, place |-> place, seen |-> seen]
  BY DEF Load, BInv, BillingTypeOK
<1>2. TasksFit'
  <2> SUFFICES ASSUME NEW d \in Clerks, task'[d] # NoTask
               PROVE  /\ task'[d].kind \notin {"WRITE_OFF", "OPENING"}
                             => task'[d].invoice \in Invoices
                      /\ task'[d].kind = "BILL" => /\ task'[d].amount \in 0..Ordered
                                                   /\ Is(task[d].invoice, "NONE")'
                      /\ task'[d].kind = "CANCEL" => Numbered(task[d].invoice)'
                      /\ task'[d].stage \in {"HEADER_WRITTEN", "RETAXED"}
                             => task'[d].kind = "UPDATE"
    BY DEF TasksFit
  <2>1. CASE d = c
    BY <1>1, <2>1 DEF Is, Numbered
  <2>2. CASE d # c
    BY <1>1, <2>2 DEF BInv, TasksFit, Is, Numbered
  <2> QED
    BY <2>1, <2>2
<1>3. OneDrafter'
  BY <1>1 DEF BInv, OneDrafter
<1>4. SeriesIsLocked'
  BY <1>1 DEF BInv, SeriesIsLocked, Doing
<1>5. NumbersAreGapless'
  BY <1>1 DEF BInv, NumbersAreGapless, Numbered
<1> QED
  BY <1>2, <1>3, <1>4, <1>5 DEF BInv

(* A commit that takes no number: it moves the invoices of its own task    *)
(* only, and none of them into or out of the series.                       *)
LEMMA CommitKeepsInvariant ==
    ASSUME BInv, BillingTypeOK', NEW c \in Clerks, task[c] # NoTask,
           nextNumber' = nextNumber,
           \A d \in Clerks \ {c} : task'[d] = task[d],
           \/ task'[c] = NoTask
           \/ /\ task[c].kind = "UPDATE" /\ task'[c].kind = "UPDATE"
              /\ task'[c].invoice = task[c].invoice,
           \A i \in Invoices :
               /\ Numbered(i)' <=> Numbered(i)
               /\ Numbered(i) => invoices'[i].number = invoices[i].number
               /\ Is(i, "NONE") => \/ Is(i, "NONE")'
                                   \/ /\ task[c].kind = "BILL" /\ task[c].invoice = i
                                      /\ task'[c] = NoTask
    PROVE  BInv'
<1>1. TasksFit'
  <2> SUFFICES ASSUME NEW d \in Clerks, task'[d] # NoTask
               PROVE  /\ task'[d].kind \notin {"WRITE_OFF", "OPENING"}
                             => task'[d].invoice \in Invoices
                      /\ task'[d].kind = "BILL" => /\ task'[d].amount \in 0..Ordered
                                                   /\ Is(task[d].invoice, "NONE")'
                      /\ task'[d].kind = "CANCEL" => Numbered(task[d].invoice)'
                      /\ task'[d].stage \in {"HEADER_WRITTEN", "RETAXED"}
                             => task'[d].kind = "UPDATE"
    BY DEF TasksFit
  <2>1. CASE d = c
    BY <2>1 DEF BInv, TasksFit
  <2>2. CASE d # c
    <3>1. /\ task'[d] = task[d]
          /\ task[d].kind = "BILL" => task[d].invoice \in Invoices
          /\ task[d].kind = "CANCEL" => task[d].invoice \in Invoices
      BY <2>2 DEF BInv, TasksFit
    <3>2. task[d].kind = "BILL" /\ task[c].kind = "BILL" => task[d].invoice # task[c].invoice
      BY <2>2, <3>1 DEF BInv, OneDrafter
    <3>3. task[d].kind = "BILL" => Is(task[d].invoice, "NONE")'
      BY <3>1, <3>2 DEF BInv, TasksFit, Is
    <3>4. task[d].kind = "CANCEL" => Numbered(task[d].invoice)'
      BY <3>1 DEF BInv, TasksFit, Numbered
    <3> QED
      BY <3>1, <3>3, <3>4 DEF BInv, TasksFit
  <2> QED
    BY <2>1, <2>2
<1>2. OneDrafter'
  BY DEF BInv, OneDrafter
<1>3. SeriesIsLocked'
  BY DEF BInv, SeriesIsLocked, Doing
<1>4. NumbersAreGapless'
  BY DEF BInv, NumbersAreGapless
<1> QED
  BY <1>1, <1>2, <1>3, <1>4 DEF BInv

(* The number that is committed was the next one, and nobody else has it.  *)
LEMMA IssueKeepsInvariant ==
    ASSUME BInv, BillingTypeOK', NEW c \in Clerks, CommitIssue(c)
    PROVE  BInv'
<1>i. task[c].invoice \in Invoices
  BY DEF CommitIssue, Doing, BInv, TasksFit
<1> SUFFICES ASSUME NEW i \in Invoices, i = task[c].invoice PROVE BInv'
  BY <1>i
<1>1. /\ i \in Invoices /\ Is(i, "DRAFT") /\ Doing(c, "ISSUE", "NUMBERED")
      /\ task[c].amount = nextNumber /\ nextNumber \in Nat \ {0}
      /\ nextNumber' = nextNumber + 1
      /\ task'[c] = NoTask
      /\ \A d \in Clerks \ {c} : task'[d] = task[d]
  BY DEF CommitIssue, Doing, Done, BInv, TasksFit, SeriesIsLocked, BillingTypeOK
<1>2. /\ invoices'[i].status = "ISSUED" /\ invoices'[i].number = nextNumber
      /\ \A j \in Invoices \ {i} : invoices'[j] = invoices[j]
  <2>1. invoices' = [invoices EXCEPT ![i] = [[invoices[i] EXCEPT !.status = "ISSUED"]
                                                EXCEPT !.number = task[c].amount]]
    BY DEF CommitIssue
  <2> QED
    BY <1>1, <2>1 DEF BInv, BillingTypeOK, Invoice
<1>3. /\ Numbered(i)' /\ ~Numbered(i)
      /\ \A j \in Invoices \ {i} : /\ Numbered(j)' <=> Numbered(j)
                                   /\ Is(j, "NONE")' <=> Is(j, "NONE")
  BY <1>1, <1>2 DEF Numbered, Is
<1>4. TasksFit'
  <2> SUFFICES ASSUME NEW d \in Clerks, task'[d] # NoTask
               PROVE  /\ task'[d].kind \notin {"WRITE_OFF", "OPENING"}
                             => task'[d].invoice \in Invoices
                      /\ task'[d].kind = "BILL" => /\ task'[d].amount \in 0..Ordered
                                                   /\ Is(task[d].invoice, "NONE")'
                      /\ task'[d].kind = "CANCEL" => Numbered(task[d].invoice)'
                      /\ task'[d].stage \in {"HEADER_WRITTEN", "RETAXED"}
                             => task'[d].kind = "UPDATE"
    BY DEF TasksFit
  <2>1. d # c /\ task'[d] = task[d]
    BY <1>1
  <2>2. task[d].kind = "BILL" => task[d].invoice # i /\ task[d].invoice \in Invoices
    BY <1>1, <2>1 DEF BInv, TasksFit, Is
  <2>3. task[d].kind = "CANCEL" => task[d].invoice # i /\ task[d].invoice \in Invoices
    BY <1>3, <2>1 DEF BInv, TasksFit
  <2>4. task[d].kind = "BILL" => Is(task[d].invoice, "NONE")'
    BY <1>3, <2>1, <2>2 DEF BInv, TasksFit, Is
  <2>5. task[d].kind = "CANCEL" => Numbered(task[d].invoice)'
    BY <1>3, <2>1, <2>3 DEF BInv, TasksFit, Numbered
  <2> QED
    BY <2>1, <2>4, <2>5 DEF BInv, TasksFit
<1>5. OneDrafter'
  BY <1>1 DEF BInv, OneDrafter
<1>6. SeriesIsLocked'
  BY <1>1 DEF BInv, SeriesIsLocked, Doing
<1>7. NumbersAreGapless'
  <2>1. \A n \in 1..nextNumber : \E j \in Invoices : Numbered(j)' /\ invoices'[j].number = n
    <3> SUFFICES ASSUME NEW n \in 1..nextNumber
                 PROVE  \E j \in Invoices : Numbered(j)' /\ invoices'[j].number = n
      OBVIOUS
    <3>1. CASE n = nextNumber
      BY <1>1, <1>2, <1>3, <3>1
    <3>2. CASE n # nextNumber
      <4>1. n \in 1..(nextNumber - 1)
        BY <1>1, <3>2
      <4>2. PICK j \in Invoices : Numbered(j) /\ invoices[j].number = n
        BY <4>1 DEF BInv, NumbersAreGapless
      <4>3. j # i
        BY <1>3, <4>2
      <4> QED
        BY <1>2, <1>3, <4>2, <4>3
    <3> QED
      BY <3>1, <3>2
  <2>2. \A j \in Invoices : Numbered(j)' => invoices'[j].number \in 1..nextNumber
    BY <1>1, <1>2, <1>3 DEF BInv, NumbersAreGapless
  <2>3. \A j \in Invoices \ {i} : Numbered(j)' => invoices'[j].number # nextNumber
    BY <1>1, <1>2, <1>3 DEF BInv, NumbersAreGapless
  <2>4. \A j, k \in Invoices : Numbered(j)' /\ Numbered(k)' /\ j # k
            => invoices'[j].number # invoices'[k].number
    BY <1>2, <1>3, <2>3 DEF BInv, NumbersAreGapless
  <2> QED
    BY <1>1, <2>1, <2>2, <2>4 DEF NumbersAreGapless, Numbered
<1> QED
  BY <1>4, <1>5, <1>6, <1>7 DEF BInv

LEMMA TakeNumberKeepsInvariant ==
    ASSUME BInv, BillingTypeOK', NEW c \in Clerks, TakeNumber(c)
    PROVE  BInv'
<1>1. /\ UNCHANGED <<invoices, nextNumber>>
      /\ \A d \in Clerks : ~Doing(d, "ISSUE", "NUMBERED")
      /\ \A d \in Clerks \ {c} : task'[d] = task[d]
      /\ task[c] # NoTask /\ task[c].kind = "ISSUE" /\ task[c].invoice \in Invoices
  BY DEF TakeNumber, SeriesFree, Doing, BInv, BillingTypeOK, TasksFit
<1>2. /\ task'[c].kind = "ISSUE" /\ task'[c].invoice = task[c].invoice
      /\ task'[c].stage = "NUMBERED" /\ task'[c].amount = nextNumber
  <2>1. task[c] \in Task
    BY <1>1 DEF BInv, BillingTypeOK
  <2>2. task'[c] = [[task[c] EXCEPT !.stage = "NUMBERED"] EXCEPT !.amount = nextNumber]
    BY DEF TakeNumber, BInv, BillingTypeOK
  <2> QED
    BY <1>1, <2>1, <2>2 DEF Task
<1>3. TasksFit' /\ OneDrafter'
  BY <1>1, <1>2 DEF BInv, TasksFit, OneDrafter, Is, Numbered
<1>4. SeriesIsLocked'
  BY <1>1, <1>2 DEF SeriesIsLocked, Doing
<1>5. NumbersAreGapless'
  BY <1>1 DEF BInv, NumbersAreGapless, Numbered
<1> QED
  BY <1>3, <1>4, <1>5 DEF BInv

(* What the other commits do to the invoices, and to their requests.       *)
Commits(c) ==
    \/ CommitBill(c) \/ CommitHeader(c) \/ Retax(c) \/ CommitTaxes(c) \/ CommitRemove(c)
    \/ CommitCancel(c) \/ CommitWriteOff(c) \/ CommitOpening(c) \/ Drop(c)

LEMMA CommitsMoveTheirOwn ==
    ASSUME BInv, NEW c \in Clerks, Commits(c)
    PROVE  /\ task[c] # NoTask
           /\ nextNumber' = nextNumber
           /\ \A d \in Clerks \ {c} : task'[d] = task[d]
           /\ \/ task'[c] = NoTask
              \/ /\ task[c].kind = "UPDATE" /\ task'[c].kind = "UPDATE"
                 /\ task'[c].invoice = task[c].invoice
<1>1. task[c] # NoTask /\ task[c] \in Task
  BY DEF Commits, CommitBill, CommitHeader, Retax, CommitTaxes, CommitRemove, CommitCancel,
         CommitWriteOff, CommitOpening, Drop, Doing, BInv, BillingTypeOK
<1>2. /\ nextNumber' = nextNumber
      /\ \A d \in Clerks \ {c} : task'[d] = task[d]
  BY DEF Commits, CommitBill, CommitHeader, Retax, CommitTaxes, CommitRemove, CommitCancel,
         CommitWriteOff, CommitOpening, Drop, Done, Becomes, BInv, BillingTypeOK
<1>3. CASE CommitHeader(c)
  <2>1. task[c].kind = "UPDATE"
    BY <1>3 DEF CommitHeader, Doing
  <2>2. \/ task'[c] = NoTask
        \/ task'[c] = [task[c] EXCEPT !.stage = "HEADER_WRITTEN"]
    BY <1>3 DEF CommitHeader, Becomes, Done, BInv, BillingTypeOK
  <2> QED
    BY <1>1, <1>2, <2>1, <2>2 DEF Task
<1>4. CASE Retax(c)
  <2>1. /\ task[c].kind = "UPDATE"
        /\ task'[c] = [[task[c] EXCEPT !.stage = "RETAXED"]
                           EXCEPT !.seen = invoices[task[c].invoice].place]
    BY <1>4 DEF Retax, Doing, BInv, BillingTypeOK
  <2> QED
    BY <1>1, <1>2, <2>1 DEF Task
<1>5. CASE ~CommitHeader(c) /\ ~Retax(c)
  <2>1. task'[c] = NoTask
    BY <1>5 DEF Commits, CommitBill, CommitTaxes, CommitRemove, CommitCancel,
         CommitWriteOff, CommitOpening, Drop, Done, BInv, BillingTypeOK
  <2> QED
    BY <1>1, <1>2, <2>1
<1> QED
  BY <1>3, <1>4, <1>5

(* A numbered invoice stands; only its status may still change.            *)
Stands(i) ==
    Numbered(i) => /\ Numbered(i)'
                   /\ invoices'[i] = [invoices[i] EXCEPT !.status = invoices'[i].status]

LEMMA UnchangedStands ==
    ASSUME BillingTypeOK, NEW i \in Invoices, invoices'[i] = invoices[i]
    PROVE  Stands(i) /\ (Numbered(i)' <=> Numbered(i)) /\ (Is(i, "NONE")' <=> Is(i, "NONE"))
<1>1. invoices[i] \in Invoice
  BY DEF BillingTypeOK
<1>2. invoices[i] = [invoices[i] EXCEPT !.status = invoices[i].status]
  BY <1>1 DEF Invoice
<1> QED
  BY <1>2 DEF Stands, Numbered, Is

LEMMA CommitsLeaveTheSeries ==
    ASSUME BInv, NEW c \in Clerks, Commits(c), NEW i \in Invoices
    PROVE  /\ Stands(i)
           /\ Numbered(i)' <=> Numbered(i)
           /\ Numbered(i) => invoices'[i].number = invoices[i].number
           /\ Is(i, "NONE") => \/ Is(i, "NONE")'
                               \/ /\ task[c].kind = "BILL" /\ task[c].invoice = i
                                  /\ task'[c] = NoTask
<1>1. invoices[i] \in Invoice
  BY DEF BInv, BillingTypeOK
<1>2. CASE invoices'[i] = invoices[i]
  BY <1>2, UnchangedStands DEF BInv
<1>3. ASSUME CommitBill(c), invoices'[i] # invoices[i]
      PROVE  /\ task[c].kind = "BILL" /\ task[c].invoice = i /\ task'[c] = NoTask
             /\ ~Numbered(i) /\ ~Numbered(i)'
  <2>1. /\ task[c].kind = "BILL" /\ task[c].invoice \in Invoices
        /\ Is(task[c].invoice, "NONE")
        /\ task'[c] = NoTask
    BY <1>3 DEF CommitBill, Doing, Done, BInv, TasksFit, BillingTypeOK
  <2>2. invoices' = [invoices EXCEPT ![task[c].invoice] =
            [[invoices[task[c].invoice] EXCEPT !.status = "DRAFT"]
                 EXCEPT !.quantity = task[c].amount]]
    BY <1>3 DEF CommitBill
  <2>3. task[c].invoice = i
    BY <1>3, <2>2 DEF BInv, BillingTypeOK
  <2>4. invoices'[i].status = "DRAFT"
    BY <1>1, <2>2, <2>3 DEF BInv, BillingTypeOK, Invoice
  <2> QED
    BY <2>1, <2>3, <2>4 DEF Numbered, Is
<1>4. ASSUME CommitHeader(c) \/ CommitTaxes(c) \/ CommitRemove(c), invoices'[i] # invoices[i]
      PROVE  Is(i, "DRAFT") /\ invoices'[i].status \in {"DRAFT", "REMOVED"}
  <2>1. task[c].invoice \in Invoices
    BY <1>4 DEF CommitHeader, CommitTaxes, CommitRemove, Doing, BInv, TasksFit
  <2>2. task[c].invoice = i
    BY <1>4, <2>1 DEF CommitHeader, CommitTaxes, CommitRemove, BInv, BillingTypeOK
  <2>3. \/ invoices'[i] = [invoices[i] EXCEPT !.place = task[c].place]
        \/ invoices'[i] = [invoices[i] EXCEPT !.split = task[c].seen]
        \/ invoices'[i] = [invoices[i] EXCEPT !.status = "REMOVED"]
    BY <1>4, <2>2 DEF CommitHeader, CommitTaxes, CommitRemove, BInv, BillingTypeOK
  <2>4. Is(i, "DRAFT")
    <3>1. CASE CommitHeader(c)
      <4>1. invoices'[i] = [invoices[i] EXCEPT !.place = task[c].place]
        BY <2>2, <3>1 DEF CommitHeader, BInv, BillingTypeOK
      <4>2. invoices[i].place = task[c].place => invoices'[i] = invoices[i]
        BY <1>1, <4>1 DEF Invoice
      <4> QED
        BY <1>4, <2>2, <3>1, <4>2 DEF CommitHeader
    <3>2. CASE CommitTaxes(c) \/ CommitRemove(c)
      BY <2>2, <3>2 DEF CommitTaxes, CommitRemove, LinesWritable
    <3> QED
      BY <1>4, <3>1, <3>2
  <2> QED
    BY <1>1, <2>3, <2>4 DEF Invoice, Is
<1>5. ASSUME CommitCancel(c), invoices'[i] # invoices[i]
      PROVE  /\ Numbered(i) /\ Numbered(i)'
             /\ invoices'[i] = [invoices[i] EXCEPT !.status = "CANCELLED"]
  <2>1. task[c].invoice \in Invoices /\ Numbered(task[c].invoice)
    BY <1>5 DEF CommitCancel, Doing, BInv, TasksFit
  <2>2. task[c].invoice = i
    BY <1>5, <2>1 DEF CommitCancel, BInv, BillingTypeOK
  <2>3. invoices'[i] = [invoices[i] EXCEPT !.status = "CANCELLED"]
    BY <1>5, <2>2 DEF CommitCancel, BInv, BillingTypeOK
  <2> QED
    BY <1>1, <2>1, <2>2, <2>3 DEF Numbered, Invoice
<1>6. CASE Retax(c) \/ CommitWriteOff(c) \/ CommitOpening(c) \/ Drop(c)
  <2>1. invoices' = invoices
    BY <1>6 DEF Retax, CommitWriteOff, CommitOpening, Drop
  <2> QED
    BY <1>2, <2>1
<1>7. CASE CommitBill(c) /\ invoices'[i] # invoices[i]
  BY <1>3, <1>7 DEF Stands
<1>8. CASE (CommitHeader(c) \/ CommitTaxes(c) \/ CommitRemove(c)) /\ invoices'[i] # invoices[i]
  BY <1>4, <1>8 DEF Stands, Numbered, Is
<1>9. CASE CommitCancel(c) /\ invoices'[i] # invoices[i]
  <2>1. invoices'[i].status = "CANCELLED" /\ invoices'[i].number = invoices[i].number
    BY <1>1, <1>5, <1>9 DEF Invoice
  <2> QED
    BY <1>5, <1>9, <2>1 DEF Stands, Numbered, Is
<1> QED
  BY <1>2, <1>6, <1>7, <1>8, <1>9 DEF Commits

LEMMA BInvInductive == BInv /\ [BillingNext]_billingVars => BInv'
<1> SUFFICES ASSUME BInv, [BillingNext]_billingVars PROVE BInv'
  OBVIOUS
<1>t. BillingTypeOK'
  BY TypesKept DEF BInv
<1>1. ASSUME NEW c \in Clerks, NEW i \in Invoices,
             \/ \E wanted \in 1..Ordered : LoadBill(c, i, wanted)
             \/ \E place \in Places : LoadUpdate(c, i, place)
             \/ LoadRemove(c, i) \/ LoadIssue(c, i) \/ LoadCancel(c, i)
      PROVE  BInv'
  <2>1. /\ {"BILL", "UPDATE", "REMOVE", "ISSUE", "CANCEL"} \subseteq Kinds
        /\ "INTRA" \in Places /\ i \in Invoices \cup {NoFigures}
        /\ invoices[i].place \in Places /\ invoices[i].split \in Places
        /\ invoices[i].quantity \in Nat /\ 0 \in Nat
        /\ 1..Ordered \subseteq Nat /\ 1..Ordered \subseteq 0..Ordered
    BY BillingAssumption DEF Invoice, Kinds, Places, BInv, BillingTypeOK
  <2>2. ASSUME NEW wanted \in 1..Ordered, LoadBill(c, i, wanted) PROVE BInv'
    <3>1. /\ Load(c, "BILL", i, wanted, "INTRA", "INTRA") /\ Is(i, "NONE")
          /\ \A d \in Clerks : task[d] # NoTask => task[d].invoice # i
      BY <2>2 DEF LoadBill
    <3> QED
      BY <1>t, <2>1, <3>1, LoadKeepsInvariant
  <2>3. ASSUME NEW place \in Places, Load(c, "UPDATE", i, 0, place, invoices[i].place)
        PROVE  BInv'
    BY <1>t, <2>1, <2>3, LoadKeepsInvariant
  <2>4. CASE Load(c, "REMOVE", i, 0, "INTRA", "INTRA")
    BY <1>t, <2>1, <2>4, LoadKeepsInvariant
  <2>5. CASE Load(c, "ISSUE", i, invoices[i].quantity, invoices[i].place, invoices[i].split)
    BY <1>t, <2>1, <2>5, LoadKeepsInvariant
  <2>6. CASE Load(c, "CANCEL", i, 0, "INTRA", "INTRA") /\ Is(i, "ISSUED")
    <3>1. Numbered(i)
      BY <2>6 DEF Is, Numbered
    <3> QED
      BY <1>t, <2>1, <2>6, <3>1, LoadKeepsInvariant
  <2> QED
    BY <1>1, <2>2, <2>3, <2>4, <2>5, <2>6
    DEF LoadUpdate, LoadRemove, LoadIssue, LoadCancel
<1>2. ASSUME NEW c \in Clerks, CountsOrWritesOff(c) PROVE BInv'
  <2>1. /\ {"WRITE_OFF", "OPENING"} \subseteq Kinds /\ "INTRA" \in Places
        /\ NoFigures \in Invoices \cup {NoFigures} /\ 1 \in Nat
        /\ 1..MaxWrittenOff \subseteq Nat
    BY BillingAssumption DEF Kinds, Places
  <2>2. \/ \E amount \in 1..MaxWrittenOff :
               Load(c, "WRITE_OFF", NoFigures, amount, "INTRA", "INTRA")
        \/ Load(c, "OPENING", NoFigures, 1, "INTRA", "INTRA")
    BY <1>2 DEF CountsOrWritesOff, LoadWriteOff, CountOpenings
  <2> QED
    BY <1>t, <2>1, <2>2, LoadKeepsInvariant
<1>3. ASSUME NEW c \in Clerks, Commits(c) PROVE BInv'
  BY <1>t, <1>3, CommitsMoveTheirOwn, CommitsLeaveTheSeries, CommitKeepsInvariant
<1>4. CASE UNCHANGED billingVars
  BY <1>t, <1>4 DEF billingVars, BInv, TasksFit, OneDrafter, SeriesIsLocked,
     NumbersAreGapless, Numbered, Is, Doing
<1> QED
  BY <1>t, <1>1, <1>2, <1>3, <1>4, IssueKeepsInvariant, TakeNumberKeepsInvariant
  DEF BillingNext, DraftStep, IssueStep, LedgerStep, CountsOrWritesOff, Commits

LEMMA BInvHolds == BillingSpec => []BInv
<1>1. BillingInit => BInv
  <2> SUFFICES ASSUME BillingInit PROVE BInv
    OBVIOUS
  <2>1. BillingTypeOK
    <3>1. 0 \in 0..Ordered /\ 0 \in 0..MaxWrittenOff
      BY BillingAssumption
    <3>2. invoices \in [Invoices -> Invoice]
      BY <3>1 DEF BillingInit, Invoice, Places
    <3> QED
      BY <3>1, <3>2 DEF BillingInit, BillingTypeOK
  <2> QED
    BY <2>1 DEF BillingInit, BInv, TasksFit, OneDrafter, SeriesIsLocked,
       NumbersAreGapless, Numbered, Doing
<1> QED
  BY <1>1, BInvInductive, PTL DEF BillingSpec

-----------------------------------------------------------------------------
(* Type correctness of invoices, series, ledger and requests.              *)
THEOREM TypeCorrectness == BillingSpec => []BillingTypeOK
<1>1. BInv => BillingTypeOK
  BY DEF BInv
<1> QED
  BY <1>1, BInvHolds, PTL

(* The statutory series has no gap and no duplicate, whatever rolls back.  *)
THEOREM SeriesIsGapless == BillingSpec => []NumbersAreGapless
<1>1. BInv => NumbersAreGapless
  BY DEF BInv
<1> QED
  BY <1>1, BInvHolds, PTL

(* An issued invoice keeps its number, its figures and its place for ever. *)
THEOREM IssuedIsFrozen == BillingSpec => IssuedStands
<1>1. ASSUME BInv, [BillingNext]_billingVars PROVE \A i \in Invoices : Stands(i)
  <2> SUFFICES ASSUME NEW i \in Invoices PROVE Stands(i)
    OBVIOUS
  <2>1. CASE invoices' = invoices
    BY <1>1, <2>1, UnchangedStands DEF BInv
  <2>2. ASSUME NEW c \in Clerks, Commits(c) PROVE Stands(i)
    BY <1>1, <2>2, CommitsLeaveTheSeries
  <2>3. ASSUME NEW c \in Clerks, CommitIssue(c) PROVE Stands(i)
    <3>1. task[c].invoice \in Invoices /\ Is(task[c].invoice, "DRAFT")
      BY <1>1, <2>3 DEF CommitIssue, Doing, BInv, TasksFit
    <3>2. CASE task[c].invoice = i
      BY <3>1, <3>2 DEF Stands, Numbered, Is
    <3>3. CASE task[c].invoice # i
      <4>1. invoices'[i] = invoices[i]
        BY <1>1, <2>3, <3>1, <3>3 DEF CommitIssue, BInv, BillingTypeOK
      <4> QED
        BY <1>1, <4>1, UnchangedStands DEF BInv
    <3> QED
      BY <3>2, <3>3
  <2>4. ASSUME NEW c \in Clerks,
               \/ \E j \in Invoices :
                      \/ \E wanted \in 1..Ordered : LoadBill(c, j, wanted)
                      \/ \E place \in Places : LoadUpdate(c, j, place)
                      \/ LoadRemove(c, j) \/ LoadIssue(c, j) \/ LoadCancel(c, j)
               \/ CountsOrWritesOff(c) \/ TakeNumber(c)
        PROVE  invoices' = invoices
    BY <2>4 DEF LoadBill, LoadUpdate, LoadRemove, LoadIssue, LoadCancel, CountsOrWritesOff,
                LoadWriteOff, CountOpenings, TakeNumber, Load
  <2>5. CASE UNCHANGED billingVars
    BY <2>1, <2>5 DEF billingVars
  <2> QED
    BY <1>1, <2>1, <2>2, <2>3, <2>4, <2>5
    DEF BillingNext, DraftStep, IssueStep, LedgerStep, CountsOrWritesOff, Commits
<1>2. BInv /\ [BillingNext]_billingVars =>
          [\A i \in Invoices : Numbered(i) =>
               /\ Numbered(i)'
               /\ invoices'[i] = [invoices[i] EXCEPT !.status = invoices'[i].status]]_billingVars
  BY <1>1 DEF Stands
<1> QED
  BY <1>2, BInvHolds, PTL DEF BillingSpec, IssuedStands

AtWork(c) == task[c] # NoTask
Even(i)   == invoices[i].place = invoices[i].split
Retaxing(i) ==
    \E c \in Clerks : AtWork(c) /\ task[c].invoice = i
                      /\ task[c].stage \in {"HEADER_WRITTEN", "RETAXED"}

(* Overlapping requests are noted: on their invoice, and as a pair.        *)
OverlapsAreNoted ==
    \A c, d \in Clerks : c # d /\ AtWork(c) /\ AtWork(d) =>
        /\ task[c].invoice = task[d].invoice /\ task[c].invoice \in Invoices
               => task[c].invoice \in contested
        /\ {task[c].kind, task[d].kind} \in Clashes => {task[c].kind, task[d].kind} \in clashed

(* Nothing is posted before an invoice is numbered.                        *)
FiguresFollow ==
    \A i \in Invoices :
        /\ ~Numbered(i) => entry[i] = NoFigures /\ contras[i] = 0
        /\ Is(i, "NONE") => invoices[i].quantity = 0

(* What was read of an invoice is still so, unless another request came.   *)
ReadingsHold ==
    \A c \in Clerks : AtWork(c) => \A i \in Invoices \ contested : task[c].invoice = i =>
        /\ task[c].kind = "UPDATE" =>
               /\ Is(i, "DRAFT")
               /\ task[c].stage = "LOADED" => task[c].seen = invoices[i].place /\ Even(i)
               /\ task[c].stage = "RETAXED" => task[c].seen = invoices[i].place
        /\ task[c].kind = "ISSUE" => task[c].seen = invoices[i].split /\ Even(i)
        /\ task[c].kind = "CANCEL" => Is(i, "ISSUED")

WholeOrInHand ==
    \A i \in Invoices \ contested :
        /\ Even(i) \/ Retaxing(i)
        /\ Numbered(i) => /\ entry[i] = FiguresOf(i)
                          /\ contras[i] = IF Is(i, "CANCELLED") THEN 1 ELSE 0

(* The one draft under way, the write-offs and the opening under way are   *)
(* within what is left.                                                    *)
RemaindersHold ==
    /\ {"BILL"} \notin clashed =>
           /\ Billed <= Ordered
           /\ \A c \in Clerks : AtWork(c) /\ task[c].kind = "BILL"
                                    => Billed + task[c].amount <= Ordered
    /\ clashed \cap {{"WRITE_OFF"}, {"WRITE_OFF", "CANCEL"}} = {} =>
           \A c \in Clerks : AtWork(c) /\ task[c].kind = "WRITE_OFF" => task[c].amount <= Balance
    /\ {"OPENING"} \notin clashed =>
           /\ openings <= 1
           /\ \A c \in Clerks : AtWork(c) /\ task[c].kind = "OPENING"
                                    => openings = 0 /\ task[c].amount = 1

BillingStands ==
    /\ OverlapsAreNoted
    /\ FiguresFollow
    /\ ReadingsHold
    /\ WholeOrInHand
    /\ RemaindersHold

-----------------------------------------------------------------------------
(* What an invoice adds to what is billed, and to the balance.             *)
Counted(rows, i) == IF rows[i].status \in {"DRAFT", "ISSUED"} THEN rows[i].quantity ELSE 0
Owing(debits, credits, i) ==
    IF debits[i] # NoFigures THEN debits[i].quantity * (1 - credits[i]) ELSE 0

(* What is billed, as a sum over all invoices.                             *)
LEMMA BilledOf ==
    ASSUME NEW rows \in [Invoices -> Invoice]
    PROVE  SumFunction([i \in {i \in Invoices : rows[i].status = "DRAFT" \/ rows[i].status = "ISSUED"} |->
                            rows[i].quantity])
               = SumFunctionOnSet([i \in Invoices |-> Counted(rows, i)], Invoices)
<1> DEFINE R == {i \in Invoices : rows[i].status = "DRAFT" \/ rows[i].status = "ISSUED"}
           f == [i \in R |-> rows[i].quantity]
           g == [i \in Invoices |-> Counted(rows, i)]
<1>1. IsFiniteSet(Invoices) /\ R \in SUBSET Invoices
  BY BillingAssumption
<1>2. \A i \in R : f[i] \in Int
  BY BillingAssumption DEF Invoice
<1>3. \A i \in Invoices : g[i] = IF i \in R THEN f[i] ELSE 0
  BY DEF Counted
<1>4. DOMAIN f = R
  OBVIOUS
<1> HIDE DEF R, f, g
<1>5. SumFunctionOnSet(f, R) = SumFunctionOnSet(g, Invoices)
  BY <1>1, <1>2, <1>3, SumOfSupport
<1>6. SumFunction(f) = SumFunctionOnSet(g, Invoices)
  BY <1>4, <1>5 DEF SumFunction
<1> QED
  BY <1>6 DEF R, f, g

(* A change of one invoice changes what is billed by as much.              *)
LEMMA BilledMoves ==
    ASSUME BillingTypeOK, BillingTypeOK', NEW i \in Invoices,
           \A j \in Invoices \ {i} : invoices'[j] = invoices[j]
    PROVE  /\ Billed' = Billed - Counted(invoices, i) + Counted(invoices', i)
           /\ Billed \in Int /\ Billed' \in Int
<1> DEFINE f == [j \in Invoices |-> Counted(invoices, j)]
           g == [j \in Invoices |-> Counted(invoices', j)]
<1>1. invoices \in [Invoices -> Invoice] /\ invoices' \in [Invoices -> Invoice]
  BY DEF BillingTypeOK
<1>2. Billed = SumFunctionOnSet(f, Invoices)
  BY <1>1, BilledOf DEF Billed, Is
<1>3. Billed' = SumFunctionOnSet(g, Invoices)
  BY <1>1, BilledOf DEF Billed, Is
<1>4. \A j \in Invoices : f[j] \in Int /\ g[j] \in Int
  BY <1>1, BillingAssumption DEF Invoice, Counted
<1>5. \A j \in Invoices \ {i} : g[j] = f[j]
  BY DEF Counted
<1>6. f[i] = Counted(invoices, i) /\ g[i] = Counted(invoices', i)
  OBVIOUS
<1>7. IsFiniteSet(Invoices)
  BY BillingAssumption
<1> HIDE DEF f, g
<1>8. SumFunctionOnSet(g, Invoices) = SumFunctionOnSet(f, Invoices) - f[i] + g[i]
  BY <1>4, <1>5, <1>7, SumUpdate
<1>9. SumFunctionOnSet(f, Invoices) \in Int
  BY <1>4, <1>7, SumIsInt
<1>10. f[i] \in Int /\ g[i] \in Int
  BY <1>4
<1> QED
  BY <1>2, <1>3, <1>6, <1>8, <1>9, <1>10

(* What an invoice adds to the balance is an integer.                      *)
LEMMA OwingIsInt ==
    ASSUME NEW debits \in [Invoices -> Figures \cup {NoFigures}],
           NEW credits \in [Invoices -> Nat], NEW i \in Invoices
    PROVE  Owing(debits, credits, i) \in Int
<1>1. CASE debits[i] = NoFigures
  BY <1>1 DEF Owing
<1>2. CASE debits[i] # NoFigures
  <2>1. debits[i].quantity \in Int /\ 1 - credits[i] \in Int
    BY <1>2, BillingAssumption DEF Figures
  <2>2. \A a, b \in Int : a * b \in Int
    OBVIOUS
  <2> QED
    BY <1>2, <2>1, <2>2 DEF Owing
<1> QED
  BY <1>1, <1>2

(* The debits less the credits, as a sum over all invoices.                *)
LEMMA DebtsOf ==
    ASSUME NEW debits \in [Invoices -> Figures \cup {NoFigures}],
           NEW credits \in [Invoices -> Nat]
    PROVE  SumFunction([i \in {i \in Invoices : debits[i] # NoFigures} |->
                            debits[i].quantity * (1 - credits[i])])
               = SumFunctionOnSet([i \in Invoices |-> Owing(debits, credits, i)], Invoices)
<1> DEFINE R == {i \in Invoices : debits[i] # NoFigures}
           f == [i \in R |-> debits[i].quantity * (1 - credits[i])]
           g == [i \in Invoices |-> Owing(debits, credits, i)]
<1>1. IsFiniteSet(Invoices) /\ R \in SUBSET Invoices
  BY BillingAssumption
<1>2. \A i \in R : f[i] = Owing(debits, credits, i)
  BY DEF Owing
<1>3. \A i \in R : f[i] \in Int
  BY <1>1, <1>2, OwingIsInt
<1>4. \A i \in Invoices : g[i] = IF i \in R THEN f[i] ELSE 0
  BY <1>2 DEF Owing
<1>5. DOMAIN f = R
  OBVIOUS
<1> HIDE DEF R, f, g
<1>6. SumFunctionOnSet(f, R) = SumFunctionOnSet(g, Invoices)
  BY <1>1, <1>3, <1>4, SumOfSupport
<1>7. SumFunction(f) = SumFunctionOnSet(g, Invoices)
  BY <1>5, <1>6 DEF SumFunction
<1> QED
  BY <1>7 DEF R, f, g

(* A change of one invoice's figures changes the balance by as much.       *)
LEMMA BalanceMoves ==
    ASSUME BillingTypeOK, BillingTypeOK', NEW i \in Invoices,
           \A j \in Invoices \ {i} : entry'[j] = entry[j] /\ contras'[j] = contras[j]
    PROVE  /\ Balance' = Balance - Owing(entry, contras, i) + Owing(entry', contras', i)
                             + (openings' - openings) - (writtenOff' - writtenOff)
           /\ Balance \in Int /\ Balance' \in Int
<1> DEFINE f == [j \in Invoices |-> Owing(entry, contras, j)]
           g == [j \in Invoices |-> Owing(entry', contras', j)]
<1>1. /\ entry \in [Invoices -> Figures \cup {NoFigures}] /\ contras \in [Invoices -> Nat]
      /\ entry' \in [Invoices -> Figures \cup {NoFigures}] /\ contras' \in [Invoices -> Nat]
      /\ openings \in Int /\ openings' \in Int /\ writtenOff \in Int /\ writtenOff' \in Int
  BY BillingAssumption DEF BillingTypeOK
<1>2. Balance = SumFunctionOnSet(f, Invoices) + openings - writtenOff
  BY <1>1, DebtsOf DEF Balance
<1>3. Balance' = SumFunctionOnSet(g, Invoices) + openings' - writtenOff'
  BY <1>1, DebtsOf DEF Balance
<1>4. \A j \in Invoices : f[j] \in Int /\ g[j] \in Int
  BY <1>1, OwingIsInt
<1>5. \A j \in Invoices \ {i} : g[j] = f[j]
  BY DEF Owing
<1>6. f[i] = Owing(entry, contras, i) /\ g[i] = Owing(entry', contras', i)
  OBVIOUS
<1>7. IsFiniteSet(Invoices)
  BY BillingAssumption
<1> HIDE DEF f, g
<1>8. SumFunctionOnSet(g, Invoices) = SumFunctionOnSet(f, Invoices) - f[i] + g[i]
  BY <1>4, <1>5, <1>7, SumUpdate
<1>9. SumFunctionOnSet(f, Invoices) \in Int
  BY <1>4, <1>7, SumIsInt
<1> DEFINE a == SumFunctionOnSet(f, Invoices)
<1>10. a \in Int /\ f[i] \in Int /\ g[i] \in Int
  BY <1>4, <1>9
<1>11. Balance = a + openings - writtenOff /\ Balance' = (a - f[i] + g[i]) + openings' - writtenOff'
  BY <1>2, <1>3, <1>8
<1> HIDE DEF a
<1>12. Balance \in Int /\ Balance' \in Int /\ Balance' = Balance - f[i] + g[i] + (openings' - openings) - (writtenOff' - writtenOff)
  BY <1>1, <1>10, <1>11
<1> QED
  BY <1>6, <1>12

-----------------------------------------------------------------------------
(* A request that is loaded within what remains, and notes whom it         *)
(* overlaps.                                                               *)
LEMMA LoadStands ==
    ASSUME BInv, BillingStands, NEW c \in Clerks, NEW kind \in Kinds,
           NEW i \in Invoices \cup {NoFigures}, NEW amount, NEW place, NEW seen,
           Load(c, kind, i, amount, place, seen),
           kind = "UPDATE" => Is(i, "DRAFT") /\ seen = invoices[i].place,
           kind = "ISSUE"  => seen = invoices[i].split,
           kind = "CANCEL" => Is(i, "ISSUED"),
           kind = "BILL"   => Billed + amount <= Ordered,
           kind = "WRITE_OFF" => amount <= Balance,
           kind = "OPENING"   => openings = 0 /\ amount = 1
    PROVE  BillingStands'
<1>1. /\ UNCHANGED <<invoices, nextNumber, entry, contras, writtenOff, openings>>
      /\ task[c] = NoTask
      /\ \A d \in Clerks \ {c} : task'[d] = task[d]
      /\ task'[c] = [kind |-> kind, stage |-> "LOADED", invoice |-> i,
                     amount |-> amount, place |-> place, seen |-> seen]
      /\ contested \subseteq contested' /\ clashed \subseteq clashed'
  BY DEF Load, BInv, BillingTypeOK, figureVars
<1>2. ASSUME NEW d \in Clerks \ {c}, AtWork(d)
      PROVE  /\ task[d].invoice = i /\ i \in Invoices => i \in contested'
             /\ {kind, task[d].kind} \in Clashes => {kind, task[d].kind} \in clashed'
  <2>1. task[d] \in {task[e] : e \in {e \in Clerks : task[e] # NoTask}}
    BY <1>2 DEF AtWork
  <2> QED
    BY <2>1 DEF Load
<1>3. OverlapsAreNoted'
  <2> SUFFICES ASSUME NEW d \in Clerks, NEW e \in Clerks, d # e, AtWork(d)', AtWork(e)'
               PROVE  /\ task'[d].invoice = task'[e].invoice /\ task'[d].invoice \in Invoices
                             => task'[d].invoice \in contested'
                      /\ {task'[d].kind, task'[e].kind} \in Clashes
                             => {task'[d].kind, task'[e].kind} \in clashed'
    BY DEF OverlapsAreNoted
  <2>1. CASE d # c /\ e # c
    <3>1. AtWork(d) /\ AtWork(e) /\ task'[d] = task[d] /\ task'[e] = task[e]
      BY <1>1, <2>1 DEF AtWork
    <3> QED
      BY <1>1, <3>1 DEF BillingStands, OverlapsAreNoted
  <2>2. CASE d = c
    <3>1. AtWork(e) /\ task'[e] = task[e] /\ e \in Clerks \ {c}
      BY <1>1, <2>2 DEF AtWork
    <3> QED
      BY <1>1, <1>2, <2>2, <3>1
  <2>3. CASE e = c
    <3>1. AtWork(d) /\ task'[d] = task[d] /\ d \in Clerks \ {c}
      BY <1>1, <2>3 DEF AtWork
    <3>2. {task'[d].kind, task'[e].kind} = {task'[e].kind, task'[d].kind}
      OBVIOUS
    <3> QED
      BY <1>1, <1>2, <2>3, <3>1, <3>2
  <2> QED
    BY <2>1, <2>2, <2>3
<1>4. FiguresFollow'
  BY <1>1 DEF BillingStands, FiguresFollow, Numbered, Is
<1>5. ASSUME NEW j \in Invoices \ contested', j = i PROVE Even(j)
  <2>1. ~Retaxing(j)
    BY <1>1, <1>2, <1>5 DEF Retaxing, AtWork
  <2> QED
    BY <1>1, <1>5, <2>1 DEF BillingStands, WholeOrInHand
<1>6. ReadingsHold'
  <2> SUFFICES ASSUME NEW d \in Clerks, AtWork(d)', NEW j \in Invoices \ contested', task'[d].invoice = j
               PROVE  /\ task'[d].kind = "UPDATE" =>
                             /\ Is(j, "DRAFT")'
                             /\ task'[d].stage = "LOADED" => task'[d].seen = invoices'[j].place /\ Even(j)'
                             /\ task'[d].stage = "RETAXED" => task'[d].seen = invoices'[j].place
                      /\ task'[d].kind = "ISSUE" => task'[d].seen = invoices'[j].split /\ Even(j)'
                      /\ task'[d].kind = "CANCEL" => Is(j, "ISSUED")'
    BY DEF ReadingsHold
  <2>1. CASE d = c
    BY <1>1, <1>5, <2>1 DEF Is, Even
  <2>2. CASE d # c
    <3>1. AtWork(d) /\ task'[d] = task[d] /\ j \in Invoices \ contested
      BY <1>1, <2>2 DEF AtWork
    <3> QED
      BY <1>1, <3>1 DEF BillingStands, ReadingsHold, Is, Even
  <2> QED
    BY <2>1, <2>2
<1>7. WholeOrInHand'
  <2> SUFFICES ASSUME NEW j \in Invoices \ contested'
               PROVE  /\ Even(j)' \/ Retaxing(j)'
                      /\ Numbered(j)' => /\ entry'[j] = FiguresOf(j)'
                                         /\ contras'[j] = IF Is(j, "CANCELLED")' THEN 1 ELSE 0
    BY DEF WholeOrInHand
  <2>1. j \in Invoices \ contested
    BY <1>1
  <2>2. Retaxing(j) => Retaxing(j)'
    BY <1>1 DEF Retaxing, AtWork
  <2> QED
    BY <1>1, <2>1, <2>2 DEF BillingStands, WholeOrInHand, Even, Numbered, Is, FiguresOf
<1>8. Billed' = Billed /\ Balance' = Balance
  BY <1>1 DEF Billed, Balance, Is
<1>9. RemaindersHold'
  <2>1. ASSUME {"BILL"} \notin clashed'
        PROVE  /\ Billed' <= Ordered
               /\ \A d \in Clerks : AtWork(d)' /\ task'[d].kind = "BILL"
                                        => Billed' + task'[d].amount <= Ordered
    BY <1>1, <1>8, <2>1 DEF BillingStands, RemaindersHold, AtWork
  <2>2. ASSUME clashed' \cap {{"WRITE_OFF"}, {"WRITE_OFF", "CANCEL"}} = {},
               NEW d \in Clerks, AtWork(d)', task'[d].kind = "WRITE_OFF"
        PROVE  task'[d].amount <= Balance'
    <3>1. clashed \cap {{"WRITE_OFF"}, {"WRITE_OFF", "CANCEL"}} = {}
      BY <1>1, <2>2
    <3> QED
      BY <1>1, <1>8, <2>2, <3>1 DEF BillingStands, RemaindersHold, AtWork
  <2>3. ASSUME {"OPENING"} \notin clashed'
        PROVE  /\ openings' <= 1
               /\ \A d \in Clerks : AtWork(d)' /\ task'[d].kind = "OPENING"
                                        => openings' = 0 /\ task'[d].amount = 1
    BY <1>1, <2>3 DEF BillingStands, RemaindersHold, AtWork
  <2> QED
    BY <2>1, <2>2, <2>3 DEF RemaindersHold
<1> QED
  BY <1>3, <1>4, <1>6, <1>7, <1>9 DEF BillingStands

(* A commit touches the invoice of its request only; whoever else is at    *)
(* work on that invoice has been noted.                                    *)
LEMMA OwnInvoiceOnly ==
    ASSUME BInv, BillingStands, NEW c \in Clerks, AtWork(c), NEW i, i = task[c].invoice,
           \A d \in Clerks \ {c} : task'[d] = task[d],
           contested \subseteq contested', clashed' = clashed,
           \A j \in Invoices \ {i} :
               invoices'[j] = invoices[j] /\ entry'[j] = entry[j] /\ contras'[j] = contras[j],
           i \in Invoices =>
               /\ ~Numbered(i)' => entry'[i] = NoFigures /\ contras'[i] = 0
               /\ Is(i, "NONE")' => invoices'[i].quantity = 0,
           i \in Invoices \ contested' =>
               /\ Even(i)' \/ Retaxing(i)'
               /\ Numbered(i)' => /\ entry'[i] = FiguresOf(i)'
                                  /\ contras'[i] = IF Is(i, "CANCELLED")' THEN 1 ELSE 0,
           \/ task'[c] = NoTask
           \/ /\ task[c].kind = "UPDATE" /\ task'[c].kind = "UPDATE" /\ task'[c].invoice = i
              /\ i \in Invoices \ contested' =>
                     /\ Is(i, "DRAFT")' /\ task'[c].stage # "LOADED"
                     /\ task'[c].stage = "RETAXED" => task'[c].seen = invoices'[i].place
    PROVE  OverlapsAreNoted' /\ FiguresFollow' /\ ReadingsHold' /\ WholeOrInHand'
<1>1. OverlapsAreNoted'
  BY DEF BillingStands, OverlapsAreNoted, AtWork
<1>2. FiguresFollow'
  BY DEF BillingStands, FiguresFollow, Numbered, Is
<1>3. ReadingsHold'
  <2> SUFFICES ASSUME NEW d \in Clerks, AtWork(d)', NEW j \in Invoices \ contested', task'[d].invoice = j
               PROVE  /\ task'[d].kind = "UPDATE" =>
                             /\ Is(j, "DRAFT")'
                             /\ task'[d].stage = "LOADED" => task'[d].seen = invoices'[j].place /\ Even(j)'
                             /\ task'[d].stage = "RETAXED" => task'[d].seen = invoices'[j].place
                      /\ task'[d].kind = "ISSUE" => task'[d].seen = invoices'[j].split /\ Even(j)'
                      /\ task'[d].kind = "CANCEL" => Is(j, "ISSUED")'
    BY DEF ReadingsHold
  <2>1. CASE d = c
    BY <2>1 DEF AtWork
  <2>2. CASE d # c
    <3>1. AtWork(d) /\ task'[d] = task[d] /\ j \in Invoices \ contested
      BY <2>2 DEF AtWork
    <3>2. j # i
      BY <2>2, <3>1 DEF BillingStands, OverlapsAreNoted
    <3> QED
      BY <3>1, <3>2 DEF BillingStands, ReadingsHold, Is, Even
  <2> QED
    BY <2>1, <2>2
<1>4. WholeOrInHand'
  <2> SUFFICES ASSUME NEW j \in Invoices \ contested', j # i
               PROVE  /\ Even(j)' \/ Retaxing(j)'
                      /\ Numbered(j)' => /\ entry'[j] = FiguresOf(j)'
                                         /\ contras'[j] = IF Is(j, "CANCELLED")' THEN 1 ELSE 0
    BY DEF WholeOrInHand
  <2>1. j \in Invoices \ contested
    OBVIOUS
  <2>2. Retaxing(j) => Retaxing(j)'
    BY DEF Retaxing, AtWork
  <2> QED
    BY <2>1, <2>2 DEF BillingStands, WholeOrInHand, Even, Numbered, Is, FiguresOf
<1> QED
  BY <1>1, <1>2, <1>3, <1>4

(* What remains to be billed, the balance and the openings stay within     *)
(* what the requests under way have computed.                              *)
LEMMA RemaindersStay ==
    ASSUME BillingStands, NEW c \in Clerks, AtWork(c),
           \A d \in Clerks \ {c} : task'[d] = task[d],
           task'[c] = NoTask \/ (task[c].kind = "UPDATE" /\ task'[c].kind = "UPDATE"),
           clashed' = clashed,
           Billed \in Int, Billed' \in Int, Balance \in Int, Balance' \in Int,
           \A d \in Clerks : AtWork(d) => task[d].amount \in Int,
           \/ Billed' <= Billed
           \/ task[c].kind = "BILL" /\ task'[c] = NoTask /\ Billed' <= Billed + task[c].amount,
           \/ Balance' >= Balance
           \/ task[c].kind \in {"CANCEL", "WRITE_OFF"} /\ task'[c] = NoTask,
           \/ openings' = openings
           \/ task[c].kind = "OPENING" /\ task'[c] = NoTask /\ openings' = openings + task[c].amount
    PROVE  RemaindersHold'
<1> DEFINE WriteOffClash == {{"WRITE_OFF"}, {"WRITE_OFF", "CANCEL"}}
<1>1. \A d \in Clerks : AtWork(d)' /\ task'[d].kind # "UPDATE" =>
          d # c /\ AtWork(d) /\ task'[d] = task[d]
  BY DEF AtWork
<1>2. \A d \in Clerks \ {c} : AtWork(d) /\ {task[c].kind, task[d].kind} \in Clashes
          => {task[c].kind, task[d].kind} \in clashed
  BY DEF BillingStands, OverlapsAreNoted
<1>3. ASSUME {"BILL"} \notin clashed
      PROVE  /\ Billed' <= Ordered
             /\ \A d \in Clerks : AtWork(d)' /\ task'[d].kind = "BILL"
                                      => Billed' + task'[d].amount <= Ordered
  <2>1. /\ Billed <= Ordered
        /\ \A d \in Clerks : AtWork(d) /\ task[d].kind = "BILL" => Billed + task[d].amount <= Ordered
    BY <1>3 DEF BillingStands, RemaindersHold
  <2>2. CASE Billed' <= Billed
    BY <1>1, <2>1, <2>2, BillingAssumption
  <2>3. CASE task[c].kind = "BILL" /\ Billed' <= Billed + task[c].amount
    <3>1. \A d \in Clerks \ {c} : AtWork(d) => task[d].kind # "BILL"
      <4>1. {"BILL", "BILL"} = {"BILL"} /\ {"BILL"} \in Clashes
        BY DEF Clashes
      <4> QED
        BY <1>2, <1>3, <2>3, <4>1
    <3>2. Billed + task[c].amount <= Ordered
      BY <2>1, <2>3
    <3> QED
      BY <1>1, <2>3, <3>1, <3>2, BillingAssumption
  <2> QED
    BY <2>2, <2>3
<1>4. ASSUME clashed \cap WriteOffClash = {}, NEW d \in Clerks, AtWork(d)', task'[d].kind = "WRITE_OFF"
      PROVE  task'[d].amount <= Balance'
  <2>1. d # c /\ AtWork(d) /\ task'[d] = task[d] /\ task[d].kind = "WRITE_OFF"
    BY <1>1, <1>4
  <2>2. task[d].amount <= Balance
    BY <1>4, <2>1 DEF BillingStands, RemaindersHold
  <2>3. task[c].kind \notin {"CANCEL", "WRITE_OFF"}
    <3>1. {"WRITE_OFF", "WRITE_OFF"} = {"WRITE_OFF"} /\ {"CANCEL", "WRITE_OFF"} = {"WRITE_OFF", "CANCEL"}
      OBVIOUS
    <3>2. WriteOffClash \subseteq Clashes
      BY DEF Clashes
    <3> QED
      BY <1>2, <1>4, <2>1, <3>1, <3>2
  <2> QED
    BY <2>1, <2>2, <2>3
<1>5. ASSUME {"OPENING"} \notin clashed
      PROVE  /\ openings' <= 1
             /\ \A d \in Clerks : AtWork(d)' /\ task'[d].kind = "OPENING"
                                      => openings' = 0 /\ task'[d].amount = 1
  <2>1. /\ openings <= 1
        /\ \A d \in Clerks : AtWork(d) /\ task[d].kind = "OPENING" => openings = 0 /\ task[d].amount = 1
    BY <1>5 DEF BillingStands, RemaindersHold
  <2>2. CASE openings' = openings
    BY <1>1, <2>1, <2>2
  <2>3. CASE task[c].kind = "OPENING" /\ openings' = openings + task[c].amount
    <3>1. \A d \in Clerks \ {c} : AtWork(d) => task[d].kind # "OPENING"
      <4>1. {"OPENING", "OPENING"} = {"OPENING"} /\ {"OPENING"} \in Clashes
        BY DEF Clashes
      <4> QED
        BY <1>2, <1>5, <2>3, <4>1
    <3> QED
      BY <1>1, <2>1, <2>3, <3>1
  <2> QED
    BY <2>2, <2>3
<1> QED
  BY <1>3, <1>4, <1>5 DEF RemaindersHold

(* What is billed and the balance are integers.                            *)
LEMMA RemaindersAreInts == ASSUME BillingTypeOK PROVE Billed \in Int /\ Balance \in Int
<1> DEFINE f == [i \in Invoices |-> Counted(invoices, i)]
           g == [i \in Invoices |-> Owing(entry, contras, i)]
<1>1. /\ invoices \in [Invoices -> Invoice] /\ IsFiniteSet(Invoices)
      /\ entry \in [Invoices -> Figures \cup {NoFigures}] /\ contras \in [Invoices -> Nat]
      /\ openings \in Int /\ writtenOff \in Int
  BY BillingAssumption DEF BillingTypeOK
<1>2. Billed = SumFunctionOnSet(f, Invoices)
  BY <1>1, BilledOf DEF Billed, Is
<1>3. Balance = SumFunctionOnSet(g, Invoices) + openings - writtenOff
  BY <1>1, DebtsOf DEF Balance
<1>4. \A i \in Invoices : f[i] \in Int /\ g[i] \in Int
  BY <1>1, OwingIsInt, BillingAssumption DEF Invoice, Counted
<1> HIDE DEF f, g
<1>5. SumFunctionOnSet(f, Invoices) \in Int /\ SumFunctionOnSet(g, Invoices) \in Int
  BY <1>1, <1>4, SumIsInt
<1> QED
  BY <1>1, <1>2, <1>3, <1>5

(* The draft that is stored was within what remained.                      *)
LEMMA CommitBillStands ==
    ASSUME BInv, BInv', BillingStands, NEW c \in Clerks, CommitBill(c)
    PROVE  BillingStands'
<1>1. PICK i \in Invoices : i = task[c].invoice
  BY DEF CommitBill, Doing, BInv, TasksFit
<1>2. /\ AtWork(c) /\ task[c].kind = "BILL" /\ task[c].amount \in 0..Ordered /\ Is(i, "NONE")
      /\ task'[c] = NoTask /\ \A d \in Clerks \ {c} : task'[d] = task[d]
      /\ UNCHANGED <<nextNumber, entry, contras, writtenOff, openings, contested, clashed>>
  BY <1>1 DEF CommitBill, Doing, Done, AtWork, BInv, TasksFit, BillingTypeOK, figureVars
<1>3. /\ invoices[i] \in Invoice
      /\ invoices' = [invoices EXCEPT ![i] =
             [[invoices[i] EXCEPT !.status = "DRAFT"] EXCEPT !.quantity = task[c].amount]]
  BY <1>1 DEF CommitBill, BInv, BillingTypeOK
<1>4. /\ invoices'[i].status = "DRAFT" /\ invoices'[i].quantity = task[c].amount
      /\ invoices'[i].place = invoices[i].place /\ invoices'[i].split = invoices[i].split
      /\ \A j \in Invoices \ {i} : invoices'[j] = invoices[j]
  BY <1>3 DEF Invoice, BInv, BillingTypeOK
<1>5. entry[i] = NoFigures /\ contras[i] = 0
  BY <1>2 DEF BillingStands, FiguresFollow, Numbered, Is
<1>6. i \notin contested => Even(i)' \/ Retaxing(i)'
  <2>1. Retaxing(i) => Retaxing(i)'
    BY <1>2 DEF Retaxing, AtWork, BInv, TasksFit
  <2> QED
    BY <1>4, <2>1 DEF BillingStands, WholeOrInHand, Even
<1>7. OverlapsAreNoted' /\ FiguresFollow' /\ ReadingsHold' /\ WholeOrInHand'
  BY <1>1, <1>2, <1>4, <1>5, <1>6, OwnInvoiceOnly DEF Numbered, Is
<1>8. /\ Billed' = Billed - Counted(invoices, i) + Counted(invoices', i) /\ Billed \in Int /\ Billed' \in Int
      /\ Balance' = Balance /\ Balance \in Int
  <2>1. BillingTypeOK /\ BillingTypeOK'
    BY DEF BInv
  <2>2. Balance' = Balance
    BY <1>2 DEF Balance
  <2> QED
    BY <1>4, <2>1, <2>2, BilledMoves, RemaindersAreInts
<1>9. Counted(invoices, i) = 0 /\ Counted(invoices', i) = task[c].amount
  BY <1>2, <1>4 DEF Counted, Is
<1>10. \A d \in Clerks : AtWork(d) => task[d].amount \in Int
  BY DEF BInv, BillingTypeOK, Task, AtWork
<1>11. Billed' <= Billed + task[c].amount /\ Balance' >= Balance /\ Balance' \in Int
  BY <1>2, <1>8, <1>9, <1>10
<1>12. /\ AtWork(c) /\ \A d \in Clerks \ {c} : task'[d] = task[d]
       /\ task'[c] = NoTask /\ clashed' = clashed /\ openings' = openings
       /\ Billed \in Int /\ Billed' \in Int /\ Balance \in Int /\ Balance' \in Int
  BY <1>2, <1>8, <1>11
<1>13. RemaindersHold'
  BY <1>2, <1>10, <1>11, <1>12, RemaindersStay
<1> QED
  BY <1>7, <1>13 DEF BillingStands

(* Header and lines differ only while the request that wrote the header is *)
(* still at work.                                                          *)
LEMMA UpdateStands ==
    ASSUME BInv, BInv', BillingStands, NEW c \in Clerks,
           CommitHeader(c) \/ Retax(c) \/ CommitTaxes(c) \/ CommitRemove(c)
    PROVE  BillingStands'
<1>1. PICK i \in Invoices : i = task[c].invoice
  BY DEF CommitHeader, Retax, CommitTaxes, CommitRemove, Doing, BInv, TasksFit
<1>2. /\ AtWork(c) /\ task[c].kind \in {"UPDATE", "REMOVE"} /\ task[c] \in Task
      /\ \A d \in Clerks \ {c} : task'[d] = task[d]
      /\ UNCHANGED <<nextNumber, entry, contras, writtenOff, openings, contested, clashed>>
  BY <1>1 DEF CommitHeader, Retax, CommitTaxes, CommitRemove, Doing, Done, Becomes, AtWork,
     BInv, TasksFit, BillingTypeOK, figureVars
<1>3. /\ invoices[i] \in Invoice
      /\ \A j \in Invoices \ {i} : invoices'[j] = invoices[j]
      /\ invoices'[i].quantity = invoices[i].quantity
      /\ \/ invoices'[i].status = invoices[i].status
         \/ Is(i, "DRAFT") /\ Is(i, "REMOVED")'
  <2>1. invoices[i] \in Invoice /\ invoices \in [Invoices -> Invoice]
    BY DEF BInv, BillingTypeOK
  <2>2. CASE CommitHeader(c)
    BY <1>1, <2>1, <2>2 DEF CommitHeader, Invoice
  <2>3. CASE Retax(c)
    BY <2>1, <2>3 DEF Retax
  <2>4. CASE CommitTaxes(c)
    BY <1>1, <2>1, <2>4 DEF CommitTaxes, Invoice
  <2>5. CASE CommitRemove(c)
    BY <1>1, <2>1, <2>5 DEF CommitRemove, Invoice, Is
  <2> QED
    BY <2>1, <2>2, <2>3, <2>4, <2>5
<1>4. /\ ~Numbered(i)' => entry'[i] = NoFigures /\ contras'[i] = 0
      /\ Is(i, "NONE")' => invoices'[i].quantity = 0
  BY <1>2, <1>3 DEF BillingStands, FiguresFollow, Numbered, Is
<1>5. ASSUME i \notin contested, task[c].kind = "UPDATE"
      PROVE  /\ Is(i, "DRAFT") /\ ~Numbered(i)
             /\ task[c].stage = "LOADED" => task[c].seen = invoices[i].place /\ Even(i)
             /\ task[c].stage = "RETAXED" => task[c].seen = invoices[i].place
  BY <1>1, <1>2, <1>5 DEF BillingStands, ReadingsHold, Is, Numbered
<1>6. /\ i \notin contested =>
             /\ Even(i)' \/ Retaxing(i)'
             /\ ~Numbered(i)'
      /\ \/ task'[c] = NoTask
         \/ /\ task[c].kind = "UPDATE" /\ task'[c].kind = "UPDATE" /\ task'[c].invoice = i
            /\ i \notin contested =>
                   /\ Is(i, "DRAFT")' /\ task'[c].stage # "LOADED"
                   /\ task'[c].stage = "RETAXED" => task'[c].seen = invoices'[i].place
  <2>1. CASE CommitHeader(c) /\ TaxesToFollow(c)
    <3>1. /\ task[c].kind = "UPDATE" /\ invoices' = [invoices EXCEPT ![i].place = task[c].place]
          /\ task'[c] = [task[c] EXCEPT !.stage = "HEADER_WRITTEN"]
      BY <1>1, <2>1 DEF CommitHeader, Doing, Becomes, BInv, BillingTypeOK
    <3>2. /\ task'[c].stage = "HEADER_WRITTEN" /\ task'[c].kind = "UPDATE" /\ task'[c].invoice = i
          /\ invoices'[i].status = invoices[i].status
      BY <1>1, <1>2, <1>3, <3>1 DEF Task, Invoice, BInv, BillingTypeOK
    <3>3. AtWork(c)'
      <4>1. task'[c] \in Task
        BY <1>2, <3>1 DEF Task, BillingStages
      <4> QED
        BY <4>1, NoTaskAssumption DEF AtWork
    <3> QED
      BY <1>5, <3>1, <3>2, <3>3 DEF Retaxing, Is, Numbered
  <2>2. CASE CommitHeader(c) /\ ~TaxesToFollow(c)
    <3>1. /\ task[c].kind = "UPDATE" /\ task[c].stage = "LOADED" /\ task[c].place = task[c].seen
          /\ invoices' = [invoices EXCEPT ![i].place = task[c].place]
          /\ task'[c] = NoTask
      BY <1>1, <2>2 DEF CommitHeader, Doing, Done, TaxesToFollow, BInv, BillingTypeOK
    <3>2. i \notin contested => invoices'[i].place = invoices[i].place
                                /\ invoices'[i].split = invoices[i].split
                                /\ invoices'[i].status = invoices[i].status
      BY <1>3, <1>5, <3>1 DEF Invoice, BInv, BillingTypeOK
    <3> QED
      BY <1>5, <3>1, <3>2 DEF Even, Numbered
  <2>3. CASE Retax(c)
    <3>1. /\ task[c].kind = "UPDATE" /\ invoices' = invoices
          /\ task'[c] = [[task[c] EXCEPT !.stage = "RETAXED"] EXCEPT !.seen = invoices[i].place]
      BY <1>1, <2>3 DEF Retax, Doing, BInv, BillingTypeOK
    <3>2. /\ task'[c].stage = "RETAXED" /\ task'[c].kind = "UPDATE" /\ task'[c].invoice = i
          /\ task'[c].seen = invoices[i].place
      BY <1>1, <1>2, <3>1 DEF Task
    <3>3. AtWork(c)'
      <4>1. invoices[i].place \in Places
        BY <1>3 DEF Invoice
      <4>2. task'[c] \in Task
        BY <1>2, <3>1, <4>1 DEF Task, BillingStages
      <4> QED
        BY <4>2, NoTaskAssumption DEF AtWork
    <3> QED
      BY <1>5, <3>1, <3>2, <3>3 DEF Retaxing, Is, Numbered
  <2>4. CASE CommitTaxes(c)
    <3>1. /\ task[c].kind = "UPDATE" /\ task[c].stage = "RETAXED" /\ Is(i, "DRAFT")
          /\ invoices' = [invoices EXCEPT ![i].split = task[c].seen]
          /\ task'[c] = NoTask
      BY <1>1, <2>4 DEF CommitTaxes, LinesWritable, Doing, Done, BInv, BillingTypeOK
    <3>2. /\ invoices'[i].place = invoices[i].place /\ invoices'[i].split = task[c].seen
          /\ invoices'[i].status = invoices[i].status
      BY <1>3, <3>1 DEF Invoice, BInv, BillingTypeOK
    <3> QED
      BY <1>5, <3>1, <3>2 DEF Even, Numbered
  <2>5. CASE CommitRemove(c)
    <3>1. /\ task[c].stage = "LOADED" /\ invoices' = [invoices EXCEPT ![i].status = "REMOVED"]
          /\ task'[c] = NoTask
      BY <1>1, <2>5 DEF CommitRemove, Doing, Done, BInv, BillingTypeOK
    <3>2. /\ invoices'[i].place = invoices[i].place /\ invoices'[i].split = invoices[i].split
          /\ invoices'[i].status = "REMOVED"
      BY <1>3, <3>1 DEF Invoice, BInv, BillingTypeOK
    <3>3. Retaxing(i) => Retaxing(i)'
      BY <1>1, <1>2, <3>1 DEF Retaxing, AtWork
    <3> QED
      BY <3>1, <3>2, <3>3 DEF Even, Numbered, BillingStands, WholeOrInHand
  <2> QED
    BY <2>1, <2>2, <2>3, <2>4, <2>5
<1>7. OverlapsAreNoted' /\ FiguresFollow' /\ ReadingsHold' /\ WholeOrInHand'
  BY <1>1, <1>2, <1>3, <1>4, <1>6, OwnInvoiceOnly
<1>8. /\ Billed' = Billed - Counted(invoices, i) + Counted(invoices', i) /\ Billed \in Int /\ Billed' \in Int
      /\ Balance' = Balance /\ Balance \in Int
  <2>1. BillingTypeOK /\ BillingTypeOK'
    BY DEF BInv
  <2>2. Balance' = Balance
    BY <1>2 DEF Balance
  <2> QED
    BY <1>3, <2>1, <2>2, BilledMoves, RemaindersAreInts
<1>9. Counted(invoices', i) <= Counted(invoices, i) /\ Counted(invoices', i) \in Int /\ Counted(invoices, i) \in Int
  BY <1>3, BillingAssumption DEF Counted, Is, Invoice
<1>10. \A d \in Clerks : AtWork(d) => task[d].amount \in Int
  BY DEF BInv, BillingTypeOK, Task, AtWork
<1>11. Billed' <= Billed /\ Balance' >= Balance /\ Balance' \in Int
  BY <1>8, <1>9
<1>12. openings' = openings /\ clashed' = clashed
  BY <1>2
<1>13. RemaindersHold'
  BY <1>2, <1>6, <1>8, <1>10, <1>11, <1>12, RemaindersStay
<1> QED
  BY <1>7, <1>13 DEF BillingStands

(* Taking a number changes no invoice.                                     *)
LEMMA TakeNumberStands ==
    ASSUME BInv, BInv', BillingStands, NEW c \in Clerks, TakeNumber(c)
    PROVE  BillingStands'
<1>1. /\ AtWork(c) /\ task[c].kind = "ISSUE" /\ task[c] \in Task
      /\ UNCHANGED <<invoices, nextNumber, entry, contras, writtenOff, openings, contested, clashed>>
      /\ \A d \in Clerks \ {c} : task'[d] = task[d]
      /\ task'[c] = [[task[c] EXCEPT !.stage = "NUMBERED"] EXCEPT !.amount = nextNumber]
  BY DEF TakeNumber, Doing, AtWork, BInv, BillingTypeOK, figureVars
<1>2. /\ task'[c].kind = "ISSUE" /\ task'[c].invoice = task[c].invoice /\ task'[c].seen = task[c].seen
      /\ task'[c].stage = "NUMBERED"
  BY <1>1 DEF Task
<1>3. OverlapsAreNoted'
  <2> SUFFICES ASSUME NEW d \in Clerks, NEW e \in Clerks, d # e, AtWork(d)', AtWork(e)'
               PROVE  /\ task'[d].invoice = task'[e].invoice /\ task'[d].invoice \in Invoices
                             => task'[d].invoice \in contested'
                      /\ {task'[d].kind, task'[e].kind} \in Clashes
                             => {task'[d].kind, task'[e].kind} \in clashed'
    BY DEF OverlapsAreNoted
  <2>1. /\ AtWork(d) /\ task'[d].kind = task[d].kind /\ task'[d].invoice = task[d].invoice
        /\ AtWork(e) /\ task'[e].kind = task[e].kind /\ task'[e].invoice = task[e].invoice
    BY <1>1, <1>2 DEF AtWork
  <2> QED
    BY <1>1, <2>1 DEF BillingStands, OverlapsAreNoted
<1>4. FiguresFollow'
  BY <1>1 DEF BillingStands, FiguresFollow, Numbered, Is
<1>5. ReadingsHold'
  <2> SUFFICES ASSUME NEW d \in Clerks, AtWork(d)', NEW j \in Invoices \ contested', task'[d].invoice = j
               PROVE  /\ task'[d].kind = "UPDATE" =>
                             /\ Is(j, "DRAFT")'
                             /\ task'[d].stage = "LOADED" => task'[d].seen = invoices'[j].place /\ Even(j)'
                             /\ task'[d].stage = "RETAXED" => task'[d].seen = invoices'[j].place
                      /\ task'[d].kind = "ISSUE" => task'[d].seen = invoices'[j].split /\ Even(j)'
                      /\ task'[d].kind = "CANCEL" => Is(j, "ISSUED")'
    BY DEF ReadingsHold
  <2>1. /\ AtWork(d) /\ task[d].invoice = j /\ task'[d].kind = task[d].kind
        /\ task'[d].seen = task[d].seen
        /\ task[d].kind = "UPDATE" => task'[d].stage = task[d].stage
    BY <1>1, <1>2 DEF AtWork
  <2> QED
    BY <1>1, <1>2, <2>1 DEF BillingStands, ReadingsHold, Is, Even
<1>6. WholeOrInHand'
  <2>1. ASSUME NEW j \in Invoices, Retaxing(j) PROVE Retaxing(j)'
    <3>1. PICK d \in Clerks : AtWork(d) /\ task[d].invoice = j
                              /\ task[d].stage \in {"HEADER_WRITTEN", "RETAXED"}
      BY <2>1 DEF Retaxing
    <3>2. d # c
      BY <1>1, <3>1 DEF AtWork, BInv, TasksFit
    <3> QED
      BY <1>1, <3>1, <3>2 DEF Retaxing, AtWork
  <2> QED
    BY <1>1, <2>1 DEF BillingStands, WholeOrInHand, Even, Numbered, Is, FiguresOf
<1>7. RemaindersHold'
  <2>1. Billed' = Billed /\ Balance' = Balance
    BY <1>1 DEF Billed, Balance, Is
  <2>2. \A d \in Clerks : AtWork(d)' /\ task'[d].kind # "ISSUE" => AtWork(d) /\ task'[d] = task[d]
    BY <1>1, <1>2 DEF AtWork
  <2> QED
    BY <1>1, <2>1, <2>2 DEF BillingStands, RemaindersHold
<1> QED
  BY <1>3, <1>4, <1>5, <1>6, <1>7 DEF BillingStands

(* The debit is what the invoice says, for the split that was loaded is    *)
(* the invoice's still.                                                    *)
LEMMA IssueStands ==
    ASSUME BInv, BInv', BillingStands, NEW c \in Clerks, CommitIssue(c)
    PROVE  BillingStands'
<1>1. PICK i \in Invoices : i = task[c].invoice
  BY DEF CommitIssue, Doing, BInv, TasksFit
<1>2. /\ AtWork(c) /\ task[c].kind = "ISSUE" /\ task[c].stage = "NUMBERED" /\ Is(i, "DRAFT")
      /\ task[c] \in Task
      /\ task'[c] = NoTask /\ \A d \in Clerks \ {c} : task'[d] = task[d]
      /\ UNCHANGED <<contras, writtenOff, openings, contested, clashed>>
      /\ entry' = [entry EXCEPT ![i] = [quantity |-> invoices[i].quantity, split |-> task[c].seen]]
      /\ invoices' = [invoices EXCEPT ![i] =
             [[invoices[i] EXCEPT !.status = "ISSUED"] EXCEPT !.number = task[c].amount]]
  BY <1>1 DEF CommitIssue, Doing, Done, AtWork, BInv, BillingTypeOK
<1>3. /\ invoices[i] \in Invoice
      /\ invoices'[i].status = "ISSUED" /\ invoices'[i].quantity = invoices[i].quantity
      /\ invoices'[i].place = invoices[i].place /\ invoices'[i].split = invoices[i].split
      /\ \A j \in Invoices \ {i} : invoices'[j] = invoices[j]
  BY <1>2 DEF Invoice, BInv, BillingTypeOK
<1>4. /\ entry'[i] = [quantity |-> invoices[i].quantity, split |-> task[c].seen]
      /\ \A j \in Invoices \ {i} : entry'[j] = entry[j]
  BY <1>2 DEF BInv, BillingTypeOK
<1>5. entry[i] = NoFigures /\ contras[i] = 0
  BY <1>2 DEF BillingStands, FiguresFollow, Numbered, Is
<1>6. i \notin contested => task[c].seen = invoices[i].split /\ Even(i)
  BY <1>1, <1>2 DEF BillingStands, ReadingsHold
<1>7. i \notin contested =>
          /\ Even(i)' \/ Retaxing(i)'
          /\ Numbered(i)' => /\ entry'[i] = FiguresOf(i)'
                             /\ contras'[i] = IF Is(i, "CANCELLED")' THEN 1 ELSE 0
  BY <1>2, <1>3, <1>4, <1>5, <1>6 DEF Even, FiguresOf, Is
<1>8. Numbered(i)' /\ ~Is(i, "NONE")'
  BY <1>3 DEF Numbered, Is
<1>9. OverlapsAreNoted' /\ FiguresFollow' /\ ReadingsHold' /\ WholeOrInHand'
  <2>1. /\ AtWork(c) /\ task'[c] = NoTask /\ clashed' = clashed /\ contested \subseteq contested'
        /\ \A d \in Clerks \ {c} : task'[d] = task[d]
    BY <1>2
  <2>2. \A j \in Invoices \ {i} :
            invoices'[j] = invoices[j] /\ entry'[j] = entry[j] /\ contras'[j] = contras[j]
    BY <1>2, <1>3, <1>4
  <2>3. i \notin contested' =>
            /\ Even(i)' \/ Retaxing(i)'
            /\ Numbered(i)' => /\ entry'[i] = FiguresOf(i)'
                               /\ contras'[i] = IF Is(i, "CANCELLED")' THEN 1 ELSE 0
    BY <1>2, <1>7
  <2> QED
    BY <1>1, <1>8, <2>1, <2>2, <2>3, OwnInvoiceOnly
<1>10. /\ Billed' = Billed - Counted(invoices, i) + Counted(invoices', i)
       /\ Billed \in Int /\ Billed' \in Int
       /\ Balance' = Balance - Owing(entry, contras, i) + Owing(entry', contras', i)
                         + (openings' - openings) - (writtenOff' - writtenOff)
       /\ Balance \in Int /\ Balance' \in Int
  BY <1>2, <1>3, <1>4, BilledMoves, BalanceMoves DEF BInv
<1>11. Counted(invoices, i) = invoices[i].quantity /\ Counted(invoices', i) = invoices[i].quantity
  BY <1>2, <1>3 DEF Counted, Is
<1>12. Owing(entry, contras, i) = 0
  BY <1>5 DEF Owing
<1>13. Owing(entry', contras', i) \in Int /\ Owing(entry', contras', i) >= 0
  <2>1. invoices[i].quantity \in Nat /\ contras'[i] = 0
    BY <1>2, <1>3, <1>5, BillingAssumption DEF Invoice
  <2>2. entry'[i].quantity * (1 - contras'[i]) = invoices[i].quantity
    BY <1>4, <2>1
  <2> QED
    BY <2>1, <2>2 DEF Owing
<1>14. /\ openings' - openings = 0 /\ writtenOff' - writtenOff = 0 /\ invoices[i].quantity \in Int
       /\ \A d \in Clerks : AtWork(d) => task[d].amount \in Int
  BY <1>2, <1>3, BillingAssumption DEF BInv, BillingTypeOK, Task, AtWork, Invoice
<1>15. Billed' <= Billed /\ Balance' >= Balance
  BY <1>10, <1>11, <1>12, <1>13, <1>14
<1>16. RemaindersHold'
  BY <1>2, <1>10, <1>14, <1>15, RemaindersStay
<1> QED
  BY <1>9, <1>16 DEF BillingStands

(* A cancellation credits what was debited; it may take the balance below  *)
(* what a write-off under way was checked against, and then the two are    *)
(* noted.                                                                  *)
LEMMA CancelStands ==
    ASSUME BInv, BInv', BillingStands, NEW c \in Clerks, CommitCancel(c)
    PROVE  BillingStands'
<1>1. PICK i \in Invoices : i = task[c].invoice
  BY DEF CommitCancel, Doing, BInv, TasksFit
<1>2. /\ AtWork(c) /\ task[c].kind = "CANCEL" /\ Numbered(i)
      /\ task'[c] = NoTask /\ \A d \in Clerks \ {c} : task'[d] = task[d]
      /\ UNCHANGED <<entry, writtenOff, openings, contested, clashed>>
      /\ contras' = [contras EXCEPT ![i] = @ + 1]
      /\ invoices' = [invoices EXCEPT ![i].status = "CANCELLED"]
  BY <1>1 DEF CommitCancel, Doing, Done, AtWork, BInv, TasksFit, BillingTypeOK
<1>3. /\ invoices[i] \in Invoice
      /\ invoices'[i].status = "CANCELLED" /\ invoices'[i].quantity = invoices[i].quantity
      /\ invoices'[i].place = invoices[i].place /\ invoices'[i].split = invoices[i].split
      /\ \A j \in Invoices \ {i} : invoices'[j] = invoices[j]
  BY <1>2 DEF Invoice, BInv, BillingTypeOK
<1>4. contras'[i] = contras[i] + 1 /\ \A j \in Invoices \ {i} : contras'[j] = contras[j]
  BY <1>2 DEF BInv, BillingTypeOK
<1>5. ASSUME i \notin contested
      PROVE  /\ Even(i)' \/ Retaxing(i)'
             /\ entry'[i] = FiguresOf(i)' /\ contras'[i] = 1
  <2>1. Is(i, "ISSUED")
    BY <1>1, <1>2, <1>5 DEF BillingStands, ReadingsHold
  <2>2. ~Retaxing(i)
    BY <1>2, <1>5, <2>1 DEF Retaxing, BillingStands, ReadingsHold, BInv, TasksFit, AtWork, Is
  <2>3. Even(i) /\ entry[i] = FiguresOf(i) /\ contras[i] = 0
    BY <1>2, <1>5, <2>1, <2>2 DEF BillingStands, WholeOrInHand, Is
  <2> QED
    BY <1>2, <1>3, <1>4, <2>3 DEF Even, FiguresOf
<1>6. Numbered(i)' /\ ~Is(i, "NONE")' /\ Is(i, "CANCELLED")'
  BY <1>3 DEF Numbered, Is
<1>7. OverlapsAreNoted' /\ FiguresFollow' /\ ReadingsHold' /\ WholeOrInHand'
  <2>1. /\ AtWork(c) /\ task'[c] = NoTask /\ clashed' = clashed /\ contested \subseteq contested'
        /\ \A d \in Clerks \ {c} : task'[d] = task[d]
    BY <1>2
  <2>2. \A j \in Invoices \ {i} :
            invoices'[j] = invoices[j] /\ entry'[j] = entry[j] /\ contras'[j] = contras[j]
    BY <1>2, <1>3, <1>4
  <2>3. i \notin contested' => /\ Even(i)' \/ Retaxing(i)'
                               /\ entry'[i] = FiguresOf(i)' /\ contras'[i] = 1
    BY <1>2, <1>5
  <2> QED
    BY <1>1, <1>6, <2>1, <2>2, <2>3, OwnInvoiceOnly
<1>8. /\ Billed' = Billed - Counted(invoices, i) + Counted(invoices', i)
      /\ Billed \in Int /\ Billed' \in Int /\ Balance \in Int /\ Balance' \in Int
  BY <1>2, <1>3, <1>4, BilledMoves, BalanceMoves DEF BInv
<1>9. Counted(invoices, i) \in Nat /\ Counted(invoices', i) = 0
  BY <1>3, BillingAssumption DEF Counted, Invoice
<1>10. \A d \in Clerks : AtWork(d) => task[d].amount \in Int
  BY DEF BInv, BillingTypeOK, Task, AtWork
<1>11. Billed' <= Billed
  BY <1>8, <1>9
<1>12. RemaindersHold'
  BY <1>2, <1>8, <1>10, <1>11, RemaindersStay
<1> QED
  BY <1>7, <1>12 DEF BillingStands

(* An act without a document, or a request that is given up.               *)
LEMMA OthersStand ==
    ASSUME BInv, BInv', BillingStands, NEW c \in Clerks,
           CommitWriteOff(c) \/ CommitOpening(c) \/ Drop(c)
    PROVE  BillingStands'
<1>1. PICK i : i = task[c].invoice
  OBVIOUS
<1>2. /\ AtWork(c) /\ task[c] \in Task /\ task'[c] = NoTask
      /\ \A d \in Clerks \ {c} : task'[d] = task[d]
      /\ UNCHANGED <<invoices, entry, contras, clashed>>
      /\ contested \subseteq contested'
      /\ task[c].stage \in {"HEADER_WRITTEN", "RETAXED"} => task[c].kind = "UPDATE"
  BY DEF CommitWriteOff, CommitOpening, Drop, Doing, Done, AtWork, BInv, TasksFit, BillingTypeOK,
     figureVars
<1>3. i \in Invoices \ contested' =>
          /\ Even(i)' \/ Retaxing(i)'
          /\ Numbered(i)' => /\ entry'[i] = FiguresOf(i)'
                             /\ contras'[i] = IF Is(i, "CANCELLED")' THEN 1 ELSE 0
  <2> SUFFICES ASSUME i \in Invoices \ contested'
               PROVE  /\ Even(i)' \/ Retaxing(i)'
                      /\ Numbered(i)' => /\ entry'[i] = FiguresOf(i)'
                                         /\ contras'[i] = IF Is(i, "CANCELLED")' THEN 1 ELSE 0
    OBVIOUS
  <2>1. task[c].stage \notin {"HEADER_WRITTEN", "RETAXED"}
    <3>1. CASE Drop(c)
      BY <1>1, <3>1 DEF Drop
    <3>2. CASE CommitWriteOff(c) \/ CommitOpening(c)
      BY <3>2 DEF CommitWriteOff, CommitOpening, Doing
    <3> QED
      BY <3>1, <3>2
  <2>2. Retaxing(i) => Retaxing(i)'
    BY <1>2, <2>1 DEF Retaxing, AtWork
  <2> QED
    BY <1>2, <2>2 DEF BillingStands, WholeOrInHand, Even, Numbered, Is, FiguresOf
<1>4. i \in Invoices => /\ ~Numbered(i)' => entry'[i] = NoFigures /\ contras'[i] = 0
                        /\ Is(i, "NONE")' => invoices'[i].quantity = 0
  BY <1>2 DEF BillingStands, FiguresFollow, Numbered, Is
<1>5. OverlapsAreNoted' /\ FiguresFollow' /\ ReadingsHold' /\ WholeOrInHand'
  BY <1>1, <1>2, <1>3, <1>4, OwnInvoiceOnly
<1>6. Billed' = Billed /\ Billed \in Int /\ Balance \in Int
  BY <1>2, RemaindersAreInts DEF Billed, Is, BInv
<1> DEFINE debts == SumFunction([j \in {j \in Invoices : entry[j] # NoFigures} |->
                                    entry[j].quantity * (1 - contras[j])])
<1>7. Balance' = Balance + (openings' - openings) - (writtenOff' - writtenOff) /\ Balance' \in Int
  <2>1. Balance = debts + openings - writtenOff /\ Balance' = debts + openings' - writtenOff'
    BY <1>2 DEF Balance
  <2>2. /\ openings \in Int /\ openings' \in Int /\ writtenOff \in Int /\ writtenOff' \in Int
        /\ entry \in [Invoices -> Figures \cup {NoFigures}] /\ contras \in [Invoices -> Nat]
    BY BillingAssumption DEF BInv, BillingTypeOK
  <2>3. debts \in Int
    <3> DEFINE f == [j \in Invoices |-> Owing(entry, contras, j)]
    <3>1. debts = SumFunctionOnSet(f, Invoices)
      BY <2>2, DebtsOf
    <3>2. \A j \in Invoices : f[j] \in Int
      BY <2>2, OwingIsInt
    <3> HIDE DEF f, debts
    <3> QED
      BY <3>1, <3>2, SumIsInt, BillingAssumption
  <2> HIDE DEF debts
  <2> QED
    BY <2>1, <2>2, <2>3
<1>8. \A d \in Clerks : AtWork(d) => task[d].amount \in Nat
  BY DEF BInv, BillingTypeOK, Task, AtWork
<1>9. /\ \/ openings' = openings
         \/ task[c].kind = "OPENING" /\ openings' = openings + task[c].amount
      /\ \/ writtenOff' = writtenOff
         \/ task[c].kind = "WRITE_OFF"
  BY DEF CommitWriteOff, CommitOpening, Drop, Doing, figureVars
<1>10. Balance' >= Balance \/ task[c].kind = "WRITE_OFF"
  <2>1. openings \in Int /\ writtenOff \in Int
    BY BillingAssumption DEF BInv, BillingTypeOK
  <2>2. writtenOff' = writtenOff => Balance' >= Balance
    BY <1>2, <1>6, <1>7, <1>8, <1>9, <2>1
  <2> QED
    BY <1>9, <2>2
<1>11. Billed' <= Billed /\ \A d \in Clerks : AtWork(d) => task[d].amount \in Int
  BY <1>6, <1>8
<1>12. RemaindersHold'
  BY <1>2, <1>6, <1>7, <1>9, <1>10, <1>11, RemaindersStay
<1> QED
  BY <1>5, <1>12 DEF BillingStands

(* Every step keeps it.                                                    *)
LEMMA BillingStandsInductive == BInv /\ BillingStands /\ [BillingNext]_billingVars => BillingStands'
<1> SUFFICES ASSUME BInv, BillingStands, [BillingNext]_billingVars PROVE BillingStands'
  OBVIOUS
<1>t. BInv'
  BY BInvInductive
<1>1. ASSUME NEW c \in Clerks, NEW i \in Invoices,
             \/ \E wanted \in 1..Ordered : LoadBill(c, i, wanted)
             \/ \E place \in Places : LoadUpdate(c, i, place)
             \/ LoadRemove(c, i) \/ LoadIssue(c, i) \/ LoadCancel(c, i)
      PROVE  BillingStands'
  <2>1. {"BILL", "UPDATE", "REMOVE", "ISSUE", "CANCEL"} \subseteq Kinds /\ i \in Invoices \cup {NoFigures}
    BY DEF Kinds
  <2>2. ASSUME NEW wanted \in 1..Ordered, LoadBill(c, i, wanted) PROVE BillingStands'
    <3>1. Billed \in Int /\ wanted \in Int /\ Ordered \in Int
      BY RemaindersAreInts, BillingAssumption DEF BInv
    <3>2. Load(c, "BILL", i, wanted, "INTRA", "INTRA") /\ Billed + wanted <= Ordered
      BY <2>2, <3>1 DEF LoadBill
    <3> QED
      BY <2>1, <3>2, LoadStands
  <2>3. ASSUME NEW place \in Places, LoadUpdate(c, i, place) PROVE BillingStands'
    BY <2>1, <2>3, LoadStands DEF LoadUpdate
  <2>4. CASE LoadRemove(c, i)
    BY <2>1, <2>4, LoadStands DEF LoadRemove
  <2>5. CASE LoadIssue(c, i)
    BY <2>1, <2>5, LoadStands DEF LoadIssue
  <2>6. CASE LoadCancel(c, i)
    BY <2>1, <2>6, LoadStands DEF LoadCancel
  <2> QED
    BY <1>1, <2>2, <2>3, <2>4, <2>5, <2>6
<1>2. ASSUME NEW c \in Clerks, CountsOrWritesOff(c) PROVE BillingStands'
  <2>1. {"WRITE_OFF", "OPENING"} \subseteq Kinds /\ NoFigures \in Invoices \cup {NoFigures}
    BY DEF Kinds
  <2>2. ASSUME NEW amount \in 1..MaxWrittenOff, LoadWriteOff(c, amount) PROVE BillingStands'
    BY <2>1, <2>2, LoadStands DEF LoadWriteOff, Owed
  <2>3. CASE CountOpenings(c)
    BY <2>1, <2>3, LoadStands DEF CountOpenings
  <2> QED
    BY <1>2, <2>2, <2>3 DEF CountsOrWritesOff
<1>3. ASSUME NEW c \in Clerks, Commits(c) PROVE BillingStands'
  BY <1>t, <1>3, CommitBillStands, UpdateStands, CancelStands, OthersStand DEF Commits
<1>4. CASE UNCHANGED billingVars
  <2>1. UNCHANGED <<invoices, nextNumber, entry, contras, writtenOff, openings, task, contested, clashed>>
    BY <1>4 DEF billingVars
  <2>2. OverlapsAreNoted' /\ FiguresFollow' /\ ReadingsHold'
    BY <2>1 DEF BillingStands, OverlapsAreNoted, FiguresFollow, ReadingsHold, AtWork, Is, Even, Numbered
  <2>3. WholeOrInHand'
    BY <2>1 DEF BillingStands, WholeOrInHand, Retaxing, FiguresOf, AtWork, Is, Even, Numbered
  <2>4. Billed' = Billed /\ Balance' = Balance
    BY <2>1 DEF Billed, Balance, Is
  <2>5. RemaindersHold'
    BY <2>1, <2>4 DEF BillingStands, RemaindersHold, AtWork
  <2> QED
    BY <2>2, <2>3, <2>5 DEF BillingStands
<1> QED
  BY <1>t, <1>1, <1>2, <1>3, <1>4, IssueStands, TakeNumberStands
  DEF BillingNext, DraftStep, IssueStep, LedgerStep, CountsOrWritesOff, Commits

(* Nothing is billed or posted at first.                                   *)
LEMMA InitiallyNothingIsBilled == BillingInit => BillingStands
<1> SUFFICES ASSUME BillingInit PROVE BillingStands
  OBVIOUS
<1>1. \A c \in Clerks : ~AtWork(c)
  BY DEF BillingInit, AtWork
<1>2. \A i \in Invoices : Even(i) /\ ~Numbered(i) /\ entry[i] = NoFigures /\ contras[i] = 0
                          /\ invoices[i].quantity = 0 /\ Is(i, "NONE")
  BY DEF BillingInit, Even, Numbered, Is
<1>3. Billed = 0
  <2>1. {i \in Invoices : Is(i, "DRAFT") \/ Is(i, "ISSUED")} = {}
    BY <1>2 DEF Is
  <2>2. DOMAIN [i \in {} |-> invoices[i].quantity] = {}
    OBVIOUS
  <2> QED
    BY <2>1, <2>2, SumOfNone DEF Billed, SumFunction
<1> QED
  BY <1>1, <1>2, <1>3, BillingAssumption
  DEF BillingInit, BillingStands, OverlapsAreNoted, FiguresFollow, ReadingsHold, WholeOrInHand, RemaindersHold

(* Both invariants hold always.                                            *)
LEMMA BillingStandsHolds == BillingSpec => [](BInv /\ BillingStands)
<1>1. BillingInit => BillingStands
  BY InitiallyNothingIsBilled
<1>2. BInv /\ BillingStands /\ [BillingNext]_billingVars => BillingStands'
  BY BillingStandsInductive
<1> QED
  BY <1>1, <1>2, BInvHolds, PTL DEF BillingSpec

(* What drafts and invoices carry never exceeds what was ordered, for any  *)
(* number of clerks and invoices, unless two draftings overlapped.         *)
THEOREM NothingIsBilledTwice == BillingSpec => []BilledOnce
<1>1. BInv /\ BillingStands => BilledOnce
  BY DEF BillingStands, RemaindersHold, BilledOnce
<1> QED
  BY <1>1, BillingStandsHolds, PTL

(* An issued invoice is taxed for the place it names, debited as printed   *)
(* and credited once if cancelled, unless requests overlapped on it or its *)
(* update was cut off.                                                     *)
THEOREM IssuedIsWhole == BillingSpec => []IssuedDocumentIsWhole
<1>1. BInv /\ BillingStands => IssuedDocumentIsWhole
  <2> SUFFICES ASSUME BInv, BillingStands, NEW i \in Invoices \ contested, Numbered(i)
               PROVE  /\ invoices[i].place = invoices[i].split
                      /\ entry[i] = FiguresOf(i)
                      /\ contras[i] = IF Is(i, "CANCELLED") THEN 1 ELSE 0
    BY DEF IssuedDocumentIsWhole
  <2>1. ~Retaxing(i)
    BY DEF Retaxing, BillingStands, ReadingsHold, BInv, TasksFit, AtWork, Is, Numbered
  <2> QED
    BY <2>1 DEF BillingStands, WholeOrInHand, Even
<1> QED
  BY <1>1, BillingStandsHolds, PTL

(* The clerks' steps on drafts and on issued invoices move neither the     *)
(* written-off total nor the opening balances.                             *)
LEMMA InvoiceStepsLeaveTheParty ==
    ASSUME NEW c \in Clerks, DraftStep(c) \/ IssueStep(c) \/ Drop(c)
    PROVE  UNCHANGED <<writtenOff, openings>>
<1>1. CASE \E i \in Invoices : \/ \E wanted \in 1..Ordered : LoadBill(c, i, wanted)
                               \/ \E place \in Places : LoadUpdate(c, i, place)
                               \/ LoadRemove(c, i)
  BY <1>1 DEF LoadBill, LoadUpdate, LoadRemove, Load, figureVars
<1>2. CASE CommitBill(c) \/ CommitHeader(c) \/ Retax(c) \/ CommitTaxes(c) \/ CommitRemove(c)
  BY <1>2 DEF CommitBill, CommitHeader, Retax, CommitTaxes, CommitRemove, figureVars
<1>3. CASE \/ \E i \in Invoices : LoadIssue(c, i) \/ LoadCancel(c, i)
           \/ TakeNumber(c) \/ CommitIssue(c) \/ CommitCancel(c)
  BY <1>3 DEF LoadIssue, LoadCancel, TakeNumber, CommitIssue, CommitCancel, Load, figureVars
<1>4. CASE Drop(c)
  BY <1>4 DEF Drop, figureVars
<1>5. CASE DraftStep(c)
  BY <1>1, <1>2, <1>5, Zenon DEF DraftStep
<1>6. CASE IssueStep(c)
  BY <1>3, <1>6, Zenon DEF IssueStep
<1> QED
  BY <1>4, <1>5, <1>6

(* Only a write-off moves the written-off total, only an opening balance   *)
(* the opening balances.                                                   *)
LEMMA OnlyAWriteOffMoves ==
    ASSUME BillingNext, writtenOff' # writtenOff
    PROVE  \E c \in Clerks : CommitWriteOff(c)
<1>1. PICK c \in Clerks : LedgerStep(c)
  BY InvoiceStepsLeaveTheParty DEF BillingNext
<1> QED
  BY <1>1 DEF LedgerStep, LoadWriteOff, CountOpenings, CommitOpening, Load, figureVars

LEMMA OnlyAnOpeningMoves ==
    ASSUME BillingNext, openings' # openings
    PROVE  \E c \in Clerks : CommitOpening(c)
<1>1. PICK c \in Clerks : LedgerStep(c)
  BY InvoiceStepsLeaveTheParty DEF BillingNext
<1> QED
  BY <1>1 DEF LedgerStep, LoadWriteOff, CountOpenings, CommitWriteOff, Load, figureVars

(* A write-off never leaves a credit balance, and a party has one opening  *)
(* balance, unless acts on its balance overlapped.                         *)
THEOREM WriteOffsStayOwed == BillingSpec => WriteOffsAreOwed
<1>1. ASSUME BInv, BInv', BillingStands, BillingStands', [BillingNext]_billingVars
      PROVE  /\ writtenOff' > writtenOff /\ clashed \cap {{"WRITE_OFF"}, {"WRITE_OFF", "CANCEL"}} = {}
                    => Balance' >= 0
             /\ {"OPENING"} \notin clashed => openings' <= 1
  <2>1. ASSUME writtenOff' > writtenOff, clashed \cap {{"WRITE_OFF"}, {"WRITE_OFF", "CANCEL"}} = {}
        PROVE  Balance' >= 0
    <3>1. writtenOff \in Int
      BY <1>1, BillingAssumption DEF BInv, BillingTypeOK
    <3>2. PICK c \in Clerks : CommitWriteOff(c)
      <4>1. ASSUME writtenOff' = writtenOff PROVE FALSE
        BY <2>1, <3>1, <4>1
      <4>2. BillingNext /\ writtenOff' # writtenOff
        BY <1>1, <4>1 DEF billingVars
      <4> QED
        BY <4>2, OnlyAWriteOffMoves
    <3>3. /\ task[c].amount <= Balance /\ task[c].amount \in Int
          /\ writtenOff' = writtenOff + task[c].amount
          /\ UNCHANGED <<invoices, entry, contras, openings>>
      BY <1>1, <2>1, <3>2 DEF CommitWriteOff, Doing, AtWork, BillingStands, RemaindersHold, BInv, BillingTypeOK, Task
    <3> DEFINE debts == SumFunction([j \in {j \in Invoices : entry[j] # NoFigures} |->
                                        entry[j].quantity * (1 - contras[j])])
    <3>4. Balance = debts + openings - writtenOff /\ Balance' = debts + openings - writtenOff'
      BY <3>3 DEF Balance
    <3>5. openings \in Int /\ entry \in [Invoices -> Figures \cup {NoFigures}] /\ contras \in [Invoices -> Nat]
      BY <1>1 DEF BInv, BillingTypeOK
    <3>6. debts \in Int
      <4> DEFINE f == [j \in Invoices |-> Owing(entry, contras, j)]
      <4>1. debts = SumFunctionOnSet(f, Invoices)
        BY <3>5, DebtsOf
      <4>2. \A j \in Invoices : f[j] \in Int
        BY <3>5, OwingIsInt
      <4> HIDE DEF f, debts
      <4> QED
        BY <4>1, <4>2, SumIsInt, BillingAssumption
    <3> HIDE DEF debts
    <3> QED
      BY <3>1, <3>3, <3>4, <3>5, <3>6
  <2>2. ASSUME {"OPENING"} \notin clashed PROVE openings' <= 1
    <3>1. openings <= 1 /\ \A c \in Clerks : AtWork(c) /\ task[c].kind = "OPENING"
                                                => openings = 0 /\ task[c].amount = 1
      BY <1>1, <2>2 DEF BillingStands, RemaindersHold
    <3>2. ASSUME NEW c \in Clerks, CommitOpening(c) PROVE openings' <= 1
      BY <3>1, <3>2 DEF CommitOpening, Doing, AtWork
    <3>3. CASE openings' = openings
      BY <3>1, <3>3
    <3>4. CASE UNCHANGED billingVars
      BY <3>3, <3>4 DEF billingVars
    <3>5. CASE BillingNext /\ openings' # openings
      BY <3>2, <3>5, OnlyAnOpeningMoves
    <3> QED
      BY <1>1, <3>3, <3>4, <3>5
  <2> QED
    BY <2>1, <2>2
<1> QED
  BY <1>1, BillingStandsHolds, PTL DEF BillingSpec, WriteOffsAreOwed

-----------------------------------------------------------------------------
(* The returns, which share no state with the clerks.  The sections of     *)
(* GSTR-1 ask for the class a row was given at issue and for the buyer's   *)
(* registration, GSTR-3B for the place of supply: that both partition the  *)
(* month rests on these agreeing (ClassesFit), whatever the threshold has  *)
(* become since.  Then what two reports say of one month are equal sums    *)
(* over one set.  What was filed is protected by the year alone            *)
(* (FiledStand), and the cap on credit holds because the CHECK is under    *)
(* the write that issues the note (CreditsFit).                            *)
ReturnsTyped ==
    /\ bill \in [Bills -> Bill \cup {NoDoc}] /\ note \in [Notes -> Note \cup {NoDoc}]
    /\ threshold \in Nat /\ month \in Months
    /\ filed \in SUBSET Bills /\ orphans \in SUBSET Notes

(* What an invoice was classified as when it was issued is of its row.     *)
ClassesFit ==
    \A b \in NumberedBills :
        /\ bill[b].primary
        /\ bill[b].class = "EXPORT" <=> bill[b].place = "ABROAD"
        /\ bill[b].class = "B2B" <=> bill[b].place # "ABROAD" /\ bill[b].registered
        /\ bill[b].class = "B2CL" => bill[b].place = "AWAY"

FiledStand == \A b \in filed : Issued(b) /\ YearOf(bill[b].month) < YearOf(month)

NotesFit ==
    \A n \in NoteRows : /\ note[n].of \in NumberedBills
                        /\ Issued(note[n].of) \/ n \in orphans

CreditsFit == \A b \in NumberedBills : Credited(b) <= bill[b].value

ReturnInv == ReturnsTyped /\ ClassesFit /\ FiledStand /\ NotesFit /\ CreditsFit

LEMMA RowsAreTyped ==
    ASSUME ReturnsTyped
    PROVE  /\ \A b \in Bills : b \in Rows <=> bill[b] \in Bill
           /\ \A n \in Notes : n \in NoteRows <=> note[n] \in Note
           /\ NumberedBills \in SUBSET Bills /\ \A b \in NumberedBills : bill[b] \in Bill
           /\ IsFiniteSet(NumberedBills) /\ IsFiniteSet(NoteRows) /\ IsFiniteSet(IssuedNotes)
<1>1. /\ \A b \in Bills : b \in Rows <=> bill[b] \in Bill
      /\ \A n \in Notes : n \in NoteRows <=> note[n] \in Note
  BY NoDocAssumption DEF ReturnsTyped, Rows, NoteRows
<1>2. NumberedBills \in SUBSET Bills /\ NoteRows \in SUBSET Notes /\ IssuedNotes \in SUBSET Notes
  BY DEF NumberedBills, Rows, NoteRows, IssuedNotes
<1>3. \A b \in NumberedBills : bill[b] \in Bill
  BY <1>1, <1>2 DEF NumberedBills
<1>4. IsFiniteSet(Bills) /\ IsFiniteSet(Notes)
  BY ReturnsAssumption
<1> QED
  BY <1>1, <1>2, <1>3, <1>4, FS_Subset

LEMMA YearsGoOn ==
    ASSUME NEW a \in Int, NEW b \in Int, a <= b
    PROVE  YearOf(a) <= YearOf(b) /\ YearOf(a) \in Int /\ YearOf(b) \in Int
<1>1. ASSUME NEW x \in Int, NEW y \in Int, x <= y, NEW d \in Nat \ {0} PROVE x \div d <= y \div d
  BY <1>1, SMTT(30)
<1>2. MonthsInYear \in Nat \ {0} /\ a - 1 \in Int /\ b - 1 \in Int /\ a - 1 <= b - 1
  BY ReturnsAssumption
<1> QED
  BY <1>1, <1>2 DEF YearOf

(***************************************************************************)
(* What notes take off                                                     *)
(***************************************************************************)
LEMMA CreditedStays ==
    ASSUME NEW b, NotesOn(b)' = NotesOn(b),
           \A n \in NotesOn(b) : note'[n].type = note[n].type /\ note'[n].value = note[n].value
    PROVE  Credited(b)' = Credited(b)
  BY DEF Credited, Adjustment, Signed

LEMMA CreditedAdds ==
    ASSUME ReturnsTyped, NEW b, NEW n \in NoteRows, n \notin NotesOn(b), NotesOn(b)' = NotesOn(b) \cup {n},
           \A k \in NotesOn(b) \cup {n} : note'[k].type = note[k].type /\ note'[k].value = note[k].value
    PROVE  Credited(b)' = Credited(b) + Signed(n)
<1> DEFINE N == NotesOn(b)
           f == [k \in N |-> Signed(k)]
           g == [k \in N \cup {n} |-> Signed(k)]
<1>1. IsFiniteSet(N) /\ N \in SUBSET NoteRows
  <2>1. N \in SUBSET IssuedNotes /\ IssuedNotes \in SUBSET NoteRows
    BY DEF NotesOn, IssuedNotes
  <2> QED
    BY <2>1, RowsAreTyped, FS_Subset
<1>2. \A k \in NoteRows : Signed(k) \in Int
  <2> SUFFICES ASSUME NEW k \in NoteRows PROVE Signed(k) \in Int
    OBVIOUS
  <2>1. note[k] \in Note
    BY RowsAreTyped DEF NoteRows
  <2> QED
    BY <2>1 DEF Note, Signed, Values
<1>3. SumFunctionOnSet(g, N) = SumFunctionOnSet(f, N)
  <2>1. \A k \in N : g[k] = f[k]
    OBVIOUS
  <2> HIDE DEF f, g, N
  <2> QED
    BY <1>1, <2>1, SumCongruent
<1>4. SumFunctionOnSet(g, N \cup {n}) = g[n] + SumFunctionOnSet(g, N)
  <2>1. g[n] \in Int /\ \A k \in N : g[k] \in Int
    BY <1>1, <1>2
  <2>2. n \notin N
    OBVIOUS
  <2> HIDE DEF g, N
  <2> QED
    BY <1>1, <2>1, <2>2, SumAdd
<1>5. SumFunctionOnSet(f, N) \in Int
  <2>1. \A k \in N : f[k] \in Int
    BY <1>1, <1>2
  <2> HIDE DEF f, N
  <2> QED
    BY <1>1, <2>1, SumIsInt
<1>6. Credited(b) = SumFunctionOnSet(f, N)
  BY DEF Credited, Adjustment
<1>7. Credited(b)' = SumFunctionOnSet(g, N \cup {n})
  BY DEF Credited, Adjustment, Signed
<1>8. g[n] = Signed(n) /\ Signed(n) \in Int
  BY <1>2
<1> HIDE DEF f, g, N
<1> QED
  BY <1>3, <1>4, <1>5, <1>6, <1>7, <1>8

LEMMA NoCredit == ASSUME NEW b, NotesOn(b) = {} PROVE Credited(b) = 0
  BY SumOfNone DEF Credited, Adjustment

(***************************************************************************)
(* Steps                                                                   *)
(***************************************************************************)
(* Invoices that are no documents yet come, change and go.                 *)
LEMMA DraftsKeep ==
    ASSUME ReturnInv, NEW b \in Bills, ~(b \in NumberedBills),
           NEW new \in Bill \cup {NoDoc}, new = NoDoc \/ new.status = "DRAFT",
           bill' = [bill EXCEPT ![b] = new],
           UNCHANGED <<note, threshold, month, filed, orphans>>
    PROVE  ReturnInv'
<1>1. ReturnsTyped'
  BY DEF ReturnInv, ReturnsTyped
<1>2. bill'[b] = new /\ \A c \in Bills : c # b => bill'[c] = bill[c]
  BY DEF ReturnInv, ReturnsTyped
<1>3. NumberedBills' = NumberedBills /\ \A c \in NumberedBills : c # b
  BY <1>2 DEF NumberedBills, Rows
<1>4. \A c \in Bills : c \in NumberedBills => bill'[c] = bill[c]
  BY <1>2, <1>3
<1>5. \A c \in Bills : Issued(c)' <=> Issued(c)
  BY <1>2, <1>3 DEF Issued, NumberedBills, Rows
<1>6. \A c : NotesOn(c)' = NotesOn(c) /\ Credited(c)' = Credited(c)
  BY DEF NotesOn, IssuedNotes, NoteRows, Credited, Adjustment, Signed
<1>7. \A c \in NumberedBills : c \in Bills
  BY RowsAreTyped DEF ReturnInv
<1>8. ClassesFit' /\ CreditsFit'
  BY <1>3, <1>4, <1>6, <1>7 DEF ReturnInv, ClassesFit, CreditsFit
<1>9. FiledStand'
  <2> SUFFICES ASSUME NEW c \in filed PROVE Issued(c)' /\ YearOf(bill'[c].month) < YearOf(month)
    BY DEF FiledStand, YearOf
  <2>1. Issued(c) /\ c \in Bills /\ YearOf(bill[c].month) < YearOf(month)
    BY DEF ReturnInv, FiledStand, ReturnsTyped
  <2>2. c \in NumberedBills
    BY <2>1 DEF Issued, NumberedBills
  <2> QED
    BY <1>4, <1>5, <2>1, <2>2
<1>10. NotesFit'
  <2>1. NoteRows' = NoteRows
    BY DEF NoteRows
  <2> QED
    BY <1>3, <1>5, <1>7, <2>1 DEF ReturnInv, NotesFit
<1> QED
  BY <1>1, <1>8, <1>9, <1>10 DEF ReturnInv

LEMMA IssueBillKeeps ==
    ASSUME ReturnInv, NEW b \in Bills, NEW m \in Months, IssueBill(b, m) PROVE ReturnInv'
<1>1. bill[b] \in Bill /\ bill[b].status = "DRAFT" /\ bill[b].primary /\ b \notin NumberedBills
  BY RowsAreTyped DEF ReturnInv, IssueBill, Drafted, NumberedBills
<1>2. Cardinality(NumberedBills) + 1 \in Nat
  BY RowsAreTyped, FS_CardinalityType DEF ReturnInv
<1> DEFINE row == bill[b]
           new == IssuedRow(row, m)
<1>3. /\ new \in Bill /\ new.status = "ISSUED" /\ new.primary /\ new.place = row.place
      /\ new.registered = row.registered /\ new.value = row.value /\ new.class = SupplyType(row)
      /\ new.month = m
  <2>1. SupplyType(row) \in {"B2B", "B2CL", "B2CS", "EXPORT"}
    BY DEF SupplyType
  <2> DEFINE class == SupplyType(row)
             number == Cardinality(NumberedBills) + 1
  <2>2. new = [row EXCEPT !.status = "ISSUED", !.month = m, !.class = class, !.number = number]
    BY DEF IssuedRow
  <2> HIDE DEF class, number, new
  <2>3. new = [status |-> "ISSUED", place |-> row.place, registered |-> row.registered,
               primary |-> row.primary, value |-> row.value, month |-> m,
               class |-> class, number |-> number]
    BY <1>1, <2>2 DEF Bill
  <2> QED
    BY <1>1, <1>2, <2>1, <2>3 DEF Bill, class, number
<1>4. bill' = [bill EXCEPT ![b] = new] /\ UNCHANGED <<note, threshold, month, filed, orphans>>
  BY DEF IssueBill
<1>5. bill'[b] = new /\ \A c \in Bills : c # b => bill'[c] = bill[c]
  BY <1>4 DEF ReturnInv, ReturnsTyped
<1>6. /\ new.class = "EXPORT" <=> new.place = "ABROAD"
      /\ new.class = "B2B" <=> new.place # "ABROAD" /\ new.registered
      /\ new.class = "B2CL" => new.place = "AWAY"
  <2>1. row.place \in {"HOME", "AWAY", "ABROAD"}
    BY <1>1 DEF Bill
  <2> HIDE DEF new, row
  <2> QED
    BY <1>3, <2>1 DEF SupplyType, InterState
<1>7. new # NoDoc
  BY <1>3, NoDocAssumption
<1> HIDE DEF new
<1>8. ReturnsTyped'
  BY <1>3, <1>4 DEF ReturnInv, ReturnsTyped
<1>9. /\ NumberedBills' = NumberedBills \cup {b}
      /\ \A c \in Bills : c # b => (Issued(c)' <=> Issued(c))
      /\ Issued(b)'
  BY <1>3, <1>5, <1>7 DEF Issued, NumberedBills, Rows
<1>10. \A c : NotesOn(c)' = NotesOn(c) /\ Credited(c)' = Credited(c)
  BY <1>4 DEF NotesOn, IssuedNotes, NoteRows, Credited, Adjustment, Signed
<1>11. \A c \in NumberedBills : c \in Bills /\ c # b
  BY <1>1, RowsAreTyped DEF ReturnInv
<1>12. Credited(b)' = 0
  <2>1. NotesOn(b) = {}
    BY <1>1 DEF NotesOn, IssuedNotes, ReturnInv, NotesFit
  <2> QED
    BY <1>10, <2>1, NoCredit
<1>13. new.value \in Nat
  BY <1>3 DEF Bill, Values
<1>14. ClassesFit' /\ CreditsFit'
  BY <1>3, <1>5, <1>6, <1>9, <1>10, <1>11, <1>12, <1>13 DEF ReturnInv, ClassesFit, CreditsFit
<1>15. FiledStand'
  <2> SUFFICES ASSUME NEW c \in filed PROVE Issued(c)' /\ YearOf(bill'[c].month) < YearOf(month)
    BY <1>4 DEF FiledStand, YearOf
  <2>1. Issued(c) /\ c \in Bills /\ YearOf(bill[c].month) < YearOf(month)
    BY DEF ReturnInv, FiledStand, ReturnsTyped
  <2>2. c # b
    BY <1>1, <2>1 DEF Issued
  <2> QED
    BY <1>5, <1>9, <2>1, <2>2
<1>16. NotesFit'
  <2>1. NoteRows' = NoteRows
    BY <1>4 DEF NoteRows
  <2> QED
    BY <1>4, <1>9, <1>11, <2>1 DEF ReturnInv, NotesFit
<1> QED
  BY <1>8, <1>14, <1>15, <1>16 DEF ReturnInv

LEMMA CancelBillKeeps ==
    ASSUME ReturnInv, NEW b \in Bills, CancelBill(b) PROVE ReturnInv'
<1>1. bill[b] \in Bill /\ b \in NumberedBills /\ Issued(b)
  BY RowsAreTyped DEF ReturnInv, CancelBill, Issued, NumberedBills
<1> DEFINE row == bill[b]
           new == [row EXCEPT !.status = "CANCELLED"]
<1>2. /\ new \in Bill /\ new.status = "CANCELLED" /\ new.primary = row.primary /\ new.place = row.place
      /\ new.registered = row.registered /\ new.value = row.value /\ new.class = row.class
  BY <1>1 DEF Bill
<1>3. /\ bill' = [bill EXCEPT ![b] = new] /\ UNCHANGED <<note, threshold, month, filed>>
      /\ orphans' = orphans \cup {n \in NoteRows : note[n].of = b}
  <2>1. bill' = [bill EXCEPT ![b].status = "CANCELLED"]
    BY DEF CancelBill
  <2> QED
    BY <2>1 DEF CancelBill, ReturnInv, ReturnsTyped
<1>4. bill'[b] = new /\ \A c \in Bills : c # b => bill'[c] = bill[c]
  BY <1>3 DEF ReturnInv, ReturnsTyped
<1>5. new # NoDoc
  BY <1>2, NoDocAssumption
<1>6. b \notin filed
  <2>1. YearOf(bill[b].month) = YearOf(month)
    BY DEF CancelBill
  <2>2. month \in Int
    BY ReturnsAssumption DEF ReturnInv, ReturnsTyped, Months
  <2>3. YearOf(month) \in Int
    BY <2>2, YearsGoOn
  <2>4. b \in filed => YearOf(bill[b].month) < YearOf(month)
    BY DEF ReturnInv, FiledStand
  <2> HIDE DEF YearOf
  <2> QED
    BY <2>1, <2>3, <2>4
<1> HIDE DEF new
<1>7. NoteRows' = NoteRows /\ NoteRows \in SUBSET Notes
  BY <1>3 DEF NoteRows
<1>8. ReturnsTyped'
  BY <1>2, <1>3, <1>7 DEF ReturnInv, ReturnsTyped
<1>9. /\ NumberedBills' = NumberedBills
      /\ \A c \in Bills : c # b => (Issued(c)' <=> Issued(c))
  BY <1>1, <1>2, <1>4, <1>5 DEF Issued, NumberedBills, Rows
<1>10. \A c : NotesOn(c)' = NotesOn(c) /\ Credited(c)' = Credited(c)
  BY <1>3 DEF NotesOn, IssuedNotes, NoteRows, Credited, Adjustment, Signed
<1>11. \A c \in NumberedBills : c \in Bills
  BY RowsAreTyped DEF ReturnInv
<1>12. ClassesFit' /\ CreditsFit'
  BY <1>1, <1>2, <1>4, <1>9, <1>10, <1>11 DEF ReturnInv, ClassesFit, CreditsFit
<1>13. FiledStand'
  <2> SUFFICES ASSUME NEW c \in filed PROVE Issued(c)' /\ YearOf(bill'[c].month) < YearOf(month)
    BY <1>3 DEF FiledStand, YearOf
  <2>1. Issued(c) /\ c \in Bills /\ YearOf(bill[c].month) < YearOf(month) /\ c # b
    BY <1>6 DEF ReturnInv, FiledStand, ReturnsTyped
  <2> QED
    BY <1>4, <1>9, <2>1
<1>14. NotesFit'
  BY <1>3, <1>7, <1>9, <1>11 DEF ReturnInv, NotesFit
<1> QED
  BY <1>8, <1>12, <1>13, <1>14 DEF ReturnInv

(* A note is drafted or removed.                                           *)
LEMMA NoteDraftsKeep ==
    ASSUME ReturnInv, NEW n \in Notes, n \notin IssuedNotes,
           NEW new \in Note \cup {NoDoc},
           new # NoDoc => new.status = "DRAFT" /\ Issued(new.of),
           note' = [note EXCEPT ![n] = new],
           UNCHANGED <<bill, threshold, month, filed>>, orphans' = orphans \/ (new = NoDoc /\ orphans' = orphans \ {n})
    PROVE  ReturnInv'
<1>1. ReturnsTyped'
  BY DEF ReturnInv, ReturnsTyped
<1>2. note'[n] = new /\ \A k \in Notes : k # n => note'[k] = note[k]
  BY DEF ReturnInv, ReturnsTyped
<1>3. /\ NumberedBills' = NumberedBills /\ \A c : Issued(c)' <=> Issued(c)
      /\ \A c : Issued(c) => c \in NumberedBills
  BY DEF NumberedBills, Rows, Issued
<1>4. IssuedNotes' = IssuedNotes
  BY <1>2 DEF IssuedNotes, NoteRows
<1>5. \A c : Credited(c)' = Credited(c)
  <2> SUFFICES ASSUME NEW c PROVE Credited(c)' = Credited(c)
    OBVIOUS
  <2>1. \A k \in IssuedNotes : k \in Notes /\ k # n
    BY DEF IssuedNotes, NoteRows
  <2>2. NotesOn(c)' = NotesOn(c) /\ \A k \in NotesOn(c) : note'[k] = note[k]
    BY <1>2, <1>4, <2>1 DEF NotesOn
  <2> QED
    BY <2>2, CreditedStays
<1>6. ClassesFit' /\ CreditsFit'
  BY <1>3, <1>5 DEF ReturnInv, ClassesFit, CreditsFit
<1>7. FiledStand'
  BY <1>3 DEF ReturnInv, FiledStand, YearOf
<1>8. NotesFit'
  <2> SUFFICES ASSUME NEW k \in NoteRows' PROVE (note[k].of \in NumberedBills)' /\ (Issued(note[k].of) \/ k \in orphans)'
    BY DEF NotesFit
  <2>1. CASE k = n
    BY <1>2, <1>3, <2>1 DEF NoteRows
  <2>2. CASE k # n
    <3>1. k \in NoteRows /\ note'[k] = note[k]
      BY <1>2, <2>2 DEF NoteRows
    <3> QED
      BY <1>3, <2>2, <3>1 DEF ReturnInv, NotesFit
  <2> QED
    BY <2>1, <2>2
<1> QED
  BY <1>1, <1>6, <1>7, <1>8 DEF ReturnInv

LEMMA IssueNoteKeeps ==
    ASSUME ReturnInv, NEW n \in Notes, NEW m \in Months, IssueNote(n, m) PROVE ReturnInv'
<1>1. n \in NoteRows /\ n \notin IssuedNotes /\ note[n] \in Note
  BY RowsAreTyped DEF ReturnInv, IssueNote
<1> DEFINE row == note[n]
           new == [[row EXCEPT !.status = "ISSUED"] EXCEPT !.month = m]
<1>2. /\ new \in Note /\ new.status = "ISSUED" /\ new.type = row.type /\ new.of = row.of
      /\ new.value = row.value
  BY <1>1 DEF Note
<1>3. note' = [note EXCEPT ![n] = new] /\ UNCHANGED <<bill, threshold, month, filed, orphans>>
  <2>1. note' = [note EXCEPT ![n].status = "ISSUED", ![n].month = m]
    BY DEF IssueNote
  <2> QED
    BY <2>1 DEF IssueNote, ReturnInv, ReturnsTyped
<1>4. note'[n] = new /\ \A k \in Notes : k # n => note'[k] = note[k]
  BY <1>3 DEF ReturnInv, ReturnsTyped
<1>5. new # NoDoc
  BY <1>2, NoDocAssumption
<1> HIDE DEF new
<1>6. ReturnsTyped'
  BY <1>2, <1>3 DEF ReturnInv, ReturnsTyped
<1>7. /\ NumberedBills' = NumberedBills /\ \A c : Issued(c)' <=> Issued(c)
  BY <1>3 DEF NumberedBills, Rows, Issued
<1>8. NoteRows' = NoteRows /\ IssuedNotes' = IssuedNotes \cup {n}
  BY <1>1, <1>2, <1>4, <1>5 DEF NoteRows, IssuedNotes
<1>9. \A k \in NoteRows : k \in Notes /\ note'[k].of = note[k].of /\ note'[k].type = note[k].type
                          /\ note'[k].value = note[k].value
  BY <1>2, <1>4 DEF NoteRows
<1>10. \A k \in IssuedNotes : k \in NoteRows
  BY DEF IssuedNotes
<1>11. ASSUME NEW c \in NumberedBills PROVE Credited(c)' <= bill[c].value
  <2>1. CASE c = note[n].of
    <3>1. NotesOn(c)' = NotesOn(c) \cup {n} /\ n \notin NotesOn(c)
      BY <1>1, <1>8, <1>9, <1>10, <2>1 DEF NotesOn
    <3>2. \A k \in NotesOn(c) \cup {n} : k \in NoteRows
      BY <1>1, <1>10 DEF NotesOn
    <3>3. Credited(c)' = Credited(c) + Signed(n)
      BY <1>1, <1>9, <3>1, <3>2, CreditedAdds DEF ReturnInv
    <3> QED
      BY <2>1, <3>3 DEF IssueNote
  <2>2. CASE c # note[n].of
    <3>1. NotesOn(c)' = NotesOn(c) /\ \A k \in NotesOn(c) : k \in NoteRows
      BY <1>1, <1>8, <1>9, <1>10, <2>2 DEF NotesOn
    <3>2. Credited(c)' = Credited(c)
      BY <1>9, <3>1, CreditedStays
    <3> QED
      BY <3>2 DEF ReturnInv, CreditsFit
  <2> QED
    BY <2>1, <2>2
<1>12. ClassesFit' /\ CreditsFit'
  BY <1>3, <1>7, <1>11 DEF ReturnInv, ClassesFit, CreditsFit
<1>13. FiledStand'
  BY <1>3, <1>7 DEF ReturnInv, FiledStand, YearOf
<1>14. NotesFit'
  BY <1>3, <1>7, <1>8, <1>9 DEF ReturnInv, NotesFit
<1> QED
  BY <1>6, <1>12, <1>13, <1>14 DEF ReturnInv

LEMMA TimePasses == ASSUME ReturnInv, NextMonth PROVE ReturnInv'
<1>1. month \in Int /\ month' = month + 1 /\ month' \in Months
  BY ReturnsAssumption DEF ReturnInv, ReturnsTyped, Months, NextMonth
<1>2. UNCHANGED <<bill, note, threshold, orphans>>
  BY DEF NextMonth
<1>3. ReturnsTyped'
  BY <1>1, <1>2 DEF ReturnInv, ReturnsTyped, NextMonth
<1>4. /\ NumberedBills' = NumberedBills /\ NoteRows' = NoteRows /\ \A c : Issued(c)' <=> Issued(c)
      /\ \A c : Credited(c)' = Credited(c)
  BY <1>2 DEF NumberedBills, Rows, Issued, NoteRows, NotesOn, IssuedNotes, Credited, Adjustment, Signed
<1>5. FiledStand'
  <2> SUFFICES ASSUME NEW c \in filed' PROVE Issued(c) /\ YearOf(bill[c].month) < YearOf(month')
    BY <1>2, <1>4 DEF FiledStand, YearOf
  <2>1. CASE c \in filed
    <3>1. Issued(c) /\ YearOf(bill[c].month) < YearOf(month) /\ c \in Bills
      BY <2>1 DEF ReturnInv, FiledStand, ReturnsTyped
    <3>2. bill[c] \in Bill
      BY <3>1, RowsAreTyped DEF ReturnInv, Issued
    <3>3. bill[c].month \in Int
      BY <3>2 DEF Bill, Months
    <3>4. month + 1 \in Int /\ month <= month + 1
      BY <1>1
    <3>5. YearOf(month) <= YearOf(month + 1) /\ YearOf(month) \in Int /\ YearOf(month + 1) \in Int
      BY <1>1, <3>4, YearsGoOn
    <3>6. YearOf(bill[c].month) \in Int
      BY <3>3, YearsGoOn
    <3>7. YearOf(month') = YearOf(month + 1)
      BY <1>1
    <3> HIDE DEF YearOf
    <3> QED
      BY <3>1, <3>5, <3>6, <3>7
  <2>2. CASE c \notin filed
    BY <2>2 DEF NextMonth
  <2> QED
    BY <2>1, <2>2
<1>6. ClassesFit' /\ CreditsFit' /\ NotesFit'
  BY <1>2, <1>4 DEF ReturnInv, ClassesFit, CreditsFit, NotesFit
<1> QED
  BY <1>3, <1>5, <1>6 DEF ReturnInv

LEMMA ReturnNextKeeps == ReturnInv /\ [ReturnNext]_returnVars => ReturnInv'
<1> SUFFICES ASSUME ReturnInv, [ReturnNext]_returnVars PROVE ReturnInv'
  OBVIOUS
<1>0. ReturnsTyped
  BY DEF ReturnInv
<1>1. ASSUME NEW b \in Bills, NEW m \in Months, NEW buyer \in Buyers, NEW value \in Values,
             DraftBill(b, buyer, value, m)
      PROVE  ReturnInv'
  <2> DEFINE new == [status |-> "DRAFT", place |-> buyer.place, registered |-> buyer.registered,
                     primary |-> buyer.primary, value |-> value, month |-> m,
                     class |-> IF buyer.registered THEN "B2B" ELSE "B2CS", number |-> 0]
  <2>1. buyer \in [place : {"HOME", "AWAY", "ABROAD"}, registered : BOOLEAN, primary : BOOLEAN]
    BY ReturnsAssumption
  <2>2. new \in Bill /\ new.status = "DRAFT"
    BY <2>1 DEF Bill
  <2>3. bill' = [bill EXCEPT ![b] = new] /\ UNCHANGED <<note, threshold, month, filed, orphans>>
    BY <1>1 DEF DraftBill
  <2>4. ~(b \in NumberedBills)
    BY <1>1 DEF DraftBill, NumberedBills, Rows
  <2> HIDE DEF new
  <2> QED
    BY <2>2, <2>3, <2>4, DraftsKeep
<1>2. ASSUME NEW b \in Bills, NEW m \in Months, NEW place \in {"HOME", "AWAY", "ABROAD"}, EditBill(b, place, m)
      PROVE  ReturnInv'
  <2> DEFINE new == [[bill[b] EXCEPT !.place = place] EXCEPT !.month = m]
  <2>1. bill[b] \in Bill /\ bill[b].status = "DRAFT" /\ ~(b \in NumberedBills)
    BY <1>0, <1>2, RowsAreTyped DEF EditBill, Drafted, NumberedBills
  <2>2. new \in Bill /\ new.status = "DRAFT"
    BY <2>1 DEF Bill
  <2>3. bill' = [bill EXCEPT ![b] = new]
    <3>1. bill' = [bill EXCEPT ![b].place = place, ![b].month = m]
      BY <1>2 DEF EditBill
    <3> QED
      BY <1>0, <3>1 DEF ReturnsTyped
  <2>4. UNCHANGED <<note, threshold, month, filed, orphans>>
    BY <1>2 DEF EditBill
  <2> HIDE DEF new
  <2> QED
    BY <2>1, <2>2, <2>3, <2>4, DraftsKeep
<1>3. ASSUME NEW b \in Bills, RemoveBill(b) PROVE ReturnInv'
  <2>1. ~(b \in NumberedBills)
    BY <1>3 DEF RemoveBill, Drafted, NumberedBills
  <2> QED
    BY <1>3, <2>1, DraftsKeep DEF RemoveBill
<1>4. ASSUME NEW n \in Notes, NEW m \in Months, NEW type \in {"CREDIT", "DEBIT"}, NEW b \in Bills,
             NEW value \in Values, DraftNote(n, type, b, value, m)
      PROVE  ReturnInv'
  <2> DEFINE new == [status |-> "DRAFT", type |-> type, of |-> b, value |-> value, month |-> m]
  <2>1. new \in Note /\ new.status = "DRAFT" /\ new.of = b
    BY DEF Note
  <2>2. note' = [note EXCEPT ![n] = new] /\ Issued(b) /\ UNCHANGED <<bill, threshold, month, filed, orphans>>
    BY <1>4 DEF DraftNote
  <2>3. n \notin IssuedNotes
    BY <1>4 DEF DraftNote, IssuedNotes, NoteRows
  <2> HIDE DEF new
  <2> QED
    BY <2>1, <2>2, <2>3, NoteDraftsKeep
<1>5. ASSUME NEW n \in Notes, RemoveNote(n) PROVE ReturnInv'
  BY <1>5, NoteDraftsKeep DEF RemoveNote
<1>6. ASSUME NEW value \in Thresholds, SetThreshold(value) PROVE ReturnInv'
  <2>1. ReturnsTyped'
    BY <1>0, <1>6, ReturnsAssumption DEF ReturnsTyped, SetThreshold
  <2>2. UNCHANGED <<bill, note, month, filed, orphans>>
    BY <1>6 DEF SetThreshold
  <2>3. /\ NumberedBills' = NumberedBills /\ NoteRows' = NoteRows /\ \A c : Issued(c)' <=> Issued(c)
        /\ \A c : Credited(c)' = Credited(c)
    BY <2>2 DEF NumberedBills, Rows, Issued, NoteRows, NotesOn, IssuedNotes, Credited, Adjustment, Signed
  <2> QED
    BY <2>1, <2>2, <2>3 DEF ReturnInv, ClassesFit, CreditsFit, NotesFit, FiledStand, YearOf
<1>7. CASE UNCHANGED returnVars
  <2>1. UNCHANGED <<bill, note, threshold, month, filed, orphans>>
    BY <1>7 DEF returnVars
  <2>2. /\ NumberedBills' = NumberedBills /\ NoteRows' = NoteRows /\ \A c : Issued(c)' <=> Issued(c)
        /\ \A c : Credited(c)' = Credited(c)
    BY <2>1 DEF NumberedBills, Rows, Issued, NoteRows, NotesOn, IssuedNotes, Credited, Adjustment, Signed
  <2>3. ReturnsTyped'
    BY <1>0, <2>1 DEF ReturnsTyped
  <2> QED
    BY <2>1, <2>2, <2>3 DEF ReturnInv, ClassesFit, CreditsFit, NotesFit, FiledStand, YearOf
<1> QED
  BY <1>1, <1>2, <1>3, <1>4, <1>5, <1>6, <1>7, IssueBillKeeps, CancelBillKeeps, IssueNoteKeeps, TimePasses
  DEF ReturnNext

LEMMA NothingToReturn == ReturnInit => ReturnInv
<1> SUFFICES ASSUME ReturnInit PROVE ReturnInv
  OBVIOUS
<1>1. Rows = {} /\ NumberedBills = {} /\ NoteRows = {}
  BY DEF ReturnInit, Rows, NumberedBills, NoteRows
<1>2. ReturnsTyped
  BY ReturnsAssumption DEF ReturnInit, ReturnsTyped, Months
<1> QED
  BY <1>1, <1>2 DEF ReturnInit, ReturnInv, ClassesFit, FiledStand, NotesFit, CreditsFit

(***************************************************************************)
(* The sections                                                            *)
(***************************************************************************)
(* What numbered invoices are worth is one function, whichever section     *)
(* lists them.                                                             *)
ValueOf == [b \in Bills |-> IF b \in NumberedBills THEN bill[b].value ELSE 0]

LEMMA WorthIsValue ==
    ASSUME ReturnsTyped, NEW S \in SUBSET NumberedBills
    PROVE  /\ IsFiniteSet(S) /\ \A b \in S : ValueOf[b] \in Int
           /\ Worth(S) = SumFunctionOnSet(ValueOf, S)
<1>1. \A b \in S : b \in Bills /\ b \in NumberedBills /\ bill[b] \in Bill
  BY RowsAreTyped
<1>2. IsFiniteSet(S)
  BY RowsAreTyped, FS_Subset
<1>3. \A b \in S : ValueOf[b] = bill[b].value /\ ValueOf[b] \in Int
  BY <1>1 DEF ValueOf, Bill, Values
<1> DEFINE f == [b \in S |-> bill[b].value]
<1>4. \A b \in S : f[b] = ValueOf[b]
  BY <1>3
<1>5. Worth(S) = SumFunctionOnSet(f, S)
  BY DEF Worth
<1> HIDE DEF f
<1> QED
  BY <1>2, <1>3, <1>4, <1>5, SumCongruent

LEMMA WorthOfUnion ==
    ASSUME ReturnsTyped, NEW S \in SUBSET NumberedBills, NEW T \in SUBSET NumberedBills, S \cap T = {}
    PROVE  Worth(S \cup T) = Worth(S) + Worth(T)
<1>1. S \cup T \in SUBSET NumberedBills
  OBVIOUS
<1>2. /\ IsFiniteSet(S) /\ IsFiniteSet(T) /\ \A b \in S \cup T : ValueOf[b] \in Int
      /\ Worth(S) = SumFunctionOnSet(ValueOf, S) /\ Worth(T) = SumFunctionOnSet(ValueOf, T)
      /\ Worth(S \cup T) = SumFunctionOnSet(ValueOf, S \cup T)
  BY <1>1, WorthIsValue
<1> QED
  BY <1>2, SumOfUnion

(* A table by places of supply.                                            *)
ByPlace(S) == [place \in {bill[b].place : b \in S} |-> Worth({b \in S : bill[b].place = place})]

LEMMA TableOfPlaces ==
    ASSUME ReturnsTyped, NEW S \in SUBSET NumberedBills
    PROVE  /\ SumOf(ByPlace(S), DOMAIN ByPlace(S)) = Worth(S)
           /\ \A q : SumOf(ByPlace(S), {q}) = Worth({b \in S : bill[b].place = q})
<1> DEFINE K == {bill[b].place : b \in S}
           kind == [b \in S |-> bill[b].place]
           g == ByPlace(S)
<1>1. DOMAIN g = K /\ DOMAIN g \cap DOMAIN g = K
  BY DEF ByPlace
<1>2. IsFiniteSet(K)
  <2>1. K \in SUBSET {"HOME", "AWAY", "ABROAD"}
    BY RowsAreTyped DEF Bill
  <2>2. IsFiniteSet({} \cup {"HOME"})
    BY FS_EmptySet, FS_AddElement
  <2>3. IsFiniteSet(({} \cup {"HOME"}) \cup {"AWAY"})
    BY <2>2, FS_AddElement
  <2>4. IsFiniteSet((({} \cup {"HOME"}) \cup {"AWAY"}) \cup {"ABROAD"})
    BY <2>3, FS_AddElement
  <2>5. (({} \cup {"HOME"}) \cup {"AWAY"}) \cup {"ABROAD"} = {"HOME", "AWAY", "ABROAD"}
    OBVIOUS
  <2> QED
    BY <2>1, <2>4, <2>5, FS_Subset
<1>3. \A b \in S : kind[b] \in K
  OBVIOUS
<1>4. IsFiniteSet(S) /\ \A b \in S : ValueOf[b] \in Int
  BY WorthIsValue
<1>5. ASSUME NEW place PROVE /\ {b \in S : bill[b].place = place} \in SUBSET NumberedBills
                             /\ {b \in S : bill[b].place = place} = {b \in S : kind[b] = place}
  OBVIOUS
<1>6. \A place \in K : g[place] = Worth({b \in S : bill[b].place = place})
  BY DEF ByPlace
<1> DEFINE part == [place \in K |-> {b \in S : bill[b].place = place}]
<1>11. \A place \in K : part[place] = {b \in S : kind[b] = place}
  OBVIOUS
<1>7. \A place \in K : g[place] = SumFunctionOnSet(ValueOf, part[place])
  <2>1. \A place \in K : part[place] \in SUBSET NumberedBills /\ g[place] = Worth(part[place])
    BY <1>6
  <2> HIDE DEF g, part, K
  <2> QED
    BY <2>1, WorthIsValue
<1>8. SumFunctionOnSet(g, K) = SumFunctionOnSet(ValueOf, S)
  <2> HIDE DEF g, kind, K, part
  <2> QED
    BY <1>2, <1>3, <1>4, <1>7, <1>11, SumOfKinds
<1>9. SumOf(g, DOMAIN g) = Worth(S)
  BY <1>1, <1>8, WorthIsValue DEF SumOf
<1>10. ASSUME NEW q PROVE SumOf(g, {q}) = Worth({b \in S : bill[b].place = q})
  <2>1. CASE q \in K
    <3>1. {q} \cap K = {} \cup {q}
      BY <2>1
    <3>2. g[q] \in Int
      <4> DEFINE T == {b \in S : bill[b].place = q}
      <4>1. T \in SUBSET NumberedBills /\ g[q] = Worth(T)
        BY <1>5, <1>6, <2>1
      <4> HIDE DEF T, g
      <4>2. /\ IsFiniteSet(T) /\ \A b \in T : ValueOf[b] \in Int
            /\ Worth(T) = SumFunctionOnSet(ValueOf, T)
        BY <4>1, WorthIsValue
      <4> QED
        BY <4>1, <4>2, SumIsInt
    <3> HIDE DEF g
    <3>3. SumFunctionOnSet(g, {} \cup {q}) = g[q] + SumFunctionOnSet(g, {})
      <4>1. IsFiniteSet({}) /\ q \notin {}
        BY FS_EmptySet
      <4>2. ASSUME NEW T, IsFiniteSet(T), NEW x, x \notin T, NEW h, h[x] \in Int, \A y \in T : h[y] \in Int
            PROVE  SumFunctionOnSet(h, T \cup {x}) = h[x] + SumFunctionOnSet(h, T)
        BY <4>2, SumAdd
      <4>3. \A y \in {} : g[y] \in Int
        OBVIOUS
      <4> QED
        BY <3>2, <4>1, <4>2, <4>3
    <3>4. SumFunctionOnSet(g, {} \cup {q}) = g[q]
      BY <3>2, <3>3, SumOfNone
    <3> QED
      BY <1>1, <1>6, <2>1, <3>1, <3>4 DEF SumOf
  <2>2. CASE q \notin K
    <3>1. {q} \cap K = {} /\ {b \in S : bill[b].place = q} = {}
      BY <2>2
    <3>2. Worth({}) = 0
      BY SumOfNone DEF Worth
    <3> HIDE DEF g
    <3> QED
      BY <1>1, <3>1, <3>2, SumOfNone DEF SumOf
  <2> QED
    BY <2>1, <2>2
<1> QED
  BY <1>9, <1>10

Small(m) == {b \in InForce(m) : bill[b].class = "B2CS"}

LEMMA Sections ==
    ASSUME ReturnInv, NEW m
    PROVE  /\ \A b \in InForce(m) : b \in NumberedBills /\ bill[b] \in Bill
           /\ B2b(m) = {b \in InForce(m) : bill[b].class = "B2B"}
           /\ B2cs(m) = ByPlace(Small(m))
<1>1. \A b \in InForce(m) : b \in NumberedBills /\ bill[b] \in Bill
  BY RowsAreTyped DEF ReturnInv, InForce, InPeriod
<1> QED
  BY <1>1 DEF ReturnInv, ClassesFit, B2b, B2cs, ByPlace, Small

LEMMA SectionsAddUp == ASSUME ReturnInv, NEW m PROVE SectionsCover(m)
<1> DEFINE A == B2b(m)
           B == B2cl(m)
           C == Exports(m)
           D == Small(m)
<1>1. /\ A \in SUBSET NumberedBills /\ B \in SUBSET NumberedBills /\ C \in SUBSET NumberedBills
      /\ D \in SUBSET NumberedBills /\ InForce(m) = ((A \cup B) \cup C) \cup D
      /\ A \cap B = {} /\ (A \cup B) \cap C = {} /\ ((A \cup B) \cup C) \cap D = {}
  <2>1. /\ A = {b \in InForce(m) : bill[b].class = "B2B"} /\ B = {b \in InForce(m) : bill[b].class = "B2CL"}
        /\ C = {b \in InForce(m) : bill[b].class = "EXPORT"} /\ D = {b \in InForce(m) : bill[b].class = "B2CS"}
    BY Sections DEF B2cl, Exports, Small
  <2>2. \A b \in InForce(m) : b \in NumberedBills /\ bill[b].class \in {"B2B", "B2CL", "B2CS", "EXPORT"}
    BY Sections DEF Bill
  <2> HIDE DEF A, B, C, D
  <2> QED
    BY <2>1, <2>2
<1>2. ReturnsTyped
  BY DEF ReturnInv
<1> HIDE DEF A, B, C, D
<1>3. /\ Worth(A \cup B) = Worth(A) + Worth(B)
      /\ Worth((A \cup B) \cup C) = Worth(A \cup B) + Worth(C)
      /\ Worth(((A \cup B) \cup C) \cup D) = Worth((A \cup B) \cup C) + Worth(D)
  BY <1>1, <1>2, WorthOfUnion
<1>4. SumOf(B2cs(m), DOMAIN B2cs(m)) = Worth(D)
  BY <1>1, <1>2, Sections, TableOfPlaces DEF D
<1>5. Hsn(m) = Worth(A) + Worth(B) + Worth(C) + SumOf(B2cs(m), DOMAIN B2cs(m))
  BY <1>1, <1>3, <1>4 DEF Hsn
<1>6. Summary(m).excluded = 0
  <2>1. Excluded(m) = {}
    BY DEF Excluded, ReturnInv, ClassesFit
  <2> QED
    BY <2>1, FS_EmptySet DEF Summary
<1>7. \A b \in InForce(m) \ Exports(m) : bill[b].registered => b \in B2b(m)
  BY Sections DEF Exports, ReturnInv, ClassesFit
<1> QED
  BY <1>5, <1>6, <1>7 DEF SectionsCover, A, B, C

LEMMA ReturnsDeclareTheSame == ASSUME ReturnInv, NEW m PROVE ReturnsAgree(m)
<1> SUFFICES ASSUME \A b \in Bills : Drafted(b) => bill[b].month # m \/ ~bill[b].primary
             PROVE  /\ Outward(m) = Summary(m).value - Adjustment(Adjusting(m))
                    /\ SumOf(Unregistered(m), {"AWAY"}) = Worth(B2cl(m)) + SumOf(B2cs(m), {"AWAY"})
  BY DEF ReturnsAgree
<1>1. ReturnsTyped
  BY DEF ReturnInv
<1>2. Declared(m) = InForce(m)
  <2>1. \A b \in Rows : b \in Bills /\ (b \in NumberedBills \/ Drafted(b))
    BY DEF Rows, NumberedBills, Drafted
  <2>2. \A b \in NumberedBills : b \in Rows
    BY DEF NumberedBills
  <2> QED
    BY <2>1, <2>2 DEF Declared, InForce, InPeriod
<1>3. Outward(m) = Summary(m).value - Adjustment(Adjusting(m))
  BY <1>2 DEF Outward, Summary
<1> DEFINE S == {b \in InForce(m) : ~bill[b].registered /\ InterState(bill[b].place)}
           D == Small(m)
           away == {b \in D : bill[b].place = "AWAY"}
<1>4. Unregistered(m) = ByPlace(S)
  BY <1>2 DEF Unregistered, ByPlace
<1>5. S \in SUBSET NumberedBills /\ D \in SUBSET NumberedBills
  BY Sections DEF Small
<1>6. {b \in S : bill[b].place = "AWAY"} = B2cl(m) \cup away /\ B2cl(m) \cap away = {}
  <2>1. ASSUME NEW b \in InForce(m)
        PROVE  (b \in S /\ bill[b].place = "AWAY") <=> (b \in B2cl(m) \/ b \in away)
    <3>1. /\ bill[b].class \in {"B2B", "B2CL", "B2CS", "EXPORT"} /\ bill[b].registered \in BOOLEAN
          /\ bill[b].place \in {"HOME", "AWAY", "ABROAD"}
      BY Sections DEF Bill
    <3>2. /\ bill[b].class = "EXPORT" <=> bill[b].place = "ABROAD"
          /\ bill[b].class = "B2B" <=> bill[b].place # "ABROAD" /\ bill[b].registered
          /\ bill[b].class = "B2CL" => bill[b].place = "AWAY"
      BY Sections DEF ReturnInv, ClassesFit
    <3> QED
      BY <3>1, <3>2 DEF B2cl, Small, InterState
  <2>2. \A b \in B2cl(m) \cup away : b \in InForce(m)
    BY DEF B2cl, Small
  <2>3. B2cl(m) \cap away = {}
    BY DEF B2cl, Small
  <2>4. \A b \in S : b \in InForce(m)
    OBVIOUS
  <2> HIDE DEF S, away
  <2> QED
    BY <2>1, <2>2, <2>3, <2>4
<1>7. B2cl(m) \in SUBSET NumberedBills /\ away \in SUBSET NumberedBills
  BY <1>5, Sections DEF B2cl
<1>8. Worth(B2cl(m) \cup away) = Worth(B2cl(m)) + Worth(away)
  BY <1>1, <1>6, <1>7, WorthOfUnion
<1>9. SumOf(Unregistered(m), {"AWAY"}) = Worth(B2cl(m) \cup away)
  <2>1. SumOf(ByPlace(S), {"AWAY"}) = Worth({b \in S : bill[b].place = "AWAY"})
    <3> HIDE DEF S
    <3> QED
      BY <1>1, <1>5, TableOfPlaces
  <2> QED
    BY <1>4, <1>6, <2>1
<1>10. SumOf(B2cs(m), {"AWAY"}) = Worth(away)
  <2>1. SumOf(ByPlace(D), {"AWAY"}) = Worth({b \in D : bill[b].place = "AWAY"})
    <3> HIDE DEF D
    <3> QED
      BY <1>1, <1>5, TableOfPlaces
  <2> QED
    BY <2>1, Sections
<1> QED
  BY <1>3, <1>8, <1>9, <1>10

LEMMA NumbersAreCounted ==
    ASSUME ReturnInv
    PROVE  SumFunction([m \in Months |-> DocsIssued(m).total]) = Cardinality(NumberedBills)
<1> DEFINE S == NumberedBills
           K == Months
           kind == [b \in S |-> bill[b].month]
           f == [b \in S |-> 1]
           g == [m \in Months |-> DocsIssued(m).total]
<1>1. IsFiniteSet(S) /\ \A b \in S : bill[b] \in Bill
  BY RowsAreTyped DEF ReturnInv
<1>2. IsFiniteSet(K)
  BY ReturnsAssumption, FS_Interval DEF Months
<1>3. \A b \in S : kind[b] \in K
  BY <1>1 DEF Bill
<1>4. \A b \in S : f[b] = 1 /\ f[b] \in Int
  OBVIOUS
<1> DEFINE part == [m \in K |-> InPeriod(m)]
<1>5. \A m \in K : part[m] = {b \in S : kind[b] = m}
  BY DEF InPeriod, ReturnInv, ClassesFit
<1>6. \A m \in K : g[m] = SumFunctionOnSet(f, part[m])
  <2> SUFFICES ASSUME NEW m \in K PROVE g[m] = SumFunctionOnSet(f, part[m])
    OBVIOUS
  <2> DEFINE T == InPeriod(m)
  <2>1. part[m] = T /\ g[m] = Cardinality(T)
    BY DEF DocsIssued
  <2>2. T \in SUBSET S
    BY DEF InPeriod
  <2>3. IsFiniteSet(T) /\ \A b \in T : f[b] = 1
    BY <1>1, <1>4, <2>2, FS_Subset
  <2> HIDE DEF T, f, g, part
  <2>4. SumFunctionOnSet(f, T) = Cardinality(T)
    BY <2>3, SumOfOnes
  <2> QED
    BY <2>1, <2>4
<1>7. SumFunction(g) = SumFunctionOnSet(g, K)
  BY DEF SumFunction
<1> HIDE DEF S, K, kind, f, g, part
<1>8. SumFunctionOnSet(g, K) = SumFunctionOnSet(f, S)
  BY <1>1, <1>2, <1>3, <1>4, <1>5, <1>6, SumOfKinds
<1>9. SumFunctionOnSet(f, S) = Cardinality(S)
  BY <1>1, <1>4, SumOfOnes
<1> QED
  BY <1>7, <1>8, <1>9 DEF g, S

(* ReturnsReconcile: the sections of GSTR-1 partition the invoices of a    *)
(* month and so add up to its summary and to GSTR-3B, for any number of    *)
(* invoices, notes and months; every number of the series is counted; what *)
(* was filed stands, and no invoice is credited beyond its value.          *)
THEOREM ReturnsAddUp == ReturnSpec => []ReturnsReconcile
<1>1. ReturnInv => ReturnsReconcile
  <2> SUFFICES ASSUME ReturnInv PROVE ReturnsReconcile
    OBVIOUS
  <2>1. \A m \in Months : SectionsCover(m) /\ ReturnsAgree(m)
    BY SectionsAddUp, ReturnsDeclareTheSame
  <2>2. \A n \in IssuedNotes : Issued(note[n].of) \/ n \in orphans
    BY DEF ReturnInv, NotesFit, IssuedNotes
  <2> QED
    BY <2>1, <2>2, NumbersAreCounted DEF ReturnInv, ReturnsReconcile, FiledStand, CreditsFit
<1> QED
  BY <1>1, NothingToReturn, ReturnNextKeeps, PTL DEF ReturnSpec

-----------------------------------------------------------------------------
(* The price of a line.  A line that is there was made by the engine, from *)
(* lists, rules and rates that were in force then (LineFits), so that what *)
(* the engine computes holds of it for good: the winning rule is one of    *)
(* those eligible, since a code is unique; its unit price is at or above   *)
(* what the rule takes off, and its cap, divided back over the quantity,   *)
(* gives away what it says.  The parts were billed from the order as it    *)
(* was approved (PartsFit), each rounded from the stored unit price: the   *)
(* half units of the roundings add up (RoundingsAddUp, PartsFollow).       *)
Fraction == [n : Nat, d : Nat \ {0}]
TaxRow   == [rate : Percentages, cess : Percentages, from : 1..LastDay,
             to : Int \cup {OpenEnded}]
LineFigures  == [taxable : Nat, cgst : Nat, sgst : Nat, igst : Nat, cess : Nat]

(* A line is of the engine's making.                                       *)
LineFits(line) ==
    /\ line.quantity \in Nat \ {0} /\ line.listed \in Nat /\ line.unit \in Fraction
    /\ line.tax \in [rate : Percentages, cess : Percentages]
    /\ line.supply \in Supplies /\ line.day \in Nat
    /\ line.figures = Taxed(Times(line.unit, line.quantity), line.tax, line.supply)
    /\ line.override = NoOverride => DiscountIsOneRule(line)

MarketFits ==
    /\ today \in Nat /\ list \in PriceLists /\ rules \in SUBSET Rules
    /\ taxRates \in SUBSET TaxRow

(* Every part was billed from the order as it was approved.                *)
PartsFit ==
    /\ billed \in Seq([quantity : Nat \ {0}, figures : LineFigures])
    /\ \A i \in 1..Len(billed) : billed[i].figures = DraftFigures(ordered, billed[i].quantity)
    /\ approved => ordered # NoLine
    /\ ~approved => billed = <<>>

PriceInv ==
    /\ MarketFits
    /\ \A line \in Lines : LineFits(line)
    /\ PartsFit

(***************************************************************************)
(* The engine                                                              *)
(***************************************************************************)
LEMMA ListPriceIsStated ==
    ASSUME list \in PriceLists, NEW quantity \in Nat, HasPrice(quantity)
    PROVE  ListPrice(quantity) \in Nat
<1> DEFINE S == {m \in DOMAIN list : m <= quantity}
           g == [m \in S |-> m]
<1>1. DOMAIN list \subseteq Nat \ {0} /\ \A m \in DOMAIN list : list[m] \in Nat
  BY PricesAssumption
<1>2. S # {} /\ S \subseteq 1..quantity
  BY <1>1 DEF HasPrice
<1>3. IsFiniteSet(S)
  <2>1. IsFiniteSet(1..quantity)
    BY FS_Interval
  <2> HIDE DEF S
  <2> QED
    BY <1>2, <2>1, FS_Subset
<1>4. \A m \in S : g[m] = m /\ g[m] \in Int
  BY <1>1
<1>5. \E x \in S : \A y \in S : g[x] >= g[y]
  <2> HIDE DEF S, g
  <2> QED
    BY <1>2, <1>3, <1>4, GreatestExists
<1>6. \E x \in S : \A y \in S : x >= y
  BY <1>4, <1>5
<1>7. Max(S) \in S
  BY <1>6 DEF Max
<1> QED
  BY <1>1, <1>7 DEF ListPrice

(* The rules that come first by some figure.                               *)
LEMMA FirstExists ==
    ASSUME NEW S, IsFiniteSet(S), S # {}, NEW g, \A r \in S : g[r] \in Nat
    PROVE  \E r \in S : \A s \in S : g[r] <= g[s]
<1> DEFINE h == [r \in S |-> -g[r]]
<1>1. \A r \in S : h[r] \in Int /\ h[r] = -g[r]
  OBVIOUS
<1>2. \E r \in S : \A s \in S : h[r] >= h[s]
  <2> HIDE DEF h
  <2> QED
    BY <1>1, GreatestExists
<1>3. PICK r \in S : \A s \in S : h[r] >= h[s]
  BY <1>2
<1>4. ASSUME NEW s \in S PROVE g[r] <= g[s]
  <2>1. g[r] \in Nat /\ g[s] \in Nat /\ h[r] >= h[s] /\ h[r] = -g[r] /\ h[s] = -g[s]
    BY <1>1, <1>3
  <2> HIDE DEF h
  <2> QED
    BY <2>1
<1> QED
  BY <1>4

(* Among rules of different codes one outranks all others.                 *)
LEMMA OneOutranks ==
    ASSUME NEW found \in SUBSET Rules, found # {}
    PROVE  \E r \in found : \A s \in found \ {r} : Outranks(r, s)
<1>1. IsFiniteSet(found)
  BY FS_Subset, PricesAssumption
<1>2. \A r \in found : r.priority \in Nat /\ r.scope \in Nat /\ r.code \in Nat
  BY PricesAssumption DEF RuleRows
<1>3. PICK p \in found : \A s \in found : p.priority <= s.priority
  <2> DEFINE g == [r \in found |-> r.priority]
  <2>1. \A r \in found : g[r] \in Nat /\ g[r] = r.priority
    BY <1>2
  <2> HIDE DEF g
  <2>2. \E r \in found : \A s \in found : g[r] <= g[s]
    BY <1>1, <2>1, FirstExists
  <2> QED
    BY <2>1, <2>2
<1> DEFINE A == {r \in found : r.priority = p.priority}
<1>4. IsFiniteSet(A) /\ A # {} /\ A \subseteq found
  BY <1>1, FS_Subset
<1>5. PICK q \in A : \A s \in A : q.scope <= s.scope
  <2> DEFINE g == [r \in A |-> r.scope]
  <2>1. \A r \in A : g[r] \in Nat /\ g[r] = r.scope
    BY <1>2
  <2> HIDE DEF g, A
  <2>2. \E r \in A : \A s \in A : g[r] <= g[s]
    BY <1>4, <2>1, FirstExists
  <2> QED
    BY <2>1, <2>2
<1> DEFINE B == {r \in A : r.scope = q.scope}
<1>6. IsFiniteSet(B) /\ B # {} /\ B \subseteq found
  BY <1>4, FS_Subset
<1>7. PICK w \in B : \A s \in B : w.code <= s.code
  <2> DEFINE g == [r \in B |-> r.code]
  <2>1. \A r \in B : g[r] \in Nat /\ g[r] = r.code
    BY <1>2
  <2> HIDE DEF g, B
  <2>2. \E r \in B : \A s \in B : g[r] <= g[s]
    BY <1>6, <2>1, FirstExists
  <2> QED
    BY <2>1, <2>2
<1>8. ASSUME NEW s \in found \ {w} PROVE Outranks(w, s)
  <2>1. w \in found /\ w.priority = p.priority /\ w.scope = q.scope
    OBVIOUS
  <2>2. CASE s \notin A
    <3>1. w.priority < s.priority
      BY <1>2, <1>3, <2>1, <2>2
    <3> QED
      BY <3>1 DEF Outranks
  <2>3. CASE s \in A /\ s \notin B
    <3>1. w.priority = s.priority /\ w.scope < s.scope
      BY <1>2, <1>5, <2>1, <2>3
    <3> QED
      BY <3>1 DEF Outranks
  <2>4. CASE s \in B
    <3>1. w.priority = s.priority /\ w.scope = s.scope /\ w.code <= s.code
      BY <1>7, <2>1, <2>4
    <3>2. w.code # s.code
      BY <1>8, <2>1, PricesAssumption
    <3>3. w.code < s.code
      BY <1>2, <2>1, <3>1, <3>2
    <3> QED
      BY <3>1, <3>3 DEF Outranks
  <2> QED
    BY <2>2, <2>3, <2>4
<1> QED
  BY <1>6, <1>8

LEMMA WinnerIsEligible ==
    ASSUME rules \in SUBSET Rules, NEW listed, NEW quantity, Winner(listed, quantity) # NoRule
    PROVE  Winner(listed, quantity) \in Eligible(listed, quantity)
<1>1. Eligible(listed, quantity) \in SUBSET Rules
  BY DEF Eligible
<1>2. Eligible(listed, quantity) # {}
  BY DEF Winner
<1> HIDE DEF Eligible
<1>3. \E r \in Eligible(listed, quantity) : \A s \in Eligible(listed, quantity) \ {r} : Outranks(r, s)
  BY <1>1, <1>2, OneOutranks
<1> QED
  BY <1>2, <1>3 DEF Winner

LEMMA TakenOffFits ==
    ASSUME NEW r \in Rules, NEW listed \in Nat
    PROVE  /\ TakenOff(r, listed).d = 100 /\ TakenOff(r, listed).n \in Nat
           /\ TakenOff(r, listed).n <= listed * 100
<1>1. r.kind \in {"PERCENT", "FLAT"} /\ r.value \in Nat /\ (r.kind = "PERCENT" => r.value <= 100)
  BY PricesAssumption DEF RuleRows
<1>2. PICK v \in Nat : v = r.value
  BY <1>1
<1>3. CASE r.kind = "PERCENT"
  <2>1. v <= 100
    BY <1>1, <1>2, <1>3
  <2>2. PICK n \in Int : n = listed * (100 - v)
    BY <1>2
  <2>3. 0 <= n /\ n <= listed * 100
    BY <2>1, <2>2, SMTT(30)
  <2> QED
    BY <1>2, <1>3, <2>2, <2>3 DEF TakenOff
<1>4. CASE r.kind # "PERCENT"
  <2>1. PICK n \in Int : n = 100 * (listed - v) /\ n <= listed * 100
    BY <1>2
  <2>2. TakenOff(r, listed) = [n |-> IF n < 0 THEN 0 ELSE n, d |-> 100]
    BY <1>2, <1>4, <2>1 DEF TakenOff
  <2>3. (IF n < 0 THEN 0 ELSE n) \in Nat /\ (IF n < 0 THEN 0 ELSE n) <= listed * 100
    BY <2>1
  <2> QED
    BY <2>2, <2>3
<1> QED
  BY <1>3, <1>4

(* Whatever the rule: a fraction, not below nothing; and no more given     *)
(* away than the rule, with its cap on the line, allows.                   *)
LEMMA CappedFits ==
    ASSUME NEW r \in Rules, NEW listed \in Nat, NEW quantity \in Nat \ {0}, NEW unit,
           unit = Capped(r, listed, quantity, TakenOff(r, listed))
    PROVE  /\ unit \in Fraction
           /\ r.cap = NoCap \/ (listed * unit.d - unit.n) * quantity <= r.cap * unit.d
           /\ TakenOff(r, listed).n * unit.d <= unit.n * 100
<1>1. PICK n \in Nat : n = TakenOff(r, listed).n /\ n <= listed * 100
  BY TakenOffFits
<1>2. TakenOff(r, listed).d = 100
  BY TakenOffFits
<1>3. r.cap \in Nat \cup {NoCap}
  BY PricesAssumption DEF RuleRows
<1>4. CASE r.cap # NoCap /\ (listed * 100 - n) * quantity > r.cap * 100
  <2>1. unit = [n |-> listed * quantity - r.cap, d |-> quantity]
    BY <1>1, <1>2, <1>4 DEF Capped
  <2>2. PICK c \in Nat : c = r.cap
    BY <1>3, <1>4
  <2>3. PICK a \in Nat, b \in Nat : a = listed * quantity /\ b = n * quantity
    BY SMTT(30)
  <2>4. (listed * 100 - n) * quantity = 100 * a - b
    BY <2>3, SMTT(30)
  <2>5. 100 * a - b > c * 100
    BY <1>4, <2>2, <2>4
  <2>6. a - c \in Nat /\ b <= (a - c) * 100
    BY <2>2, <2>3, <2>5
  <2>7. unit.n = a - c /\ unit.d = quantity /\ unit \in Fraction
    BY <2>1, <2>2, <2>3, <2>6 DEF Fraction
  <2>8. (a - (a - c)) * quantity <= c * quantity
    BY <2>2, <2>3
  <2> QED
    BY <1>1, <2>2, <2>3, <2>6, <2>7, <2>8
<1>5. CASE ~(r.cap # NoCap /\ (listed * 100 - n) * quantity > r.cap * 100)
  <2>1. unit = TakenOff(r, listed)
    BY <1>1, <1>2, <1>5 DEF Capped
  <2>2. unit.n = n /\ unit.d = 100
    BY <1>1, <1>2, <2>1
  <2>3. unit \in Fraction
    <3>1. unit = [n |-> unit.n, d |-> unit.d]
      BY <2>1 DEF TakenOff
    <3> QED
      BY <2>2, <3>1 DEF Fraction
  <2>4. ASSUME r.cap # NoCap PROVE (listed * 100 - n) * quantity <= r.cap * 100
    <3>1. (listed * 100 - n) * quantity \in Int /\ r.cap * 100 \in Int
      BY <1>3, <2>4
    <3> QED
      BY <1>5, <2>4, <3>1
  <2> QED
    BY <1>1, <2>2, <2>3, <2>4
<1> QED
  BY <1>4, <1>5

LEMMA UnitPriceFits ==
    ASSUME MarketFits, NEW listed \in Nat, NEW quantity \in Nat \ {0},
           NEW override \in OverridePrices \cup {NoOverride},
           NEW unit, unit = UnitPrice(listed, quantity, override)
    PROVE  /\ unit \in Fraction
           /\ override = NoOverride =>
                  \/ (listed * unit.d - unit.n) * quantity = 0
                  \/ \E r \in Eligible(listed, quantity) :
                         /\ r.cap = NoCap \/ (listed * unit.d - unit.n) * quantity <= r.cap * unit.d
                         /\ TakenOff(r, listed).n * unit.d <= unit.n * 100
<1> DEFINE r == Winner(listed, quantity)
<1>1. CASE override # NoOverride
  <2>1. override \in Nat
    BY <1>1, PricesAssumption
  <2> QED
    BY <1>1, <2>1 DEF UnitPrice, Fraction
<1>2. CASE override = NoOverride /\ r = NoRule
  <2>1. unit = [n |-> listed, d |-> 1]
    BY <1>2 DEF UnitPrice
  <2>2. unit.n = listed /\ unit.d = 1
    BY <2>1
  <2>3. (listed * 1 - listed) * quantity = 0
    OBVIOUS
  <2> QED
    BY <2>1, <2>2, <2>3 DEF Fraction
<1>3. CASE override = NoOverride /\ r # NoRule
  <2>1. r \in Eligible(listed, quantity)
    BY <1>3, WinnerIsEligible DEF MarketFits
  <2>2. PICK w \in Rules : w = r
    BY <2>1 DEF Eligible, MarketFits
  <2>3. unit = Capped(w, listed, quantity, TakenOff(w, listed))
    BY <1>3, <2>2 DEF UnitPrice
  <2>4. /\ unit \in Fraction
        /\ w.cap = NoCap \/ (listed * unit.d - unit.n) * quantity <= w.cap * unit.d
        /\ TakenOff(w, listed).n * unit.d <= unit.n * 100
    BY <2>3, CappedFits
  <2> HIDE DEF r
  <2> QED
    BY <2>1, <2>2, <2>4
<1> QED
  BY <1>1, <1>2, <1>3

LEMMA RateFits ==
    ASSUME MarketFits, NEW day
    PROVE  RateOn(day) \in [rate : Percentages, cess : Percentages]
<1>1. CASE Covering(day) = {}
  <2>1. RateOn(day) = [rate |-> SnapshotRate, cess |-> 0]
    BY <1>1 DEF RateOn
  <2>2. SnapshotRate \in Percentages /\ 0 \in Percentages
    BY PricesAssumption DEF Percentages
  <2> QED
    BY <2>1, <2>2
<1>2. CASE Covering(day) # {}
  <2> DEFINE C == Covering(day)
             D == {t.from : t \in C}
             g == [x \in D |-> x]
  <2>1. C \subseteq TaxRow
    BY DEF MarketFits, Covering
  <2>2. D # {} /\ D \subseteq 1..LastDay /\ \A t \in C : t.from \in D
    BY <1>2, <2>1 DEF TaxRow
  <2>3. IsFiniteSet(D)
    <3>1. IsFiniteSet(1..LastDay)
      BY FS_Interval, PricesAssumption
    <3> HIDE DEF D
    <3> QED
      BY <2>2, <3>1, FS_Subset
  <2>4. \A x \in D : g[x] = x /\ g[x] \in Int
    BY <2>2
  <2>5. PICK x \in D : \A y \in D : x >= y
    <3> HIDE DEF D, g
    <3>1. \E x \in D : \A y \in D : g[x] >= g[y]
      BY <2>2, <2>3, <2>4, GreatestExists
    <3> QED
      BY <2>4, <3>1
  <2>6. PICK t \in C : t.from = x
    OBVIOUS
  <2>7. \A s \in C : s.from <= t.from
    <3>1. \A y \in D : y \in Int /\ x \in Int
      BY <2>2
    <3> QED
      BY <2>2, <2>5, <2>6, <3>1
  <2>8. (CHOOSE u \in C : \A s \in C : s.from <= u.from) \in C
    <3> HIDE DEF C
    <3> QED
      BY <2>7
  <2> QED
    BY <1>2, <2>1, <2>8 DEF RateOn, TaxRow
<1> QED
  BY <1>1, <1>2

LEMMA PricedFits ==
    ASSUME MarketFits, NEW quantity \in Nat \ {0}, HasPrice(quantity),
           NEW override \in OverridePrices \cup {NoOverride}, NEW supply \in Supplies, NEW day \in Nat
    PROVE  LineFits(Priced(quantity, override, supply, day))
<1>1. PICK listed \in Nat : listed = ListPrice(quantity)
  BY ListPriceIsStated DEF MarketFits
<1>2. PICK unit : unit = UnitPrice(listed, quantity, override)
  OBVIOUS
<1>3. PICK tax : tax = RateOn(day)
  OBVIOUS
<1> DEFINE line == Priced(quantity, override, supply, day)
<1>4. line = [quantity |-> quantity, override |-> override, supply |-> supply, day |-> day,
              listed |-> listed, unit |-> unit, tax |-> tax,
              candidates |-> Eligible(listed, quantity),
              figures |-> Taxed(Times(unit, quantity), tax, supply)]
  BY <1>1, <1>2, <1>3 DEF Priced
<1>5. /\ line.quantity = quantity /\ line.override = override /\ line.supply = supply /\ line.day = day
      /\ line.listed = listed /\ line.unit = unit /\ line.tax = tax
      /\ line.candidates = Eligible(listed, quantity)
      /\ line.figures = Taxed(Times(unit, quantity), tax, supply)
  BY <1>4
<1>6. tax \in [rate : Percentages, cess : Percentages]
  BY <1>3, RateFits
<1>7. /\ unit \in Fraction
      /\ override = NoOverride =>
             \/ (listed * unit.d - unit.n) * quantity = 0
             \/ \E r \in Eligible(listed, quantity) :
                    /\ r.cap = NoCap \/ (listed * unit.d - unit.n) * quantity <= r.cap * unit.d
                    /\ TakenOff(r, listed).n * unit.d <= unit.n * 100
  BY <1>2, UnitPriceFits
<1> HIDE DEF line
<1>8. override = NoOverride => DiscountIsOneRule(line)
  BY <1>5, <1>7 DEF DiscountIsOneRule, GivenAway
<1> QED
  BY <1>5, <1>6, <1>7, <1>8 DEF LineFits, line

(***************************************************************************)
(* Taxes                                                                   *)
(***************************************************************************)
LEMMA PercentFits ==
    ASSUME NEW value \in Fraction, NEW rate \in Percentages
    PROVE  /\ Percent(value, rate) \in Nat /\ HalfPercent(value, rate) \in Nat
           /\ RoundHalfUp(value.n, value.d * PerPaisa) \in Nat
           /\ Magnitude(Percent(value, rate) - 2 * HalfPercent(value, rate)) <= 1
<1>1. PICK n \in Nat, d \in Nat \ {0} : n = value.n /\ d = value.d
  BY DEF Fraction
<1>2. rate \in Nat
  BY DEF Percentages
<1>3. PICK a \in Nat : a = n * rate
  BY <1>2
<1>4. PICK b \in Nat \ {0} : b = d * 100 * PerPaisa
  BY DEF PerPaisa
<1>5. 2 * d * 100 * PerPaisa = 2 * b /\ 2 * b \in Nat \ {0}
  BY <1>4 DEF PerPaisa
<1>6. d * PerPaisa \in Nat \ {0}
  BY DEF PerPaisa
<1>7. Percent(value, rate) = RoundHalfUp(a, b) /\ HalfPercent(value, rate) = RoundHalfUp(a, 2 * b)
  BY <1>1, <1>3, <1>4, <1>5 DEF Percent, HalfPercent
<1>8. PICK p \in Nat, h \in Nat : p = RoundHalfUp(a, b) /\ h = RoundHalfUp(a, 2 * b)
  BY <1>5, RoundingDivides
<1>9. (2 * b) * p <= 2 * a + b /\ 2 * a + b < (2 * b) * p + 2 * b
  BY <1>8, RoundingDivides
<1>10. (2 * (2 * b)) * h <= 2 * a + 2 * b /\ 2 * a + 2 * b < (2 * (2 * b)) * h + 2 * (2 * b)
  BY <1>5, <1>8, RoundingDivides
<1>11. PICK x \in Int : x = p - 2 * h
  OBVIOUS
<1>12. PICK y \in Int : y = b * x
  OBVIOUS
<1>13. (2 * b) * p - (2 * (2 * b)) * h = 2 * y
  BY <1>11, <1>12, SMTT(30)
<1>14. 2 * y < 3 * b /\ -(3 * b) < 2 * y
  BY <1>9, <1>10, <1>13
<1>15. x <= 1
  <2>1. x >= 2 => y >= 2 * b
    BY <1>12, SMTT(30)
  <2> QED
    BY <1>14, <2>1
<1>16. x >= -1
  <2>1. x <= -2 => y <= -(2 * b)
    BY <1>12, SMTT(30)
  <2> QED
    BY <1>14, <2>1
<1>17. Magnitude(x) <= 1
  BY <1>15, <1>16 DEF Magnitude
<1>18. RoundHalfUp(n, d * PerPaisa) \in Nat
  BY <1>6, RoundingDivides
<1> QED
  BY <1>1, <1>7, <1>8, <1>11, <1>17, <1>18

LEMMA TaxedFits ==
    ASSUME NEW value \in Fraction, NEW tax \in [rate : Percentages, cess : Percentages], NEW supply
    PROVE  Taxed(value, tax, supply) \in LineFigures
<1>1. tax.rate \in Percentages /\ tax.cess \in Percentages
  OBVIOUS
<1>2. /\ Percent(value, tax.rate) \in Nat /\ HalfPercent(value, tax.rate) \in Nat
      /\ Percent(value, tax.cess) \in Nat /\ RoundHalfUp(value.n, value.d * PerPaisa) \in Nat
  BY <1>1, PercentFits
<1> QED
  BY <1>2 DEF Taxed, LineFigures

LEMMA TimesFits ==
    ASSUME NEW unit \in Fraction, NEW quantity \in Nat
    PROVE  /\ Times(unit, quantity) \in Fraction
           /\ Times(unit, quantity).n = unit.n * quantity /\ Times(unit, quantity).d = unit.d
BY DEF Times, Fraction

(* The tax is the same to the paisa whatever the place of supply.          *)
LEMMA LinesAddUp ==
    ASSUME NEW line, LineFits(line)
    PROVE  TaxesAddUp(line)
<1> DEFINE value == Times(line.unit, line.quantity)
           tax   == line.tax
           f     == line.figures
           inter == Taxed(value, tax, "INTER")
           intra == Taxed(value, tax, "INTRA")
<1>1. value \in Fraction /\ tax \in [rate : Percentages, cess : Percentages]
  BY TimesFits DEF LineFits
<1>2. PICK p, h, t, c : /\ p = Percent(value, tax.rate) /\ h = HalfPercent(value, tax.rate)
                        /\ c = Percent(value, tax.cess) /\ t = RoundHalfUp(value.n, value.d * PerPaisa)
  OBVIOUS
<1>3. p \in Nat /\ h \in Nat /\ c \in Nat /\ t \in Nat /\ Magnitude(p - 2 * h) <= 1
  <2>1. tax.rate \in Percentages /\ tax.cess \in Percentages
    BY <1>1
  <2> HIDE DEF value, tax
  <2> QED
    BY <1>1, <1>2, <2>1, PercentFits
<1>4. /\ inter = [taxable |-> t, cgst |-> 0, sgst |-> 0, igst |-> p, cess |-> c]
      /\ intra = [taxable |-> t, cgst |-> h, sgst |-> h, igst |-> 0, cess |-> c]
  BY <1>2 DEF Taxed
<1>5. Net(inter) = t + p + c /\ Net(intra) = t + 2 * h + c
  <2>1. Net(inter) = t + 0 + 0 + p + c /\ Net(intra) = t + h + h + 0 + c
    BY <1>4 DEF Net
  <2> QED
    BY <1>3, <2>1
<1>6. (f = inter /\ line.supply = "INTER") \/ (f = intra /\ line.supply = "INTRA")
  BY DEF LineFits, Supplies
<1>7. Magnitude(Net(inter) - Net(intra)) <= 1 /\ Magnitude(Net(intra) - Net(inter)) <= 1
  BY <1>3, <1>5 DEF Magnitude
<1>8. PICK net \in Nat : net = Net(f)
  BY <1>3, <1>5, <1>6
<1>9. Magnitude(Grand(f) - Net(f)) <= 50
  <2>1. PICK g \in Nat : g = RoundHalfUp(net, 100) /\ 2 * Magnitude(100 * g - net) <= 100
    BY RoundingIsHalfOff
  <2>2. Magnitude(100 * g - net) <= 50
    BY <2>1 DEF Magnitude
  <2> QED
    BY <1>8, <2>1, <2>2 DEF Grand
<1> HIDE DEF inter, intra
<1>10. Magnitude(Net(f) - Net(Taxed(value, tax, IF line.supply = "INTRA" THEN "INTER" ELSE "INTRA"))) <= 1
  <2>1. CASE line.supply = "INTRA"
    BY <1>6, <1>7, <2>1 DEF inter
  <2>2. CASE line.supply # "INTRA"
    BY <1>6, <1>7, <2>2 DEF intra
  <2> QED
    BY <2>1, <2>2
<1> QED
  BY <1>9, <1>10 DEF TaxesAddUp

(***************************************************************************)
(* Parts                                                                   *)
(***************************************************************************)
(* Each rounding is off by half a unit at most, and so is their sum by as  *)
(* many halves.                                                            *)
LEMMA RoundingsAddUp ==
    ASSUME NEW S, IsFiniteSet(S), NEW f, NEW q, NEW k \in Nat, NEW D \in Nat,
           \A i \in S : f[i] \in Nat /\ q[i] \in Nat /\ 2 * Magnitude(D * f[i] - k * q[i]) <= D
    PROVE  /\ SumFunctionOnSet(f, S) \in Int /\ SumFunctionOnSet(q, S) \in Int
           /\ 2 * Magnitude(D * SumFunctionOnSet(f, S) - k * SumFunctionOnSet(q, S))
                  <= D * Cardinality(S)
<1> DEFINE Holds(T) == 2 * Magnitude(D * SumFunctionOnSet(f, T) - k * SumFunctionOnSet(q, T))
                           <= D * Cardinality(T)
           F == {T \in SUBSET S : Holds(T)}
<1>1. \A T \in SUBSET S : /\ IsFiniteSet(T) /\ Cardinality(T) \in Nat
                          /\ SumFunctionOnSet(f, T) \in Int /\ SumFunctionOnSet(q, T) \in Int
  BY FS_Subset, FS_CardinalityType, SumIsInt
<1>2. {} \in F
  BY SumOfNone, FS_EmptySet DEF Magnitude
<1>3. ASSUME NEW T \in SUBSET S, NEW x \in S \ T, T \in F PROVE T \cup {x} \in F
  <2>1. /\ SumFunctionOnSet(f, T \cup {x}) = f[x] + SumFunctionOnSet(f, T)
        /\ SumFunctionOnSet(q, T \cup {x}) = q[x] + SumFunctionOnSet(q, T)
        /\ Cardinality(T \cup {x}) = Cardinality(T) + 1
    <3>1. IsFiniteSet(T) /\ x \notin T /\ f[x] \in Int /\ q[x] \in Int
      BY <1>1
    <3>2. \A y \in T : f[y] \in Int /\ q[y] \in Int
      OBVIOUS
    <3> HIDE DEF Holds, F
    <3> QED
      BY <3>1, <3>2, SumAdd, FS_AddElement
  <2>2. PICK a \in Int, b \in Int, c \in Nat :
            a = SumFunctionOnSet(f, T) /\ b = SumFunctionOnSet(q, T) /\ c = Cardinality(T)
    BY <1>1
  <2>3. PICK y \in Nat, z \in Nat : y = f[x] /\ z = q[x] /\ 2 * Magnitude(D * y - k * z) <= D
    OBVIOUS
  <2>4. 2 * Magnitude(D * a - k * b) <= D * c
    BY <1>3, <2>2
  <2>5. D * (y + a) - k * (z + b) = (D * y - k * z) + (D * a - k * b) /\ D * (c + 1) = D * c + D
    BY SMTT(30)
  <2>6. PICK u \in Int, v \in Int, w \in Int : u = D * y - k * z /\ v = D * a - k * b /\ w = D * c
    OBVIOUS
  <2>7. 2 * Magnitude(u + v) <= w + D
    BY <2>3, <2>4, <2>6 DEF Magnitude
  <2>8. 2 * Magnitude(D * (y + a) - k * (z + b)) <= D * (c + 1)
    BY <2>5, <2>6, <2>7
  <2> QED
    BY <2>1, <2>2, <2>3, <2>8
<1> HIDE DEF F
<1>4. S \in F
  BY <1>2, <1>3, SetInduction
<1> QED
  BY <1>1, <1>4 DEF F

(* A head of an order of a quantity Q at n / d, and what its parts, taxed  *)
(* from the stored price s, come to: r / D of the value each.              *)
PartsRounded(d, D, n, s, r, Q, c, sum, g) ==
    /\ d \in Nat \ {0} /\ D \in Nat \ {0} /\ n \in Nat /\ s \in Nat /\ r \in Nat
    /\ Q \in Nat /\ c \in Nat /\ sum \in Int /\ g \in Nat
    /\ 100 * r <= D
    /\ 2 * Magnitude(d * s - n) <= d
    /\ 2 * Magnitude(D * sum - (s * r) * Q) <= D * c
    /\ 2 * Magnitude((d * D) * g - (n * Q) * r) <= d * D

LEMMA PartsFollow ==
    ASSUME NEW d, NEW D, NEW n, NEW s, NEW r, NEW Q, NEW c, NEW sum, NEW g,
           PartsRounded(d, D, n, s, r, Q, c, sum, g)
    PROVE  200 * Magnitude(sum - g) <= 100 * (c + 1) + Q
<1> USE DEF PartsRounded
<1>1. PICK w \in Nat, x \in Int, z \in Int : w = r * Q /\ x = D * sum /\ z = D * g
  BY SMTT(30)
<1>2. PICK y \in Nat, v \in Nat : y = s * w /\ v = n * w
  BY SMTT(30)
<1>3. (s * r) * Q = y /\ (n * Q) * r = v /\ (d * D) * g = d * z
  BY <1>1, <1>2, SMTT(30)
<1>4. PICK e \in Nat : e = D * c
  BY SMTT(30)
<1>5. 2 * (x - y) <= e /\ 2 * (y - x) <= e
  BY <1>1, <1>3, <1>4 DEF Magnitude
<1>6. PICK p \in Int : p = d * s - n
  OBVIOUS
<1>7. 2 * p <= d /\ -(2 * p) <= d
  BY <1>6 DEF Magnitude
<1>8. d * y - v = p * w
  BY <1>2, <1>6, SMTT(30)
<1>9. 2 * (p * w) <= d * w /\ -(2 * (p * w)) <= d * w
  <2>1. ASSUME NEW a \in Int, NEW b \in Int, a <= b PROVE a * w <= b * w
    BY <2>1, SMTT(30)
  <2>2. (2 * p) * w = 2 * (p * w) /\ (-(2 * p)) * w = -(2 * (p * w))
    BY SMTT(30)
  <2> QED
    BY <1>7, <2>1, <2>2
<1>10. PICK dD \in Nat : dD = d * D
  BY SMTT(30)
<1>11. 2 * (v - d * z) <= dD /\ 2 * (d * z - v) <= dD
  <2>1. 2 * Magnitude(d * z - v) <= dD
    BY <1>3, <1>10
  <2>2. PICK a \in Int : a = d * z
    OBVIOUS
  <2> QED
    BY <2>1, <2>2 DEF Magnitude
<1>12. PICK u \in Int : u = x - z
  OBVIOUS
<1>13. d * u = (d * (x - y)) + (p * w) + (v - d * z)
  <2>1. d * u = d * x - d * z /\ d * (x - y) = d * x - d * y
    BY <1>12, SMTT(30)
  <2>2. d * x \in Int /\ d * y \in Int /\ d * z \in Int /\ p * w \in Int
    OBVIOUS
  <2> QED
    BY <1>8, <2>1, <2>2
<1>14. 2 * (d * (x - y)) <= d * e /\ -(2 * (d * (x - y))) <= d * e
  <2>1. ASSUME NEW a \in Int, NEW b \in Int, a <= b PROVE d * a <= d * b
    BY <2>1, SMTT(30)
  <2>2. d * (2 * (x - y)) = 2 * (d * (x - y)) /\ d * (2 * (y - x)) = -(2 * (d * (x - y)))
    BY SMTT(30)
  <2> QED
    BY <1>5, <2>1, <2>2
<1>15. 2 * u <= e + w + D /\ -(2 * u) <= e + w + D
  <2>1. PICK m \in Nat : m = e + w + D
    OBVIOUS
  <2>2. d * m = d * e + d * w + dD
    BY <1>10, <2>1, SMTT(30)
  <2>3. PICK i \in Int, j \in Int, k \in Int, l \in Int, o \in Int :
            i = d * u /\ j = d * (x - y) /\ k = p * w /\ l = v - d * z /\ o = d * m
    OBVIOUS
  <2>4. d * e \in Int /\ d * w \in Int
    OBVIOUS
  <2>5. 2 * i <= o /\ -(2 * i) <= o
    BY <1>9, <1>11, <1>13, <1>14, <2>2, <2>3, <2>4
  <2>6. ASSUME NEW a \in Int, 2 * (d * a) <= d * m PROVE 2 * a <= m
    <3>1. d * (2 * a) = 2 * (d * a) /\ d * (m + 1) = d * m + d
      BY SMTT(30)
    <3>2. 2 * a >= m + 1 => d * (2 * a) >= d * (m + 1)
      BY SMTT(30)
    <3>3. d * m \in Int /\ d * a \in Int
      OBVIOUS
    <3> QED
      BY <2>6, <3>1, <3>2, <3>3
  <2>7. d * (-u) = -i
    BY <2>3, SMTT(30)
  <2>8. 2 * u <= m
    BY <2>3, <2>5, <2>6
  <2>9. -u \in Int /\ 2 * (d * (-u)) <= d * m
    BY <2>3, <2>5, <2>7
  <2>10. 2 * (-u) <= m
    BY <2>6, <2>9
  <2> QED
    BY <2>1, <2>8, <2>10
<1>16. 100 * w <= D * Q
  <2>1. ASSUME NEW a \in Nat, NEW b \in Nat, a <= b PROVE a * Q <= b * Q
    BY <2>1, SMTT(30)
  <2>2. (100 * r) * Q = 100 * w
    BY <1>1, SMTT(30)
  <2> QED
    BY <2>1, <2>2
<1>17. PICK gap \in Nat : gap = Magnitude(sum - g)
  <2>1. sum - g \in Int
    OBVIOUS
  <2>2. ASSUME NEW a \in Int PROVE Magnitude(a) \in Nat
    BY DEF Magnitude
  <2> QED
    BY <2>1, <2>2
<1>18. 200 * (D * gap) <= 100 * (e + D) + D * Q
  <2>1. D * gap = u \/ D * gap = -u
    <3>1. gap = sum - g \/ gap = g - sum
      BY <1>17 DEF Magnitude
    <3>2. D * (sum - g) = u /\ D * (g - sum) = -u
      BY <1>1, <1>12, SMTT(30)
    <3> QED
      BY <3>1, <3>2
  <2>2. D * Q \in Int
    OBVIOUS
  <2> QED
    BY <1>15, <1>16, <2>1, <2>2
<1>19. D * (200 * gap) <= D * (100 * (c + 1) + Q)
  <2>1. D * (200 * gap) = 200 * (D * gap) /\ D * (100 * (c + 1) + Q) = 100 * (D * c + D) + D * Q
    BY SMTT(30)
  <2> QED
    BY <1>4, <1>18, <2>1
<1>20. ASSUME NEW a \in Nat, NEW b \in Nat, D * a <= D * b PROVE a <= b
  BY <1>20, SMTT(30)
<1> QED
  BY <1>17, <1>19, <1>20

(* The parts of an order, at one head of its figures.                      *)
HeadRounded(L, q, f, unit, D, r, g, Q) ==
    /\ L \in Nat /\ unit \in Fraction /\ D \in Nat \ {0} /\ r \in Nat /\ g \in Nat /\ Q \in Nat
    /\ 100 * r <= D /\ Q = SumFunctionOnSet(q, 1..L)
    /\ \A i \in 1..L : /\ q[i] \in Nat
                       /\ f[i] = RoundHalfUp((RoundHalfUp(unit.n, unit.d) * q[i]) * r, D)
    /\ 2 * Magnitude((unit.d * D) * g - (unit.n * Q) * r) <= unit.d * D

LEMMA HeadFollows ==
    ASSUME NEW L, NEW q, NEW f, NEW unit, NEW D, NEW r, NEW g, NEW Q,
           HeadRounded(L, q, f, unit, D, r, g, Q)
    PROVE  /\ SumFunctionOnSet(f, 1..L) \in Int
           /\ 200 * Magnitude(SumFunctionOnSet(f, 1..L) - g) <= 100 * (L + 1) + Q
<1> USE DEF HeadRounded
<1>1. PICK n \in Nat, d \in Nat \ {0} : n = unit.n /\ d = unit.d
  BY DEF Fraction
<1>2. PICK s \in Nat : s = RoundHalfUp(n, d) /\ 2 * Magnitude(d * s - n) <= d
  BY RoundingIsHalfOff
<1>3. PICK k \in Nat : k = s * r
  BY SMTT(30)
<1>4. ASSUME NEW i \in 1..L
      PROVE  f[i] \in Nat /\ q[i] \in Nat /\ 2 * Magnitude(D * f[i] - k * q[i]) <= D
  <2>1. PICK m \in Nat : m = q[i]
    OBVIOUS
  <2>2. PICK a \in Nat : a = (s * m) * r
    BY SMTT(30)
  <2>3. a = k * m
    BY <1>3, <2>2, SMTT(30)
  <2>4. f[i] = RoundHalfUp(a, D)
    BY <1>1, <1>2, <2>1, <2>2
  <2>5. RoundHalfUp(a, D) \in Nat /\ 2 * Magnitude(D * RoundHalfUp(a, D) - a) <= D
    BY RoundingIsHalfOff
  <2> QED
    BY <2>1, <2>3, <2>4, <2>5
<1>5. IsFiniteSet(1..L) /\ Cardinality(1..L) = L
  BY FS_Interval
<1>6. /\ SumFunctionOnSet(f, 1..L) \in Int
      /\ 2 * Magnitude(D * SumFunctionOnSet(f, 1..L) - k * SumFunctionOnSet(q, 1..L))
             <= D * Cardinality(1..L)
  BY <1>4, <1>5, RoundingsAddUp
<1>7. PICK sum \in Int : sum = SumFunctionOnSet(f, 1..L)
  BY <1>6
<1>8. 2 * Magnitude(D * sum - (s * r) * Q) <= D * L
  BY <1>3, <1>5, <1>6, <1>7
<1>9. 2 * Magnitude((d * D) * g - (n * Q) * r) <= d * D
  BY <1>1
<1>10. 200 * Magnitude(sum - g) <= 100 * (L + 1) + Q
  <2>1. PartsRounded(d, D, n, s, r, Q, L, sum, g)
    BY <1>1, <1>2, <1>7, <1>8, <1>9, Zenon DEF PartsRounded
  <2> HIDE DEF HeadRounded
  <2> QED
    BY <2>1, PartsFollow
<1> QED
  BY <1>7, <1>10

(* A price without a fraction is billed, in one part, as it was ordered.   *)
LEMMA WholeFollows ==
    ASSUME NEW unit \in Fraction, unit.n % unit.d = 0, NEW D \in Nat \ {0}, NEW r \in Nat, NEW Q \in Nat
    PROVE  RoundHalfUp((RoundHalfUp(unit.n, unit.d) * Q) * r, D)
               = RoundHalfUp((unit.n * Q) * r, unit.d * D)
<1>1. PICK n \in Nat, d \in Nat \ {0} : n = unit.n /\ d = unit.d
  BY DEF Fraction
<1>2. PICK k \in Nat : n = d * k
  <2>1. n \div d \in Nat /\ n = d * (n \div d) + (n % d)
    BY SMTT(30)
  <2> QED
    BY <1>1, <2>1
<1>3. RoundHalfUp(n, d) = k
  <2>1. (2 * d) * k = 2 * n
    BY <1>2, SMTT(30)
  <2> QED
    BY <2>1, RoundingIsUnique
<1>4. PICK a \in Nat : a = (k * Q) * r
  BY SMTT(30)
<1>5. (n * Q) * r = d * a
  BY <1>2, <1>4, SMTT(30)
<1>6. RoundHalfUp(d * a, d * D) = RoundHalfUp(a, D)
  BY RoundingScales
<1> QED
  BY <1>1, <1>3, <1>4, <1>5, <1>6

(* Of a head of the figures: every part is taxed at r / D, and the order's *)
(* figure is a rounding of the same; where nothing is charged, r is zero.  *)
HeadFits(head, D, r) ==
    /\ D \in Nat \ {0} /\ r \in Nat /\ 100 * r <= D
    /\ ordered.figures[head] \in Nat
    /\ \A i \in 1..Len(billed) :
           billed[i].figures[head] = RoundHalfUp((StoredUnit(ordered) * billed[i].quantity) * r, D)
    /\ 2 * Magnitude((ordered.unit.d * D) * ordered.figures[head]
                     - (ordered.unit.n * ordered.quantity) * r) <= ordered.unit.d * D
    /\ ordered.unit.n % ordered.unit.d = 0 =>
           RoundHalfUp((StoredUnit(ordered) * ordered.quantity) * r, D) = ordered.figures[head]

LEMMA Entries == ASSUME NEW S, NEW s \in Seq(S) PROVE Len(s) \in Nat /\ \A i \in 1..Len(s) : s[i] \in S
OBVIOUS

LEMMA PartQuantities ==
    ASSUME PartsFit PROVE Len(billed) \in Nat /\ \A i \in 1..Len(billed) : billed[i].quantity \in Nat
<1> DEFINE Parts == [quantity : Nat \ {0}, figures : LineFigures]
<1>1. billed \in Seq(Parts)
  BY DEF PartsFit
<1>2. \A part \in Parts : part.quantity \in Nat
  OBVIOUS
<1> HIDE DEF Parts
<1> QED
  BY <1>1, <1>2, Entries

LEMMA TotalFollows ==
    ASSUME PartsFit, LineFits(ordered), BilledSoFar = ordered.quantity,
           NEW head, NEW D, NEW r, HeadFits(head, D, r)
    PROVE  LET gap == Magnitude(Total(head) - ordered.figures[head]) IN
           /\ 200 * gap <= 100 * (Len(billed) + 1) + ordered.quantity
           /\ Len(billed) = 1 /\ ordered.unit.n % ordered.unit.d = 0 => gap = 0
<1> DEFINE q == [i \in 1..Len(billed) |-> billed[i].quantity]
           f == [i \in 1..Len(billed) |-> billed[i].figures[head]]
<1>1. PICK L \in Nat : L = Len(billed) /\ \A i \in 1..L : billed[i].quantity \in Nat
  BY PartQuantities
<1>2. PICK Q \in Nat : Q = ordered.quantity /\ Q = SumFunctionOnSet(q, 1..L)
  BY <1>1 DEF LineFits, BilledSoFar
<1>3. PICK g \in Nat : g = ordered.figures[head]
  BY DEF HeadFits
<1>4. PICK unit \in Fraction : unit = ordered.unit
  BY DEF LineFits
<1>5. /\ D \in Nat \ {0} /\ r \in Nat /\ 100 * r <= D
      /\ 2 * Magnitude((unit.d * D) * g - (unit.n * Q) * r) <= unit.d * D
      /\ unit.n % unit.d = 0 => RoundHalfUp((RoundHalfUp(unit.n, unit.d) * Q) * r, D) = g
  BY <1>2, <1>3, <1>4 DEF HeadFits, StoredUnit
<1>6. \A i \in 1..L : /\ q[i] \in Nat /\ q[i] = billed[i].quantity
                      /\ f[i] = RoundHalfUp((RoundHalfUp(unit.n, unit.d) * q[i]) * r, D)
  BY <1>1, <1>4 DEF HeadFits, StoredUnit
<1>7. Total(head) = SumFunctionOnSet(f, 1..L)
  BY <1>1 DEF Total
<1> HIDE DEF q, f
<1>8. /\ SumFunctionOnSet(f, 1..L) \in Int
      /\ 200 * Magnitude(SumFunctionOnSet(f, 1..L) - g) <= 100 * (L + 1) + Q
  <2>1. HeadRounded(L, q, f, unit, D, r, g, Q)
    BY <1>1, <1>2, <1>3, <1>4, <1>5, <1>6, Zenon DEF HeadRounded
  <2> QED
    BY <2>1, HeadFollows
<1>9. ASSUME L = 1, unit.n % unit.d = 0 PROVE SumFunctionOnSet(f, 1..L) = g
  <2>1. 1..L = {} \cup {1} /\ 1 \in 1..L
    BY <1>9
  <2>2. f[1] \in Int /\ q[1] \in Int
    <3>1. PICK a \in Nat, s \in Nat : s = RoundHalfUp(unit.n, unit.d) /\ a = (s * q[1]) * r
      <4>1. RoundHalfUp(unit.n, unit.d) \in Nat
        BY RoundingDivides DEF Fraction
      <4> QED
        BY <1>5, <1>6, <2>1, <4>1, SMTT(30)
    <3>2. RoundHalfUp(a, D) \in Nat
      BY <1>5, RoundingDivides
    <3> QED
      BY <1>6, <2>1, <3>1, <3>2
  <2>3. SumFunctionOnSet(f, 1..L) = f[1] /\ SumFunctionOnSet(q, 1..L) = q[1]
    <3>1. SumFunctionOnSet(f, {}) = 0 /\ SumFunctionOnSet(q, {}) = 0
      BY SumOfNone
    <3>2. /\ SumFunctionOnSet(f, {} \cup {1}) = f[1] + SumFunctionOnSet(f, {})
          /\ SumFunctionOnSet(q, {} \cup {1}) = q[1] + SumFunctionOnSet(q, {})
      BY <2>2, SumAdd, FS_EmptySet
    <3>3. SumFunctionOnSet(f, {} \cup {1}) = f[1] /\ SumFunctionOnSet(q, {} \cup {1}) = q[1]
      BY <2>2, <3>1, <3>2
    <3> QED
      BY <2>1, <3>3, Zenon
  <2> QED
    BY <1>2, <1>5, <1>6, <1>9, <2>1, <2>3
<1>10. L = 1 /\ unit.n % unit.d = 0 => Magnitude(SumFunctionOnSet(f, 1..L) - g) = 0
  <2> SUFFICES ASSUME L = 1, unit.n % unit.d = 0 PROVE Magnitude(SumFunctionOnSet(f, 1..L) - g) = 0
    OBVIOUS
  <2>1. SumFunctionOnSet(f, 1..L) = g
    BY <1>9
  <2>2. Magnitude(g - g) = 0
    BY DEF Magnitude
  <2> QED
    BY <2>1, <2>2
<1> QED
  BY <1>1, <1>2, <1>3, <1>4, <1>7, <1>8, <1>10

LEMMA ProductFits ==
    ASSUME NEW x \in Nat, NEW y \in Nat
    PROVE  x * y \in Nat /\ (x # 0 /\ y # 0 => x * y # 0)
BY SMTT(30)

LEMMA PercentageFits == ASSUME NEW rate \in Percentages PROVE rate \in Nat /\ rate <= 100
BY DEF Percentages

(* A figure of the order that is the rounding of what its parts round.     *)
LEMMA RoundedHeadFits ==
    ASSUME LineFits(ordered), NEW head, NEW D \in Nat \ {0}, NEW r \in Nat, 100 * r <= D,
           \A i \in 1..Len(billed) :
               billed[i].figures[head] = RoundHalfUp((StoredUnit(ordered) * billed[i].quantity) * r, D),
           ordered.figures[head] = RoundHalfUp((ordered.unit.n * ordered.quantity) * r, ordered.unit.d * D)
    PROVE  HeadFits(head, D, r)
<1>1. PICK n \in Nat, d \in Nat \ {0}, Q \in Nat : n = ordered.unit.n /\ d = ordered.unit.d /\ Q = ordered.quantity
  BY DEF LineFits, Fraction
<1>2. PICK a \in Nat, b \in Nat \ {0} : a = (n * Q) * r /\ b = d * D
  <2>1. PICK m \in Nat : m = n * Q
    BY ProductFits
  <2>2. m * r \in Nat
    BY ProductFits
  <2>3. d * D \in Nat /\ d * D # 0
    BY ProductFits
  <2> QED
    BY <2>1, <2>2, <2>3
<1>3. /\ RoundHalfUp(a, b) \in Nat
      /\ 2 * Magnitude(b * RoundHalfUp(a, b) - a) <= b
  BY RoundingIsHalfOff
<1>4. PICK g \in Nat : g = ordered.figures[head] /\ g = RoundHalfUp(a, b)
  BY <1>1, <1>2, <1>3
<1>5. 2 * Magnitude((d * D) * g - (n * Q) * r) <= d * D
  BY <1>2, <1>3, <1>4
<1>6. n % d = 0 => RoundHalfUp((RoundHalfUp(n, d) * Q) * r, D) = g
  <2>1. PICK unit \in Fraction : unit = ordered.unit
    BY DEF LineFits
  <2> QED
    BY <1>1, <1>2, <1>4, <2>1, WholeFollows
<1> QED
  BY <1>1, <1>4, <1>5, <1>6 DEF HeadFits, StoredUnit

(* A head that is charged neither on the order nor on its parts.           *)
LEMMA EmptyHeadFits ==
    ASSUME LineFits(ordered), NEW head, ordered.figures[head] = 0, PartsFit,
           \A i \in 1..Len(billed) : billed[i].figures[head] = 0
    PROVE  HeadFits(head, 100, 0)
<1>1. PICK n \in Nat, d \in Nat \ {0}, Q \in Nat : n = ordered.unit.n /\ d = ordered.unit.d /\ Q = ordered.quantity
  BY DEF LineFits, Fraction
<1>2. PICK s \in Nat : s = StoredUnit(ordered)
  <2>1. RoundHalfUp(n, d) \in Nat
    BY RoundingDivides
  <2> QED
    BY <1>1, <2>1 DEF StoredUnit
<1>3. RoundHalfUp(0, 100) = 0
  BY DEF RoundHalfUp
<1>4. \A m \in Nat : RoundHalfUp((s * m) * 0, 100) = 0
  <2> TAKE m \in Nat
  <2>1. (s * m) * 0 = 0
    BY SMTT(30)
  <2> QED
    BY <1>3, <2>1
<1>5. 2 * Magnitude((d * 100) * 0 - (n * Q) * 0) <= d * 100
  <2>1. (d * 100) * 0 - (n * Q) * 0 = 0
    BY SMTT(30)
  <2> QED
    BY <2>1 DEF Magnitude
<1>6. \A i \in 1..Len(billed) : billed[i].quantity \in Nat
  BY PartQuantities
<1>7. \A i \in 1..Len(billed) :
          billed[i].figures[head] = RoundHalfUp((StoredUnit(ordered) * billed[i].quantity) * 0, 100)
  BY <1>2, <1>4, <1>6
<1>8. RoundHalfUp((StoredUnit(ordered) * Q) * 0, 100) = 0
  BY <1>2, <1>4
<1>9. 2 * Magnitude((ordered.unit.d * 100) * ordered.figures[head]
                    - (ordered.unit.n * ordered.quantity) * 0) <= ordered.unit.d * 100
  BY <1>1, <1>5
<1>10. 100 \in Nat \ {0} /\ 0 \in Nat /\ 100 * 0 <= 100 /\ ordered.figures[head] \in Nat
  OBVIOUS
<1> QED
  BY <1>1, <1>7, <1>8, <1>9, <1>10 DEF HeadFits

(* A tax too small to be charged on the order as a whole.                  *)
LEMMA TinyHeadFits ==
    ASSUME LineFits(ordered), NEW head, NEW r \in Percentages, ordered.figures[head] = 0,
           \A i \in 1..Len(billed) :
               billed[i].figures[head] = RoundHalfUp((StoredUnit(ordered) * billed[i].quantity) * r, 20000),
           RoundHalfUp((ordered.unit.n * ordered.quantity) * r, ordered.unit.d * 10000) = 0
    PROVE  HeadFits(head, 20000, r)
<1>1. PICK n \in Nat, d \in Nat \ {0}, Q \in Nat : n = ordered.unit.n /\ d = ordered.unit.d /\ Q = ordered.quantity
  BY DEF LineFits, Fraction
<1>2. r \in Nat /\ r <= 100
  BY PercentageFits
<1>3. PICK a \in Nat : a = (n * Q) * r
  BY <1>2, SMTT(30)
<1>4. 2 * a < d * 10000
  <2>1. d * 10000 \in Nat \ {0} /\ RoundHalfUp(a, d * 10000) = 0
    BY <1>1, <1>3
  <2>2. PICK b \in Nat \ {0} : b = d * 10000 /\ RoundHalfUp(a, b) = 0
    BY <2>1
  <2>3. 2 * a + b < (2 * b) * RoundHalfUp(a, b) + 2 * b
    BY RoundingDivides
  <2>4. (2 * b) * 0 = 0
    OBVIOUS
  <2> QED
    BY <2>2, <2>3, <2>4
<1>5. 2 * Magnitude((d * 20000) * 0 - (n * Q) * r) <= d * 20000
  <2>1. (d * 20000) * 0 - (n * Q) * r = -a
    BY <1>3, SMTT(30)
  <2>2. Magnitude(-a) = a
    BY DEF Magnitude
  <2> QED
    BY <1>4, <2>1, <2>2
<1>6. ASSUME n % d = 0 PROVE RoundHalfUp((StoredUnit(ordered) * Q) * r, 20000) = 0
  <2>1. PICK unit \in Fraction : unit = ordered.unit
    BY DEF LineFits
  <2>2. RoundHalfUp((RoundHalfUp(n, d) * Q) * r, 10000) = RoundHalfUp(a, d * 10000)
    <3>1. unit.n % unit.d = 0
      BY <1>1, <1>6, <2>1
    <3>2. RoundHalfUp((RoundHalfUp(unit.n, unit.d) * Q) * r, 10000) = RoundHalfUp((unit.n * Q) * r, unit.d * 10000)
      BY <1>2, <3>1, WholeFollows
    <3> QED
      BY <1>1, <1>3, <2>1, <3>2
  <2>3. PICK s \in Nat : s = RoundHalfUp(n, d)
    BY RoundingDivides
  <2>4. PICK b \in Nat : b = (s * Q) * r
    BY <1>2, SMTT(30)
  <2>5. RoundHalfUp(b, 10000) = 0
    BY <1>1, <1>3, <2>2, <2>3, <2>4
  <2>6. RoundHalfUp(b, 20000) = 0
    BY <2>5, SMTT(30) DEF RoundHalfUp
  <2> QED
    BY <1>1, <2>3, <2>4, <2>6 DEF StoredUnit
<1> QED
  BY <1>1, <1>2, <1>5, <1>6 DEF HeadFits

(* The figures of a part, by the place of supply that the order's tells.   *)
LEMMA DraftHeads ==
    ASSUME NEW line, LineFits(line), NEW m \in Nat, NEW f, f = DraftFigures(line, m)
    PROVE  /\ f.taxable = RoundHalfUp((StoredUnit(line) * m) * 1, 100)
           /\ line.figures.igst > 0 =>
                  /\ f.cgst = 0 /\ f.sgst = 0
                  /\ f.igst = RoundHalfUp((StoredUnit(line) * m) * line.tax.rate, 10000)
           /\ ~(line.figures.igst > 0) =>
                  /\ f.cgst = RoundHalfUp((StoredUnit(line) * m) * line.tax.rate, 20000)
                  /\ f.sgst = RoundHalfUp((StoredUnit(line) * m) * line.tax.rate, 20000)
                  /\ f.igst = 0
<1>1. PICK s \in Nat : s = StoredUnit(line)
  BY RoundingDivides DEF LineFits, Fraction, StoredUnit
<1>2. PICK a \in Nat : a = s * m
  BY SMTT(30)
<1>3. f = Taxed([n |-> a, d |-> 1], [rate |-> line.tax.rate, cess |-> 0],
                IF line.figures.igst > 0 THEN "INTER" ELSE "INTRA")
  BY <1>1, <1>2 DEF DraftFigures
<1>4. a * 1 = a /\ 1 * 100 = 100 /\ 1 * 100 * 100 = 10000 /\ 2 * 1 * 100 * 100 = 20000
  OBVIOUS
<1> QED
  BY <1>1, <1>2, <1>3, <1>4 DEF Taxed, Percent, HalfPercent, PerPaisa

LEMMA OrderHeads ==
    ASSUME NEW line, LineFits(line), NEW f, f = line.figures
    PROVE  /\ f.taxable = RoundHalfUp((line.unit.n * line.quantity) * 1, line.unit.d * 100)
           /\ line.supply = "INTER" =>
                  /\ f.cgst = 0 /\ f.sgst = 0
                  /\ f.igst = RoundHalfUp((line.unit.n * line.quantity) * line.tax.rate,
                                          line.unit.d * 10000)
           /\ line.supply # "INTER" =>
                  /\ f.cgst = RoundHalfUp((line.unit.n * line.quantity) * line.tax.rate,
                                          line.unit.d * 20000)
                  /\ f.sgst = f.cgst
                  /\ f.igst = 0
<1>1. PICK n \in Nat, d \in Nat \ {0}, Q \in Nat : n = line.unit.n /\ d = line.unit.d /\ Q = line.quantity
  BY DEF LineFits, Fraction
<1>2. PICK a \in Nat : a = n * Q
  BY SMTT(30)
<1>3. f = Taxed([n |-> a, d |-> d], line.tax, line.supply)
  BY <1>1, <1>2 DEF LineFits, Times
<1>4. a * 1 = a /\ d * 100 * 100 = d * 10000 /\ 2 * d * 100 * 100 = d * 20000
  OBVIOUS
<1> QED
  BY <1>1, <1>2, <1>3, <1>4 DEF Taxed, Percent, HalfPercent, PerPaisa

(* The parts of an order add up to it.                                     *)
LEMMA InvoicesFollow ==
    ASSUME PriceInv
    PROVE  InvoicesFollowTheOrder
<1> SUFFICES ASSUME approved, BilledSoFar = ordered.quantity,
                    NEW head \in {"taxable", "cgst", "sgst", "igst"}
             PROVE  LET gap == Magnitude(Total(head) - ordered.figures[head]) IN
                    /\ 200 * gap <= 100 * (Len(billed) + 1) + ordered.quantity
                    /\ Len(billed) = 1 /\ ordered.unit.n % ordered.unit.d = 0 => gap = 0
  BY DEF InvoicesFollowTheOrder
<1>1. PartsFit /\ LineFits(ordered)
  BY DEF PriceInv, PartsFit, Lines
<1>2. PICK rate \in Percentages : rate = ordered.tax.rate
  BY <1>1 DEF LineFits
<1>3. rate \in Nat /\ rate <= 100 /\ 100 * rate <= 10000 /\ 100 * rate <= 20000
  BY <1>2 DEF Percentages
<1>4. PICK f : f = ordered.figures
  OBVIOUS
<1>5. f \in LineFigures
  <2>1. Times(ordered.unit, ordered.quantity) \in Fraction
    BY <1>1, TimesFits DEF LineFits
  <2> QED
    BY <1>1, <1>4, <2>1, TaxedFits DEF LineFits
<1>6. /\ f.taxable = RoundHalfUp((ordered.unit.n * ordered.quantity) * 1, ordered.unit.d * 100)
      /\ ordered.supply = "INTER" =>
             /\ f.cgst = 0 /\ f.sgst = 0
             /\ f.igst = RoundHalfUp((ordered.unit.n * ordered.quantity) * rate, ordered.unit.d * 10000)
      /\ ordered.supply # "INTER" =>
             /\ f.cgst = RoundHalfUp((ordered.unit.n * ordered.quantity) * rate, ordered.unit.d * 20000)
             /\ f.sgst = f.cgst
             /\ f.igst = 0
  BY <1>1, <1>2, <1>4, OrderHeads
<1> DEFINE s == StoredUnit(ordered)
<1>7. ASSUME NEW i \in 1..Len(billed)
      PROVE  /\ billed[i].figures.taxable = RoundHalfUp((s * billed[i].quantity) * 1, 100)
             /\ f.igst > 0 =>
                    /\ billed[i].figures.cgst = 0 /\ billed[i].figures.sgst = 0
                    /\ billed[i].figures.igst = RoundHalfUp((s * billed[i].quantity) * rate, 10000)
             /\ ~(f.igst > 0) =>
                    /\ billed[i].figures.cgst = RoundHalfUp((s * billed[i].quantity) * rate, 20000)
                    /\ billed[i].figures.sgst = RoundHalfUp((s * billed[i].quantity) * rate, 20000)
                    /\ billed[i].figures.igst = 0
  <2>1. PICK m \in Nat : m = billed[i].quantity
    BY <1>1, PartQuantities
  <2>2. PICK part : part = billed[i].figures /\ part = DraftFigures(ordered, m)
    BY <1>1, <2>1 DEF PartsFit
  <2> QED
    BY <1>1, <1>2, <1>4, <2>1, <2>2, DraftHeads
<1> HIDE DEF s
<1>8. \E D, r : HeadFits(head, D, r)
  <2>1. CASE head = "taxable"
    <3>1. f[head] = f.taxable /\ \A i \in 1..Len(billed) : billed[i].figures[head] = billed[i].figures.taxable
      BY <2>1
    <3>2. PICK one \in Nat : one = 1
      OBVIOUS
    <3>3. /\ \A i \in 1..Len(billed) :
                 billed[i].figures[head] = RoundHalfUp((StoredUnit(ordered) * billed[i].quantity) * one, 100)
          /\ ordered.figures[head] = RoundHalfUp((ordered.unit.n * ordered.quantity) * one, ordered.unit.d * 100)
      BY <1>4, <1>6, <1>7, <3>1, <3>2 DEF s
    <3>4. 100 \in Nat \ {0} /\ 100 * one <= 100
      BY <3>2
    <3>5. HeadFits(head, 100, one)
      BY <1>1, <3>3, <3>4, RoundedHeadFits, ZenonT(60)
    <3> QED
      BY <3>5
  <2>2. CASE head = "igst"
    <3>1. f[head] = f.igst /\ \A i \in 1..Len(billed) : billed[i].figures[head] = billed[i].figures.igst
      BY <2>2
    <3>2. CASE f.igst > 0
      <4>1. ordered.supply = "INTER"
        BY <1>6, <3>2
      <4>2. HeadFits(head, 10000, rate)
        BY <1>1, <1>3, <1>4, <1>6, <1>7, <3>1, <3>2, <4>1, RoundedHeadFits DEF s
      <4> QED
        BY <4>2
    <3>3. CASE ~(f.igst > 0)
      <4>1. f.igst = 0
        BY <1>5, <3>3 DEF LineFigures
      <4>2. HeadFits(head, 100, 0)
        BY <1>1, <1>4, <1>7, <3>1, <3>3, <4>1, EmptyHeadFits
      <4> QED
        BY <4>2
    <3> QED
      BY <3>2, <3>3
  <2>3. CASE head \in {"cgst", "sgst"}
    <3>1. /\ f[head] = f.cgst /\ f.sgst = f.cgst
          /\ \A i \in 1..Len(billed) : billed[i].figures[head] = IF f.igst > 0 THEN 0
                 ELSE RoundHalfUp((s * billed[i].quantity) * rate, 20000)
      <4>1. f.sgst = f.cgst
        BY <1>6
      <4>2. f[head] = f.cgst \/ f[head] = f.sgst
        BY <2>3
      <4>3. ASSUME NEW i \in 1..Len(billed)
            PROVE  billed[i].figures[head] = IF f.igst > 0 THEN 0
                       ELSE RoundHalfUp((s * billed[i].quantity) * rate, 20000)
        <5>1. billed[i].figures[head] = billed[i].figures.cgst \/ billed[i].figures[head] = billed[i].figures.sgst
          BY <2>3
        <5> QED
          BY <1>7, <5>1
      <4> QED
        BY <4>1, <4>2, <4>3
    <3>2. CASE ordered.supply # "INTER"
      <4>1. ~(f.igst > 0)
        BY <1>6, <3>2
      <4>2. PICK D \in Nat \ {0} : D = 20000 /\ 100 * rate <= D
        BY <1>3
      <4>3. /\ \A i \in 1..Len(billed) :
                   billed[i].figures[head] = RoundHalfUp((StoredUnit(ordered) * billed[i].quantity) * rate, D)
            /\ ordered.figures[head]
                   = RoundHalfUp((ordered.unit.n * ordered.quantity) * rate, ordered.unit.d * D)
        BY <1>4, <1>6, <3>1, <3>2, <4>1, <4>2 DEF s
      <4>4. LineFits(ordered) /\ rate \in Nat /\ 100 * rate <= D
        BY <1>1, <1>3, <4>2
      <4>5. HeadFits(head, D, rate)
        BY <4>3, <4>4, RoundedHeadFits
      <4> QED
        BY <4>5
    <3>3. CASE ordered.supply = "INTER" /\ f.igst > 0
      <4>1. HeadFits(head, 100, 0)
        BY <1>1, <1>4, <1>6, <3>1, <3>3, EmptyHeadFits
      <4> QED
        BY <4>1
    <3>4. CASE ordered.supply = "INTER" /\ ~(f.igst > 0)
      <4>1. f.igst = 0
        BY <1>5, <3>4 DEF LineFigures
      <4>2. HeadFits(head, 20000, rate)
        BY <1>1, <1>2, <1>4, <1>6, <3>1, <3>4, <4>1, TinyHeadFits DEF s
      <4> QED
        BY <4>2
    <3> QED
      BY <3>2, <3>3, <3>4
  <2> QED
    BY <2>1, <2>2, <2>3
<1> QED
  BY <1>1, <1>8, TotalFollows

(***************************************************************************)
(* The steps                                                               *)
(***************************************************************************)
LEMMA PartsStay ==
    ASSUME PartsFit, ordered' = ordered, approved' = approved, billed' = billed
    PROVE  PartsFit'
BY DEF PartsFit, DraftFigures, StoredUnit

(* The engine prices the line of a quotation or of an order not approved.  *)
LEMMA PricingKeeps ==
    ASSUME PriceInv, NEW quantity \in Nat \ {0}, HasPrice(quantity),
           NEW override \in OverridePrices \cup {NoOverride}, NEW supply \in Supplies, NEW day \in Nat,
           UNCHANGED <<marketVars, approved, billed>>,
           \/ quoted' = Priced(quantity, override, supply, day) /\ ordered' = ordered
           \/ quoted' = quoted /\ ordered' = Priced(quantity, override, supply, day) /\ ~approved
    PROVE  PriceInv'
<1>1. MarketFits /\ PartsFit /\ \A line \in Lines : LineFits(line)
  BY DEF PriceInv
<1>2. PICK priced : priced = Priced(quantity, override, supply, day) /\ LineFits(priced)
  BY <1>1, PricedFits
<1>3. /\ today' = today /\ list' = list /\ rules' = rules /\ taxRates' = taxRates
      /\ approved' = approved /\ billed' = billed
  BY DEF marketVars
<1>4. MarketFits'
  BY <1>1, <1>3 DEF MarketFits
<1>5. \A line \in Lines' : LineFits(line)
  BY <1>1, <1>2 DEF Lines
<1>6. PartsFit'
  <2>1. CASE ordered' = ordered
    BY <1>1, <1>3, <2>1, PartsStay
  <2>2. CASE ~approved
    <3>1. billed' = <<>> /\ ~approved'
      BY <1>1, <1>3, <2>2 DEF PartsFit
    <3> QED
      BY <3>1 DEF PartsFit
  <2> QED
    BY <2>1, <2>2
<1> QED
  BY <1>4, <1>5, <1>6 DEF PriceInv

LEMMA LineStepKeeps ==
    ASSUME PriceInv,
           \/ \E quantity \in Quantities, override \in OverridePrices \cup {NoOverride},
                 supply \in Supplies :
                  Quote(quantity, override, supply) \/ PlaceOrder(quantity, override, supply)
           \/ Convert
           \/ \E override \in OverridePrices \cup {NoOverride} : Reprice(override)
    PROVE  PriceInv'
<1>1. /\ today \in Nat /\ Quantities \subseteq Nat \ {0}
      /\ \A line \in Lines : /\ line.quantity \in Nat \ {0} /\ line.supply \in Supplies
                             /\ line.day \in Nat
      /\ ordered = NoLine => ~approved
  BY PricesAssumption DEF PriceInv, MarketFits, LineFits, PartsFit
<1>2. ASSUME NEW quantity \in Quantities, NEW override \in OverridePrices \cup {NoOverride},
             NEW supply \in Supplies,
             Quote(quantity, override, supply) \/ PlaceOrder(quantity, override, supply)
      PROVE  PriceInv'
  <2>1. /\ HasPrice(quantity) /\ UNCHANGED <<marketVars, approved, billed>>
        /\ \/ quoted' = Priced(quantity, override, supply, today) /\ ordered' = ordered
           \/ quoted' = quoted /\ ordered' = Priced(quantity, override, supply, today) /\ ~approved
    BY <1>1, <1>2 DEF Quote, PlaceOrder
  <2> QED
    BY <1>1, <2>1, PricingKeeps
<1>3. CASE Convert
  <2>1. /\ quoted \in Lines /\ HasPrice(quoted.quantity) /\ UNCHANGED <<marketVars, approved, billed>>
        /\ quoted' = quoted /\ ~approved
        /\ ordered' = Priced(quoted.quantity, NoOverride, quoted.supply, today)
    BY <1>1, <1>3 DEF Convert, Lines
  <2> QED
    BY <1>1, <2>1, PricingKeeps
<1>4. ASSUME NEW override \in OverridePrices \cup {NoOverride}, Reprice(override) PROVE PriceInv'
  <2>1. /\ ordered \in Lines /\ HasPrice(ordered.quantity) /\ UNCHANGED <<marketVars, approved, billed>>
        /\ quoted' = quoted /\ ~approved
        /\ ordered' = Priced(ordered.quantity, override, ordered.supply, ordered.day)
    BY <1>4 DEF Reprice, Lines
  <2> QED
    BY <1>1, <2>1, PricingKeeps
<1> QED
  BY <1>2, <1>3, <1>4

LEMMA ApproveKeeps == ASSUME PriceInv, Approve PROVE PriceInv'
<1>1. /\ MarketFits' /\ \A line \in Lines' : LineFits(line)
      /\ billed' = <<>> /\ ordered' # NoLine /\ approved'
  BY DEF Approve, PriceInv, MarketFits, PartsFit, marketVars, Lines
<1>2. PartsFit'
  BY <1>1 DEF PartsFit
<1> QED
  BY <1>1, <1>2 DEF PriceInv

LEMMA DraftFits ==
    ASSUME NEW line, LineFits(line), NEW quantity \in Nat
    PROVE  DraftFigures(line, quantity) \in LineFigures
<1>1. StoredUnit(line) \in Nat
  BY RoundingDivides DEF StoredUnit, LineFits, Fraction
<1>2. PICK a \in Nat : a = StoredUnit(line) * quantity
  BY <1>1, SMTT(30)
<1>3. [n |-> a, d |-> 1] \in Fraction
  BY DEF Fraction
<1>4. [rate |-> line.tax.rate, cess |-> 0] \in [rate : Percentages, cess : Percentages]
  BY DEF LineFits, Percentages
<1> QED
  BY <1>2, <1>3, <1>4, TaxedFits DEF DraftFigures

LEMMA Appended ==
    ASSUME NEW S, NEW s \in Seq(S), NEW x \in S
    PROVE  /\ Append(s, x) \in Seq(S) /\ Len(Append(s, x)) = Len(s) + 1
           /\ Append(s, x)[Len(s) + 1] = x /\ \A i \in 1..Len(s) : Append(s, x)[i] = s[i]
OBVIOUS

LEMMA BillPartKeeps ==
    ASSUME PriceInv, NEW quantity \in Nat \ {0}, BillPart(quantity)
    PROVE  PriceInv'
<1>1. /\ MarketFits' /\ (\A line \in Lines' : LineFits(line)) /\ PartsFit
      /\ ordered' = ordered /\ approved' = approved /\ approved /\ ordered # NoLine
  BY DEF BillPart, PriceInv, MarketFits, PartsFit, marketVars, Lines
<1> DEFINE Parts == [quantity : Nat \ {0}, figures : LineFigures]
           part  == [quantity |-> quantity, figures |-> DraftFigures(ordered, quantity)]
<1>2. LineFits(ordered)
  BY <1>1 DEF PriceInv, Lines
<1>3. part \in Parts
  BY <1>2, DraftFits
<1>4. billed \in Seq(Parts) /\ billed' = Append(billed, part)
  BY <1>1 DEF PartsFit, BillPart
<1>5. PICK L \in Nat : L = Len(billed)
  BY <1>1, PartQuantities
<1>6. /\ billed' \in Seq(Parts) /\ Len(billed') = L + 1
      /\ billed'[L + 1] = part /\ \A i \in 1..L : billed'[i] = billed[i]
  <2> HIDE DEF Parts, part
  <2> QED
    BY <1>3, <1>4, <1>5, Appended
<1>7. ASSUME NEW i \in 1..(L + 1)
      PROVE  billed'[i].figures = DraftFigures(ordered, billed'[i].quantity)
  <2>1. CASE i = L + 1
    BY <1>6, <2>1
  <2>2. CASE i \in 1..L
    BY <1>1, <1>5, <1>6, <2>2 DEF PartsFit
  <2> QED
    BY <2>1, <2>2
<1>8. PartsFit'
  BY <1>1, <1>6, <1>7 DEF PartsFit, DraftFigures, StoredUnit
<1> QED
  BY <1>1, <1>8 DEF PriceInv

LEMMA MarketKeeps ==
    ASSUME PriceInv, MarketFits', UNCHANGED saleVars
    PROVE  PriceInv'
<1>1. quoted' = quoted /\ ordered' = ordered /\ approved' = approved /\ billed' = billed
  BY DEF saleVars
<1>2. \A line \in Lines' : LineFits(line)
  BY <1>1 DEF PriceInv, Lines
<1>3. PartsFit'
  BY <1>1, PartsStay DEF PriceInv
<1> QED
  BY <1>2, <1>3 DEF PriceInv

LEMMA SupersedeFits ==
    ASSUME MarketFits, NEW tax \in TaxChoices, NEW from \in 1..LastDay, Supersede(tax, from)
    PROVE  MarketFits'
<1> DEFINE open == {t \in taxRates : t.to = OpenEnded}
           closed == {[t EXCEPT !.to = from - 1] : t \in open}
           row == [rate |-> tax.rate, cess |-> tax.cess, from |-> from, to |-> OpenEnded]
<1>1. /\ today' = today /\ list' = list /\ rules' = rules
      /\ taxRates' = (taxRates \ open) \cup closed \cup {row}
  BY DEF Supersede
<1>2. row \in TaxRow
  <2>1. tax.rate \in Percentages /\ tax.cess \in Percentages
    BY PricesAssumption
  <2> QED
    BY <2>1 DEF TaxRow
<1>3. ASSUME NEW t \in taxRates PROVE t \in TaxRow /\ [t EXCEPT !.to = from - 1] \in TaxRow
  <2>1. t \in TaxRow /\ from - 1 \in Int
    BY PricesAssumption DEF MarketFits
  <2> QED
    BY <2>1 DEF TaxRow
<1>4. closed \subseteq TaxRow
  BY <1>3
<1>5. taxRates' \in SUBSET TaxRow
  BY <1>1, <1>2, <1>3, <1>4
<1> QED
  BY <1>1, <1>5 DEF MarketFits

LEMMA PriceNextKeeps ==
    ASSUME PriceInv, [PriceNext]_priceVars
    PROVE  PriceInv'
<1>1. MarketFits
  BY DEF PriceInv
<1>2. ASSUME NEW quantity \in 1..Max(Quantities), BillPart(quantity) PROVE PriceInv'
  <2>1. quantity \in Nat \ {0}
    OBVIOUS
  <2> QED
    BY <1>2, <2>1, BillPartKeeps
<1>3. CASE NextDay
  <2>1. MarketFits' /\ UNCHANGED saleVars
    BY <1>1, <1>3 DEF NextDay, MarketFits
  <2> QED
    BY <2>1, MarketKeeps
<1>4. ASSUME NEW revised \in PriceLists, RevisePrices(revised) PROVE PriceInv'
  <2>1. MarketFits' /\ UNCHANGED saleVars
    BY <1>1, <1>4 DEF RevisePrices, MarketFits
  <2> QED
    BY <2>1, MarketKeeps
<1>5. ASSUME NEW rule \in Rules, SwitchRule(rule) PROVE PriceInv'
  <2>1. MarketFits' /\ UNCHANGED saleVars
    BY <1>1, <1>5 DEF SwitchRule, MarketFits
  <2> QED
    BY <2>1, MarketKeeps
<1>6. ASSUME NEW tax \in TaxChoices, NEW from \in 1..LastDay, Supersede(tax, from) PROVE PriceInv'
  <2>1. MarketFits' /\ UNCHANGED saleVars
    BY <1>1, <1>6, SupersedeFits DEF Supersede
  <2> QED
    BY <2>1, MarketKeeps
<1>7. CASE UNCHANGED priceVars
  <2>1. MarketFits' /\ UNCHANGED saleVars
    BY <1>1, <1>7 DEF priceVars, marketVars, MarketFits
  <2> QED
    BY <2>1, MarketKeeps
<1>8. CASE \/ \E quantity \in Quantities, override \in OverridePrices \cup {NoOverride},
                 supply \in Supplies :
                  Quote(quantity, override, supply) \/ PlaceOrder(quantity, override, supply)
           \/ Convert
           \/ \E override \in OverridePrices \cup {NoOverride} : Reprice(override)
  BY <1>8, LineStepKeeps
<1> QED
  BY <1>2, <1>3, <1>4, <1>5, <1>6, <1>7, <1>8, ApproveKeeps DEF PriceNext

LEMMA PricesBegin == ASSUME PriceInit PROVE PriceInv
<1>1. MarketFits
  BY DEF PriceInit, MarketFits
<1>2. PartsFit
  BY DEF PriceInit, PartsFit
<1>3. Lines = {}
  BY DEF PriceInit, Lines
<1> QED
  BY <1>1, <1>2, <1>3 DEF PriceInv

(* A price can be defended: for any lists, rules, rates, overrides and     *)
(* quantities, and whatever they become, a line gives away no more than    *)
(* one eligible rule allows it, its tax does not depend on the place of    *)
(* supply, and its invoices add up to the order but for their roundings.   *)
THEOREM PricesStayDefensible == PriceSpec => []PricesAreDefensible
<1>1. PriceInv => PricesAreDefensible
  <2> SUFFICES ASSUME PriceInv PROVE PricesAreDefensible
    OBVIOUS
  <2>1. ASSUME NEW line \in Lines
        PROVE  /\ line.unit.n >= 0 /\ TaxesAddUp(line)
               /\ line.override = NoOverride => DiscountIsOneRule(line)
    <3>1. LineFits(line)
      BY DEF PriceInv
    <3>2. line.unit.n >= 0 /\ (line.override = NoOverride => DiscountIsOneRule(line))
      BY <3>1 DEF LineFits, Fraction
    <3> QED
      BY <3>1, <3>2, LinesAddUp
  <2> QED
    BY <2>1, InvoicesFollow DEF PricesAreDefensible
<1> QED
  BY <1>1, PricesBegin, PriceNextKeeps, PTL DEF PriceSpec
=============================================================================
