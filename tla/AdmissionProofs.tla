--------------------------- MODULE AdmissionProofs --------------------------
(***************************************************************************)
(* Who is let in, for any numbers of them: accounts that sign in (module   *)
(* Sessions), the links they are mailed (module Links), and partners that  *)
(* are onboarded (module Distributors).  In all, a request acts on what it *)
(* read, and the argument is the same: what it read still holds when it    *)
(* commits, or it is noted that another request has overtaken it.          *)
(***************************************************************************)
EXTENDS Sessions, Distributors, Links, Access, SequenceTheorems, TLAPS

(***************************************************************************)
(* Sessions.  A lineage has one live session because a rotation keeps its  *)
(* row locked from its claim to its commit, so that what it replaces is    *)
(* still live and is nobody else's.  A revocation is final because whatever*)
(* could add a live session to what it has scanned - a rotation at work, a *)
(* sign-in - is noted as having raced with it.                             *)
(***************************************************************************)
(* A claimed row stays live, and has one rotation.                         *)
ClaimsAreLive == \A p \in Requests, s \in SessionIds : Claims(p, s) => Live(s)

ClaimsAreExclusive ==
    \A p, q \in Requests, s \in SessionIds : Claims(p, s) /\ Claims(q, s) => p = q

(* A lineage that anything refers to has begun: a sign-in starts another.  *)
LineagesBegun ==
    /\ \A s \in SessionIds : ~Unused(s) => ~Unused(Family(s))
    /\ \A p \in Requests : Handling(p, "ROTATE") => ~Unused(request[p].id)
    /\ \A p \in Requests : Handling(p, "REVOKE") /\ request[p].cause = "FAMILY"
           => \A f \in request[p].families : ~Unused(f)
    /\ \A f \in closed : ~Unused(f)

(* A suspension covers all sessions.                                       *)
SuspensionsCoverAll ==
    \A p \in Requests : Handling(p, "REVOKE") /\ request[p].cause = "SUSPENDED"
        => request[p].families = SessionIds

(* What a scan for reuse or suspension has covered, it has found; nothing  *)
(* is being rotated there.                                                 *)
Final(p) == /\ Handling(p, "REVOKE")
            /\ request[p].scanned
            /\ request[p].cause \in {"FAMILY", "SUSPENDED"}

ScansAreComplete ==
    \A p \in Requests, s \in SessionIds :
        Final(p) /\ Covers(request[p], s) /\ Family(s) \notin raced
            => (Live(s) => s \in request[p].targets) /\ ~Locked(s)

RowInv ==
    /\ TypeOK
    /\ ClaimsAreLive
    /\ ClaimsAreExclusive
    /\ LineagesBegun
    /\ OneLiveSession

SInv ==
    /\ RowInv
    /\ SuspensionsCoverAll
    /\ ScansAreComplete
    /\ RevokedStaysDead

(* While sign-ins do not overlap, the counter is exact, and so is what the *)
(* one at work has read of it.                                             *)
CountsAgree ==
    ~mixed =>
        /\ account.failed = wrong
        /\ \A p \in Requests : Handling(p, "SIGN_IN") => request[p].failed = account.failed
        /\ \A p, q \in Requests : Handling(p, "SIGN_IN") /\ Handling(q, "SIGN_IN") => p = q

-----------------------------------------------------------------------------
LEMMA ResetIsAnAccount ==
    ASSUME account \in Account
    PROVE  /\ CounterReset \in Account
           /\ CounterReset.failed = 0 /\ CounterReset.locked = FALSE
           /\ CounterReset.active = account.active
           /\ [CounterReset EXCEPT !.active = TRUE] \in Account
           /\ [CounterReset EXCEPT !.active = TRUE].failed = 0
           /\ [CounterReset EXCEPT !.active = TRUE].active = TRUE
<1>1. CounterReset = [active |-> account.active, failed |-> 0, locked |-> FALSE]
  <2>1. CounterReset = [[account EXCEPT !.failed = 0] EXCEPT !.locked = FALSE]
    BY DEF CounterReset
  <2>2. [account EXCEPT !.failed = 0]
            = [active |-> account.active, failed |-> 0, locked |-> account.locked]
    BY DEF Account
  <2> QED
    BY <2>1, <2>2
<1>2. 0 \in 0..MaxFailures /\ account.active \in BOOLEAN
  BY SessionsAssumption DEF Account
<1> QED
  BY <1>1, <1>2 DEF Account

LEMMA TypesKept == TypeOK /\ [Next]_vars => TypeOK'
<1> SUFFICES ASSUME TypeOK, [Next]_vars PROVE TypeOK'
  OBVIOUS
<1> USE SessionsAssumption DEF TypeOK, Request, SignInRequest, RotateRequest,
        RevokeRequest, Busy, Handling
<1>1. ASSUME NEW p \in Requests, NEW correct \in BOOLEAN, SignIn(p, correct)
      PROVE  TypeOK'
  BY <1>1 DEF SignIn, Account
<1>2. ASSUME NEW p \in Requests, FailedAttempt(p) PROVE TypeOK'
  <2> DEFINE attempts == request[p].failed + 1
  <2>1. /\ attempts \in 0..MaxFailures /\ wrong + 1 \in 0..MaxFailures
        /\ account' = [account EXCEPT !.failed = attempts,
                                      !.locked = @ \/ ShouldLock(attempts)]
    BY <1>2 DEF FailedAttempt
  <2> HIDE DEF attempts
  <2>2. ShouldLock(attempts) \in BOOLEAN
    BY DEF ShouldLock
  <2>3. account' \in Account
    BY <2>1, <2>2 DEF Account
  <2> QED
    BY <1>2, <2>1, <2>3 DEF FailedAttempt, attempts
<1>3. ASSUME NEW p \in Requests, NEW s \in SessionIds, EstablishSession(p, s)
      PROVE  TypeOK'
  <2>1. CounterReset \in Account
    BY ResetIsAnAccount
  <2>2. [state |-> "LIVE", family |-> s] \in Session
    BY DEF Session, States
  <2>3. mixed' \in BOOLEAN
    BY <1>3 DEF EstablishSession, ResetMixes
  <2>4. raced' \in SUBSET SessionIds
    BY <1>3 DEF EstablishSession
  <2> QED
    BY <1>3, <2>1, <2>2, <2>3, <2>4 DEF EstablishSession
<1>4. ASSUME NEW p \in Requests, NEW s \in SessionIds, Present(p, s)
      PROVE  TypeOK'
  BY <1>4 DEF Present, OfLineage, Revocation, Causes, Family, Session
<1>5. ASSUME NEW p \in Requests, NEW t \in SessionIds, Replace(p, t)
      PROVE  TypeOK'
  BY <1>5 DEF Replace, Session, States, Family
<1>6. ASSUME NEW p \in Requests, Claim(p) PROVE TypeOK'
  <2>1. /\ request[p] \in RotateRequest /\ request[p].id \in SessionIds
        /\ UNCHANGED <<session, expired, account, wrong, mixed, closed>>
        /\ \/ request' = [request EXCEPT ![p].claimed = TRUE]
           \/ request' = [request EXCEPT ![p] = OfLineage(request[p].id)]
    BY <1>6 DEF Claim
  <2>2. raced' \in SUBSET SessionIds
    BY <1>6, <2>1 DEF Claim, Family, Session
  <2>3. [request[p] EXCEPT !.claimed = TRUE] \in Request
    BY <2>1 DEF Request, RotateRequest
  <2>4. OfLineage(request[p].id) \in Request
    BY <2>1 DEF OfLineage, Revocation, Causes, Family, Session, Request, RevokeRequest
  <2> HIDE DEF Request, RotateRequest
  <2>5. PICK req \in Request : request' = [request EXCEPT ![p] = req]
    BY <2>1, <2>3, <2>4
  <2> QED
    BY <2>1, <2>2, <2>5
<1>7. ASSUME NEW p \in Requests, NEW cause \in Causes, StartRevoking(p, cause)
      PROVE  TypeOK'
  BY <1>7 DEF StartRevoking, Revocation
<1>8. ASSUME NEW p \in Requests, Scan(p) PROVE TypeOK'
  <2>1. request[p] \in RevokeRequest
    BY <1>8 DEF Scan
  <2>2. [[request[p] EXCEPT !.scanned = TRUE] EXCEPT !.targets = Targets(request[p])]
            \in RevokeRequest
    BY <2>1 DEF Targets
  <2>3. request' = [request EXCEPT ![p] = [[request[p] EXCEPT !.scanned = TRUE]
                                    EXCEPT !.targets = Targets(request[p])]]
    BY <1>8 DEF Scan
  <2>4. request' \in [Requests -> Request \cup {NoRequest}]
    BY <2>2, <2>3
  <2>5. raced' \in SUBSET SessionIds
    BY <1>8 DEF Scan, Family, Session
  <2> QED
    BY <1>8, <2>4, <2>5 DEF Scan
<1>9. ASSUME NEW p \in Requests, Revoke(p) PROVE TypeOK'
  <2>1. request[p] \in RevokeRequest
    BY <1>9 DEF Revoke
  <2>2. session' \in [SessionIds -> Session]
    BY <1>9 DEF Revoke, Session, States
  <2>3. account' \in Account
    <3>1. [account EXCEPT !.active = FALSE] \in Account
      BY DEF Account
    <3> QED
      BY <1>9, <3>1, ResetIsAnAccount DEF Revoke, AccountAfter
  <2>4. closed' \in SUBSET SessionIds
    BY <1>9, <2>1 DEF Revoke
  <2>5. mixed' \in BOOLEAN /\ wrong' \in 0..MaxFailures
    BY <1>9 DEF Revoke, ResetMixes
  <2> QED
    BY <1>9, <2>2, <2>3, <2>4, <2>5 DEF Revoke
<1>10. ASSUME NEW p \in Requests, Fail(p) PROVE TypeOK'
  BY <1>10 DEF Fail
<1>11. ASSUME NEW s \in SessionIds, Logout(s) \/ Expire(s) \/ Purge(s) PROVE TypeOK'
  BY <1>11 DEF Logout, Expire, Purge, Session, States
<1>12. CASE Unlock \/ Reactivate
  <2>1. account' \in Account
    <3>1. [account EXCEPT !.locked = FALSE] \in Account
      BY DEF Account
    <3> QED
      BY <1>12, <3>1, ResetIsAnAccount DEF Unlock, Reactivate
  <2>2. mixed' \in BOOLEAN /\ wrong' \in 0..MaxFailures
    <3>1. CASE Unlock
      BY <3>1 DEF Unlock
    <3>2. CASE Reactivate
      BY <3>2 DEF Reactivate
    <3> QED
      BY <1>12, <3>1, <3>2
  <2> QED
    BY <1>12, <2>1, <2>2 DEF Unlock, Reactivate
<1>13. CASE UNCHANGED vars
  BY <1>13 DEF vars
<1> QED
  BY <1>1, <1>2, <1>3, <1>4, <1>5, <1>6, <1>7, <1>8, <1>9, <1>10, <1>11, <1>12, <1>13
  DEF Next, RequestStep

-----------------------------------------------------------------------------
(* Steps that leave the rows alone: a request may come to claim a row only *)
(* if it is live and free, and refers to lineages that have begun.         *)
LEMMA RequestsKeepRows ==
    ASSUME RowInv, TypeOK', NEW p \in Requests,
           UNCHANGED <<session, closed>>,
           \A q \in Requests \ {p} : request'[q] = request[q],
           \A s \in SessionIds : Claims(p, s)' => Claims(p, s) \/ (Live(s) /\ ~Locked(s)),
           Handling(p, "ROTATE")' => ~Unused(request'[p].id),
           Handling(p, "REVOKE")' /\ request'[p].cause = "FAMILY"
               => \A f \in request'[p].families : ~Unused(f)
    PROVE  RowInv'
<1>1. \A q \in Requests \ {p}, s \in SessionIds : Claims(q, s)' <=> Claims(q, s)
  BY DEF Claims, Handling, Busy
<1>2. ClaimsAreLive'
  BY <1>1 DEF RowInv, ClaimsAreLive, Live
<1>3. ClaimsAreExclusive'
  BY <1>1 DEF RowInv, ClaimsAreExclusive, Locked
<1>4. LineagesBegun'
  BY DEF RowInv, LineagesBegun, Unused, Family, Handling, Busy
<1>5. OneLiveSession'
  BY DEF RowInv, OneLiveSession, Live, Family
<1> QED
  BY <1>2, <1>3, <1>4, <1>5 DEF RowInv

(* A sign-in takes a row that no lineage has used.                         *)
LEMMA SignInKeepsRows ==
    ASSUME RowInv, TypeOK', NEW p \in Requests, NEW s \in SessionIds,
           EstablishSession(p, s)
    PROVE  RowInv'
<1>1. /\ Unused(s) /\ Handling(p, "SIGN_IN")
      /\ session' = [session EXCEPT ![s] = [state |-> "LIVE", family |-> s]]
      /\ request' = [request EXCEPT ![p] = NoRequest]
      /\ UNCHANGED closed
  BY DEF EstablishSession
<1>2. /\ session'[s].state = "LIVE" /\ session'[s].family = s
      /\ \A t \in SessionIds \ {s} : session'[t] = session[t]
      /\ request'[p] = NoRequest
      /\ \A q \in Requests \ {p} : request'[q] = request[q]
  BY <1>1 DEF RowInv, TypeOK
<1>3. \A t \in SessionIds : Family(t) \in SessionIds
  BY DEF RowInv, TypeOK, Family, Session
<1>4. \A q \in Requests, t \in SessionIds : Claims(q, t)' => Claims(q, t)
  BY <1>2 DEF Claims, Handling, Busy
<1>5. ClaimsAreLive' /\ ClaimsAreExclusive'
  BY <1>1, <1>2, <1>4 DEF RowInv, ClaimsAreLive, ClaimsAreExclusive, Live, Unused
<1>6. LineagesBegun'
  <2>1. \A t \in SessionIds : ~Unused(t) => ~Unused(t)'
    BY <1>1, <1>2 DEF Unused
  <2>2. \A t \in SessionIds : ~Unused(t)' => ~Unused(Family(t))'
    BY <1>1, <1>2, <1>3, <2>1 DEF RowInv, LineagesBegun, Unused, Family
  <2>3. \A q \in Requests : Handling(q, "ROTATE")' => ~Unused(request[q].id)'
    <3> SUFFICES ASSUME NEW q \in Requests, Handling(q, "ROTATE")'
                 PROVE  ~Unused(request[q].id)'
      OBVIOUS
    <3>1. q # p /\ request'[q] = request[q] /\ Handling(q, "ROTATE")
      BY <1>2 DEF Handling, Busy
    <3>2. request[q].id \in SessionIds
      BY <3>1 DEF RowInv, TypeOK, Handling, Busy, Request, SignInRequest, RotateRequest,
                  RevokeRequest
    <3> QED
      BY <2>1, <3>1, <3>2 DEF RowInv, LineagesBegun, Unused
  <2>4. \A q \in Requests : Handling(q, "REVOKE")' /\ request'[q].cause = "FAMILY"
            => \A f \in request'[q].families : ~Unused(f)'
    <3> SUFFICES ASSUME NEW q \in Requests, Handling(q, "REVOKE")',
                        request'[q].cause = "FAMILY", NEW f \in request'[q].families
                 PROVE  ~Unused(f)'
      OBVIOUS
    <3>1. q # p /\ request'[q] = request[q] /\ Handling(q, "REVOKE")
      BY <1>2 DEF Handling, Busy
    <3>2. f \in SessionIds
      BY <3>1 DEF RowInv, TypeOK, Handling, Busy, Request, SignInRequest, RotateRequest,
                  RevokeRequest
    <3> QED
      BY <2>1, <3>1, <3>2 DEF RowInv, LineagesBegun
  <2>5. \A f \in closed' : ~Unused(f)'
    BY <1>1, <2>1 DEF RowInv, LineagesBegun, TypeOK
  <2> QED
    BY <2>2, <2>3, <2>4, <2>5 DEF LineagesBegun, Unused
<1>7. OneLiveSession'
  <2>1. \A t \in SessionIds \ {s} : Live(t) => Family(t) # s
    BY <1>1 DEF RowInv, LineagesBegun, Live, Unused
  <2> QED
    BY <1>2, <2>1 DEF RowInv, OneLiveSession, Live, Family
<1> QED
  BY <1>5, <1>6, <1>7 DEF RowInv

(* Rows that stop being live, none of them claimed.                        *)
LEMMA EndingKeepsRows ==
    ASSUME RowInv, TypeOK',
           \A s \in SessionIds :
               \/ session'[s] = session[s]
               \/ /\ session'[s].state \in {"REVOKED", "PURGED"}
                  /\ session'[s].family = session[s].family
                  /\ ~Unused(s) /\ ~Locked(s),
           \A q \in Requests : request'[q] = request[q] \/ request'[q] = NoRequest,
           \A f \in closed' : f \in SessionIds /\ ~Unused(f)
    PROVE  RowInv'
<1>1. \A q \in Requests, t \in SessionIds : Claims(q, t)' => Claims(q, t)
  BY DEF Claims, Handling, Busy
<1>2. ClaimsAreLive' /\ ClaimsAreExclusive'
  BY <1>1 DEF RowInv, ClaimsAreLive, ClaimsAreExclusive, Live, Locked
<1>3. \A t \in SessionIds : (~Unused(t) <=> ~Unused(t)') /\ Family(t)' = Family(t)
                            /\ Family(t) \in SessionIds /\ (Live(t)' => Live(t))
  BY DEF Unused, Family, Live, RowInv, TypeOK, Session
<1>4. LineagesBegun'
  <2>1. \A t \in SessionIds : ~Unused(t)' => ~Unused(Family(t))'
    BY <1>3 DEF RowInv, LineagesBegun, Unused
  <2>2. ASSUME NEW q \in Requests, Handling(q, "ROTATE")' PROVE ~Unused(request[q].id)'
    <3>1. request'[q] = request[q] /\ Handling(q, "ROTATE")
      BY <2>2 DEF Handling, Busy
    <3>2. request[q].id \in SessionIds
      BY <3>1 DEF RowInv, TypeOK, Handling, Busy, Request, SignInRequest, RotateRequest,
                  RevokeRequest
    <3> QED
      BY <1>3, <3>1, <3>2 DEF RowInv, LineagesBegun, Unused
  <2>3. ASSUME NEW q \in Requests, Handling(q, "REVOKE")',
               request'[q].cause = "FAMILY", NEW f \in request'[q].families
        PROVE  ~Unused(f)'
    <3>1. request'[q] = request[q] /\ Handling(q, "REVOKE")
      BY <2>3 DEF Handling, Busy
    <3>2. f \in SessionIds
      BY <2>3, <3>1 DEF RowInv, TypeOK, Handling, Busy, Request, SignInRequest,
                  RotateRequest, RevokeRequest
    <3> QED
      BY <1>3, <2>3, <3>1, <3>2 DEF RowInv, LineagesBegun
  <2>4. \A f \in closed' : ~Unused(f)'
    BY <1>3
  <2> QED
    BY <2>1, <2>2, <2>3, <2>4 DEF LineagesBegun, Unused
<1>5. OneLiveSession'
  BY <1>3 DEF RowInv, OneLiveSession
<1> QED
  BY <1>2, <1>4, <1>5 DEF RowInv

(* A rotation puts one live row in the place of the one it claimed.        *)
LEMMA ReplaceKeepsRows ==
    ASSUME RowInv, TypeOK', NEW p \in Requests, NEW t \in SessionIds, Replace(p, t)
    PROVE  RowInv'
<1> DEFINE s == request[p].id
<1>1. /\ s \in SessionIds /\ Claims(p, s) /\ Live(s) /\ Unused(t) /\ s # t
      /\ session' = [session EXCEPT ![s].state = "ROTATED",
                                    ![t] = [state |-> "LIVE", family |-> Family(s)]]
      /\ request' = [request EXCEPT ![p] = NoRequest]
      /\ UNCHANGED closed
  <2>1. request[p] \in RotateRequest
    BY DEF Replace, Handling, Busy, RowInv, TypeOK, Request, SignInRequest, RevokeRequest
  <2> QED
    BY <2>1 DEF Replace, RotateRequest, Claims, Handling, RowInv, ClaimsAreLive, Live, Unused
<1> HIDE DEF s
<1>2. /\ session'[t].state = "LIVE" /\ session'[t].family = Family(s)
      /\ session'[s].state = "ROTATED" /\ session'[s].family = session[s].family
      /\ \A r \in SessionIds \ {s, t} : session'[r] = session[r]
      /\ request'[p] = NoRequest
      /\ \A q \in Requests \ {p} : request'[q] = request[q]
  BY <1>1 DEF RowInv, TypeOK, Session
<1>3. \A q \in Requests, r \in SessionIds :
          Claims(q, r)' => Claims(q, r) /\ q # p /\ r # s /\ r # t
  <2> SUFFICES ASSUME NEW q \in Requests, NEW r \in SessionIds, Claims(q, r)'
               PROVE  Claims(q, r) /\ q # p /\ r # s /\ r # t
    OBVIOUS
  <2>1. Claims(q, r) /\ q # p
    BY <1>2 DEF Claims, Handling, Busy
  <2> QED
    BY <1>1, <2>1 DEF RowInv, ClaimsAreExclusive, ClaimsAreLive, Live, Unused
<1>4. ClaimsAreLive' /\ ClaimsAreExclusive'
  BY <1>2, <1>3 DEF RowInv, ClaimsAreLive, ClaimsAreExclusive, Live
<1>5. \A r \in SessionIds : /\ ~Unused(r) => ~Unused(r)' /\ Family(r)' = Family(r)
                            /\ Family(r) \in SessionIds
  BY <1>1, <1>2 DEF Unused, Family, RowInv, TypeOK, Session
<1>6. LineagesBegun'
  <2>1. \A r \in SessionIds : ~Unused(r)' => ~Unused(Family(r))'
    <3> SUFFICES ASSUME NEW r \in SessionIds, ~Unused(r)' PROVE ~Unused(Family(r))'
      OBVIOUS
    <3>1. CASE r = t
      <4>1. Family(t)' = Family(s) /\ ~Unused(s)
        BY <1>1, <1>2 DEF Family, Live, Unused
      <4>2. ~Unused(Family(s)) /\ Family(s) \in SessionIds
        BY <1>1, <1>5, <4>1 DEF RowInv, LineagesBegun
      <4> QED
        BY <1>5, <3>1, <4>1, <4>2 DEF Unused
    <3>2. CASE r # t
      <4>1. ~Unused(r)
        BY <1>1, <1>2, <3>2 DEF Unused, Live
      <4> QED
        BY <1>5, <4>1 DEF RowInv, LineagesBegun, Unused
    <3> QED
      BY <3>1, <3>2
  <2>2. ASSUME NEW q \in Requests, Handling(q, "ROTATE")' PROVE ~Unused(request[q].id)'
    <3>1. request'[q] = request[q] /\ Handling(q, "ROTATE")
      BY <1>2, <2>2 DEF Handling, Busy
    <3>2. request[q].id \in SessionIds
      BY <3>1 DEF RowInv, TypeOK, Handling, Busy, Request, SignInRequest, RotateRequest,
                  RevokeRequest
    <3> QED
      BY <1>5, <3>1, <3>2 DEF RowInv, LineagesBegun, Unused
  <2>3. ASSUME NEW q \in Requests, Handling(q, "REVOKE")',
               request'[q].cause = "FAMILY", NEW f \in request'[q].families
        PROVE  ~Unused(f)'
    <3>1. request'[q] = request[q] /\ Handling(q, "REVOKE")
      BY <1>2, <2>3 DEF Handling, Busy
    <3>2. f \in SessionIds
      BY <2>3, <3>1 DEF RowInv, TypeOK, Handling, Busy, Request, SignInRequest,
                  RotateRequest, RevokeRequest
    <3> QED
      BY <1>5, <2>3, <3>1, <3>2 DEF RowInv, LineagesBegun
  <2>4. \A f \in closed' : ~Unused(f)'
    BY <1>1, <1>5 DEF RowInv, LineagesBegun, TypeOK
  <2> QED
    BY <2>1, <2>2, <2>3, <2>4 DEF LineagesBegun, Unused
<1>7. OneLiveSession'
  <2>1. \A r \in SessionIds \ {t} : Live(r)' => Live(r) /\ r # s /\ Family(r)' = Family(r)
    BY <1>2 DEF Live, Family
  <2>2. \A r \in SessionIds \ {t} : Live(r)' => Family(r)' # Family(t)'
    BY <1>1, <1>2, <2>1 DEF RowInv, OneLiveSession, Family
  <2> QED
    BY <2>1, <2>2 DEF RowInv, OneLiveSession
<1> QED
  BY <1>4, <1>6, <1>7 DEF RowInv

LEMMA RowInvInductive == RowInv /\ [Next]_vars => RowInv'
<1> SUFFICES ASSUME RowInv, [Next]_vars PROVE RowInv'
  OBVIOUS
<1>t. TypeOK'
  BY TypesKept DEF RowInv
<1>e. \A s \in SessionIds : Family(s) \in SessionIds
  BY DEF RowInv, TypeOK, Family, Session
<1>1. ASSUME NEW p \in Requests, NEW correct \in BOOLEAN, SignIn(p, correct)
      PROVE  RowInv'
  <2>1. \A q \in Requests \ {p} : request'[q] = request[q]
    BY <1>1 DEF SignIn
  <2>2. request'[p].kind = "SIGN_IN"
    BY <1>1 DEF SignIn, RowInv, TypeOK
  <2> QED
    BY <1>1, <1>t, <2>1, <2>2, RequestsKeepRows DEF SignIn, Handling, Claims
<1>2. ASSUME NEW p \in Requests, FailedAttempt(p) \/ Fail(p) PROVE RowInv'
  <2>1. /\ \A q \in Requests \ {p} : request'[q] = request[q]
        /\ request'[p] = NoRequest
        /\ UNCHANGED <<session, closed>>
    BY <1>2 DEF FailedAttempt, Fail, RowInv, TypeOK
  <2> QED
    BY <1>t, <2>1, RequestsKeepRows DEF Handling, Busy, Claims
<1>3. ASSUME NEW p \in Requests, NEW s \in SessionIds, EstablishSession(p, s)
      PROVE  RowInv'
  BY <1>3, <1>t, SignInKeepsRows
<1>4. ASSUME NEW p \in Requests, NEW s \in SessionIds, Present(p, s)
      PROVE  RowInv'
  <2>1. /\ \A q \in Requests \ {p} : request'[q] = request[q]
        /\ UNCHANGED <<session, closed>>
        /\ ~Unused(s) /\ ~Unused(Family(s))
        /\ \/ request'[p] = [kind |-> "ROTATE", id |-> s, claimed |-> FALSE]
           \/ request'[p] = OfLineage(s)
    BY <1>4 DEF Present, Unused, RowInv, TypeOK, LineagesBegun
  <2> QED
    BY <1>t, <2>1, RequestsKeepRows DEF Handling, Busy, Claims, OfLineage, Revocation
<1>5. ASSUME NEW p \in Requests, NEW t \in SessionIds, Replace(p, t)
      PROVE  RowInv'
  BY <1>5, <1>t, ReplaceKeepsRows
<1>6. ASSUME NEW p \in Requests, Claim(p) PROVE RowInv'
  <2> DEFINE s == request[p].id
  <2>1. request[p] \in RotateRequest
    BY <1>6 DEF Claim, Handling, Busy, RowInv, TypeOK, Request, SignInRequest, RevokeRequest
  <2>2. /\ s \in SessionIds /\ ~Unused(s) /\ ~Unused(Family(s))
        /\ ~Locked(s)
        /\ UNCHANGED <<session, closed>>
        /\ \A q \in Requests \ {p} : request'[q] = request[q]
        /\ \/ request'[p] = [request[p] EXCEPT !.claimed = TRUE] /\ Live(s)
           \/ request'[p] = OfLineage(s)
    BY <1>6, <2>1 DEF Claim, MayClaim, RowInv, TypeOK, LineagesBegun, RotateRequest
  <2>3. CASE request'[p] = [request[p] EXCEPT !.claimed = TRUE] /\ Live(s)
    <3>1. request'[p].kind = "ROTATE" /\ request'[p].id = s
      BY <2>1, <2>3 DEF RotateRequest
    <3> QED
      <4>1. \A t \in SessionIds : Claims(p, t)' => Claims(p, t) \/ (Live(t) /\ ~Locked(t))
        BY <2>2, <2>3, <3>1 DEF Claims
      <4>2. Handling(p, "ROTATE")' => ~Unused(request'[p].id)
        BY <2>2, <3>1
      <4>3. ~Handling(p, "REVOKE")'
        BY <3>1 DEF Handling
      <4> QED
        BY <1>t, <2>2, <4>1, <4>2, <4>3, RequestsKeepRows
  <2>4. CASE request'[p] = OfLineage(s)
    BY <1>t, <2>2, <2>4, RequestsKeepRows DEF Handling, Busy, Claims, OfLineage, Revocation
  <2> QED
    BY <2>2, <2>3, <2>4
<1>7. ASSUME NEW p \in Requests, NEW cause \in Causes, StartRevoking(p, cause)
      PROVE  RowInv'
  <2>1. /\ \A q \in Requests \ {p} : request'[q] = request[q]
        /\ UNCHANGED <<session, closed>>
        /\ request'[p] = Revocation(cause, SessionIds) /\ cause # "FAMILY"
    BY <1>7 DEF StartRevoking, RowInv, TypeOK
  <2> QED
    BY <1>t, <2>1, RequestsKeepRows DEF Handling, Busy, Claims, Revocation
<1>8. ASSUME NEW p \in Requests, Scan(p) PROVE RowInv'
  <2>1. request[p] \in RevokeRequest
    BY <1>8 DEF Scan, Handling, Busy, RowInv, TypeOK, Request, SignInRequest, RotateRequest
  <2>2. /\ \A q \in Requests \ {p} : request'[q] = request[q]
        /\ UNCHANGED <<session, closed>>
        /\ request'[p] = [[request[p] EXCEPT !.scanned = TRUE]
                                      EXCEPT !.targets = Targets(request[p])]
    BY <1>8 DEF Scan, RowInv, TypeOK
  <2>3. /\ request'[p].kind = "REVOKE" /\ request'[p].cause = request[p].cause
        /\ request'[p].families = request[p].families
    BY <2>1, <2>2 DEF RevokeRequest
  <2>4. request[p].cause = "FAMILY" => \A f \in request[p].families : ~Unused(f)
    BY <1>8 DEF Scan, RowInv, LineagesBegun
  <2> QED
    BY <1>t, <2>2, <2>3, <2>4, RequestsKeepRows DEF Handling, Busy, Claims
<1>9. ASSUME NEW p \in Requests, Revoke(p) PROVE RowInv'
  <2>1. request[p] \in RevokeRequest /\ Handling(p, "REVOKE")
    BY <1>9 DEF Revoke, Handling, Busy, RowInv, TypeOK, Request, SignInRequest, RotateRequest
  <2>2. \A s \in SessionIds :
            \/ session'[s] = session[s]
            \/ /\ session'[s].state \in {"REVOKED", "PURGED"}
               /\ session'[s].family = session[s].family
               /\ ~Unused(s) /\ ~Locked(s)
    BY <1>9 DEF Revoke, Live, Unused, RowInv, TypeOK, Session
  <2>3. \A q \in Requests : request'[q] = request[q] \/ request'[q] = NoRequest
    BY <1>9 DEF Revoke, RowInv, TypeOK
  <2>4. \A f \in closed' : f \in SessionIds /\ ~Unused(f)
    BY <1>9, <2>1 DEF Revoke, RowInv, LineagesBegun, TypeOK, RevokeRequest
  <2> QED
    BY <1>t, <2>2, <2>3, <2>4, EndingKeepsRows
<1>10. ASSUME NEW s \in SessionIds, Logout(s) \/ Purge(s) PROVE RowInv'
  <2>1. \A r \in SessionIds :
            \/ session'[r] = session[r]
            \/ /\ session'[r].state \in {"REVOKED", "PURGED"}
               /\ session'[r].family = session[r].family
               /\ ~Unused(r) /\ ~Locked(r)
    BY <1>10 DEF Logout, Purge, Live, Unused, RowInv, TypeOK, Session
  <2>2. UNCHANGED <<request, closed>>
    BY <1>10 DEF Logout, Purge
  <2>3. \A f \in closed' : f \in SessionIds /\ ~Unused(f)
    BY <2>2 DEF RowInv, LineagesBegun, TypeOK
  <2> QED
    BY <1>t, <2>1, <2>2, <2>3, EndingKeepsRows
<1>11. CASE \/ \E s \in SessionIds : Expire(s)
            \/ Unlock \/ Reactivate
            \/ UNCHANGED vars
  <2>1. UNCHANGED <<session, request, closed>>
    BY <1>11 DEF Expire, Unlock, Reactivate, vars
  <2> QED
    BY <1>t, <2>1 DEF RowInv, ClaimsAreLive, ClaimsAreExclusive, LineagesBegun,
       OneLiveSession, Claims, Handling, Busy, Live, Unused, Family
<1> QED
  BY <1>1, <1>2, <1>3, <1>4, <1>5, <1>6, <1>7, <1>8, <1>9, <1>10, <1>11
  DEF Next, RequestStep

-----------------------------------------------------------------------------
LEMMA RequestShapes ==
    ASSUME TypeOK, NEW p \in Requests
    PROVE  /\ Handling(p, "ROTATE") => request[p] \in RotateRequest
           /\ Handling(p, "REVOKE") => request[p] \in RevokeRequest
BY DEF TypeOK, Handling, Busy, Request, SignInRequest, RotateRequest, RevokeRequest

(* Steps that bring nothing to life, claim nothing and finish no scan.     *)
LEMMA QuietStepsKeepFinality ==
    ASSUME SInv, RowInv',
           closed' = closed, raced \subseteq raced',
           account.active => account'.active,
           \A s \in SessionIds : Family(s)' = Family(s) /\ (Live(s)' => Live(s)),
           \A q \in Requests, s \in SessionIds : Claims(q, s)' => Claims(q, s),
           \A q \in Requests : Final(q)' => Final(q) /\ request'[q] = request[q],
           \A q \in Requests : Handling(q, "REVOKE")' /\ request'[q].cause = "SUSPENDED"
               => request'[q].families = SessionIds
    PROVE  SInv'
<1>1. SuspensionsCoverAll'
  BY DEF SuspensionsCoverAll
<1>2. ScansAreComplete'
  <2> SUFFICES ASSUME NEW q \in Requests, NEW s \in SessionIds,
                      Final(q)', Covers(request[q], s)', Family(s)' \notin raced'
               PROVE  (Live(s)' => s \in request'[q].targets) /\ ~Locked(s)'
    BY DEF ScansAreComplete
  <2>1. /\ Final(q) /\ request'[q] = request[q] /\ Covers(request[q], s)
        /\ Family(s) \notin raced
    BY DEF Covers
  <2>2. (Live(s) => s \in request[q].targets) /\ ~Locked(s)
    BY <2>1 DEF SInv, ScansAreComplete
  <2> QED
    BY <2>1, <2>2 DEF Locked
<1>3. RevokedStaysDead'
  BY DEF SInv, RevokedStaysDead
<1> QED
  BY <1>1, <1>2, <1>3 DEF SInv

LEMMA ClaimKeepsFinality ==
    ASSUME SInv, RowInv', NEW p \in Requests, Claim(p)
    PROVE  SInv'
<1> DEFINE s == request[p].id
<1>1. request[p] \in RotateRequest
  BY RequestShapes DEF Claim, SInv, RowInv
<1>2. /\ UNCHANGED <<session, closed, account>> /\ raced \subseteq raced'
      /\ s \in SessionIds
      /\ \A q \in Requests \ {p} : request'[q] = request[q]
      /\ \/ /\ request'[p] = [request[p] EXCEPT !.claimed = TRUE]
            /\ Scanned(s) => Family(s) \in raced'
         \/ request'[p] = OfLineage(s)
  BY <1>1 DEF Claim, SInv, RowInv, TypeOK, RotateRequest
<1>3. CASE request'[p] = OfLineage(s)
  <2>1. /\ \A q \in Requests, r \in SessionIds : Claims(q, r)' => Claims(q, r)
        /\ \A q \in Requests : Final(q)' => Final(q) /\ request'[q] = request[q]
        /\ \A q \in Requests : Handling(q, "REVOKE")' /\ request'[q].cause = "SUSPENDED"
               => request'[q].families = SessionIds
    BY <1>2, <1>3 DEF Claims, Final, Handling, Busy, OfLineage, Revocation, SInv,
                      SuspensionsCoverAll
  <2> QED
    BY <1>2, <2>1, QuietStepsKeepFinality DEF Live, Family
<1>4. CASE /\ request'[p] = [request[p] EXCEPT !.claimed = TRUE]
           /\ Scanned(s) => Family(s) \in raced'
  <2>1. request'[p].kind = "ROTATE" /\ request'[p].id = s
    BY <1>1, <1>4 DEF RotateRequest
  <2> HIDE DEF s
  <2>2. SuspensionsCoverAll'
    BY <1>2, <2>1 DEF SInv, SuspensionsCoverAll, Handling, Busy
  <2>3. ScansAreComplete'
    <3> SUFFICES ASSUME NEW q \in Requests, NEW r \in SessionIds,
                        Final(q)', Covers(request[q], r)', Family(r)' \notin raced'
                 PROVE  (Live(r)' => r \in request'[q].targets) /\ ~Locked(r)'
      BY DEF ScansAreComplete
    <3>1. /\ q # p /\ request'[q] = request[q] /\ Final(q) /\ Covers(request[q], r)
          /\ Family(r) = Family(r)' /\ Family(r) \notin raced
      BY <1>2, <2>1 DEF Final, Handling, Busy, Covers, Family
    <3>2. (Live(r) => r \in request[q].targets) /\ ~Locked(r)
      BY <3>1 DEF SInv, ScansAreComplete
    <3>3. r # s
      BY <1>2, <1>4, <3>1 DEF Scanned, Final
    <3>4. ~Locked(r)'
      BY <1>2, <2>1, <3>2, <3>3 DEF Locked, Claims, Handling, Busy
    <3> QED
      BY <1>2, <3>1, <3>2, <3>4 DEF Live
  <2>4. RevokedStaysDead'
    BY <1>2 DEF SInv, RevokedStaysDead, Live, Family
  <2> QED
    BY <2>2, <2>3, <2>4 DEF SInv
<1> QED
  BY <1>2, <1>3, <1>4

LEMMA ReplaceKeepsFinality ==
    ASSUME SInv, RowInv', NEW p \in Requests, NEW t \in SessionIds, Replace(p, t)
    PROVE  SInv'
<1> DEFINE s == request[p].id
<1>1. request[p] \in RotateRequest
  BY RequestShapes DEF Replace, SInv, RowInv
<1>2. /\ s \in SessionIds /\ Claims(p, s) /\ Live(s) /\ s # t
      /\ UNCHANGED <<closed, account, raced>>
      /\ \A q \in Requests \ {p} : request'[q] = request[q]
      /\ request'[p] = NoRequest
      /\ session'[t].family = Family(s)
      /\ session'[s].state = "ROTATED" /\ session'[s].family = session[s].family
      /\ \A r \in SessionIds \ {s, t} : session'[r] = session[r]
  <2>1. s \in SessionIds /\ Claims(p, s) /\ Live(s) /\ s # t
    BY <1>1 DEF Replace, RotateRequest, Claims, Handling, SInv, RowInv, ClaimsAreLive, Live,
                Unused
  <2> QED
    BY <2>1 DEF Replace, SInv, RowInv, TypeOK, Session
<1> HIDE DEF s
<1>3. SuspensionsCoverAll'
  BY <1>2 DEF SInv, SuspensionsCoverAll, Handling, Busy
<1>4. ScansAreComplete'
  <2> SUFFICES ASSUME NEW q \in Requests, NEW r \in SessionIds,
                      Final(q)', Covers(request[q], r)', Family(r)' \notin raced'
               PROVE  (Live(r)' => r \in request'[q].targets) /\ ~Locked(r)'
    BY DEF ScansAreComplete
  <2>1. q # p /\ request'[q] = request[q] /\ Final(q)
    BY <1>2 DEF Final, Handling, Busy
  <2>2. r # t
    <3> SUFFICES ASSUME r = t PROVE FALSE
      OBVIOUS
    <3>1. Covers(request[q], s) /\ Family(s) \notin raced
      BY <1>2, <2>1 DEF Covers, Family
    <3>2. ~Locked(s)
      BY <1>2, <2>1, <3>1 DEF SInv, ScansAreComplete
    <3> QED
      BY <1>2, <3>2 DEF Locked
  <2>3. Covers(request[q], r) /\ Family(r) \notin raced /\ (Live(r)' => Live(r))
    BY <1>2, <2>1, <2>2 DEF Covers, Family, Live
  <2>4. (Live(r) => r \in request[q].targets) /\ ~Locked(r)
    BY <2>1, <2>3 DEF SInv, ScansAreComplete
  <2> QED
    BY <1>2, <2>1, <2>3, <2>4 DEF Locked, Claims, Handling, Busy
<1>5. RevokedStaysDead'
  <2> SUFFICES ASSUME NEW r \in SessionIds, Live(r)', Family(r)' \notin raced'
               PROVE  Family(r)' \notin closed' /\ account'.active
    BY DEF RevokedStaysDead
  <2>1. CASE r = t
    BY <1>2, <2>1 DEF SInv, RevokedStaysDead, Family
  <2>2. CASE r # t
    BY <1>2, <2>2 DEF SInv, RevokedStaysDead, Family, Live
  <2> QED
    BY <2>1, <2>2
<1> QED
  BY <1>3, <1>4, <1>5 DEF SInv

LEMMA SignInKeepsFinality ==
    ASSUME SInv, RowInv', NEW p \in Requests, NEW s \in SessionIds, EstablishSession(p, s)
    PROVE  SInv'
<1>1. /\ Unused(s) /\ s \notin closed
      /\ session'[s].family = s
      /\ \A t \in SessionIds \ {s} : session'[t] = session[t]
      /\ request'[p] = NoRequest
      /\ \A q \in Requests \ {p} : request'[q] = request[q]
      /\ closed' = closed /\ raced \subseteq raced'
      /\ account'.active = account.active
      /\ s \notin raced' => account.active /\ ~Suspending
  BY ResetIsAnAccount
  DEF EstablishSession, SInv, RowInv, TypeOK, LineagesBegun
<1>2. SuspensionsCoverAll'
  BY <1>1 DEF SInv, SuspensionsCoverAll, Handling, Busy
<1>3. ScansAreComplete'
  <2> SUFFICES ASSUME NEW q \in Requests, NEW r \in SessionIds,
                      Final(q)', Covers(request[q], r)', Family(r)' \notin raced'
               PROVE  (Live(r)' => r \in request'[q].targets) /\ ~Locked(r)'
    BY DEF ScansAreComplete
  <2>1. q # p /\ request'[q] = request[q] /\ Final(q)
    BY <1>1 DEF Final, Handling, Busy
  <2>2. r # s
    <3> SUFFICES ASSUME r = s PROVE FALSE
      OBVIOUS
    <3>1. s \in request[q].families /\ s \notin raced'
      BY <1>1, <2>1 DEF Covers, Family
    <3>2. request[q].cause = "FAMILY"
      BY <1>1, <2>1, <3>1 DEF Suspending, Final
    <3> QED
      BY <1>1, <2>1, <3>1, <3>2 DEF SInv, RowInv, LineagesBegun, Final
  <2>3. Covers(request[q], r) /\ Family(r) \notin raced /\ (Live(r)' => Live(r))
    BY <1>1, <2>1, <2>2 DEF Covers, Family, Live
  <2>4. (Live(r) => r \in request[q].targets) /\ ~Locked(r)
    BY <2>1, <2>3 DEF SInv, ScansAreComplete
  <2> QED
    BY <1>1, <2>1, <2>3, <2>4 DEF Locked, Claims, Handling, Busy
<1>4. RevokedStaysDead'
  <2> SUFFICES ASSUME NEW r \in SessionIds, Live(r)', Family(r)' \notin raced'
               PROVE  Family(r)' \notin closed' /\ account'.active
    BY DEF RevokedStaysDead
  <2>1. CASE r = s
    BY <1>1, <2>1 DEF Family
  <2>2. CASE r # s
    BY <1>1, <2>2 DEF SInv, RevokedStaysDead, Family, Live
  <2> QED
    BY <2>1, <2>2
<1> QED
  BY <1>2, <1>3, <1>4 DEF SInv

LEMMA RevocationKeepsFinality ==
    ASSUME SInv, RowInv', NEW p \in Requests, Scan(p) \/ Revoke(p)
    PROVE  SInv'
<1>1. request[p] \in RevokeRequest
  BY RequestShapes DEF Scan, Revoke, SInv, RowInv
<1>2. CASE Scan(p)
  <2>1. /\ UNCHANGED <<session, closed, account>> /\ raced \subseteq raced'
        /\ \A q \in Requests \ {p} : request'[q] = request[q]
        /\ request'[p] = [[request[p] EXCEPT !.scanned = TRUE]
                                      EXCEPT !.targets = Targets(request[p])]
        /\ \A s \in SessionIds : Locked(s) /\ Covers(request[p], s) => Family(s) \in raced'
    BY <1>2 DEF Scan, SInv, RowInv, TypeOK
  <2>2. /\ request'[p].kind = "REVOKE" /\ request'[p].cause = request[p].cause
        /\ request'[p].families = request[p].families
        /\ request'[p].targets = Targets(request[p])
    BY <1>1, <2>1 DEF RevokeRequest
  <2>3. SuspensionsCoverAll'
    BY <1>2, <2>1, <2>2 DEF SInv, SuspensionsCoverAll, Handling, Busy, Scan
  <2>4. \A s \in SessionIds : Locked(s)' => Locked(s)
    BY <2>1, <2>2 DEF Locked, Claims, Handling, Busy
  <2>5. ScansAreComplete'
    <3> SUFFICES ASSUME NEW q \in Requests, NEW s \in SessionIds,
                        Final(q)', Covers(request[q], s)', Family(s)' \notin raced'
                 PROVE  (Live(s)' => s \in request'[q].targets) /\ ~Locked(s)'
      BY DEF ScansAreComplete
    <3>1. Family(s) = Family(s)' /\ Family(s) \notin raced /\ (Live(s)' <=> Live(s))
      BY <2>1 DEF Family, Live
    <3>2. CASE q = p
      BY <2>1, <2>2, <2>4, <3>1, <3>2 DEF Covers, Targets
    <3>3. CASE q # p
      <4>1. Final(q) /\ Covers(request[q], s) /\ request'[q] = request[q]
        BY <2>1, <3>1, <3>3 DEF Final, Handling, Busy, Covers
      <4> QED
        BY <2>4, <3>1, <4>1 DEF SInv, ScansAreComplete
    <3> QED
      BY <3>2, <3>3
  <2>6. RevokedStaysDead'
    BY <2>1 DEF SInv, RevokedStaysDead, Live, Family
  <2> QED
    BY <2>3, <2>5, <2>6 DEF SInv
<1>3. CASE Revoke(p)
  <2>1. /\ Handling(p, "REVOKE") /\ request[p].scanned
        /\ \A s \in SessionIds : /\ session'[s].family = session[s].family
                                 /\ Live(s)' => Live(s) /\ s \notin request[p].targets
        /\ raced' = raced /\ request'[p] = NoRequest
        /\ \A q \in Requests \ {p} : request'[q] = request[q]
    BY <1>3 DEF Revoke, Commits, Live, SInv, RowInv, TypeOK, Session
  <2>2. /\ closed' = closed \/ (request[p].cause = "FAMILY"
                                /\ closed' = closed \cup request[p].families)
        /\ account'.active = account.active \/ request[p].cause = "SUSPENDED"
    <3>1. account \in Account
      BY DEF SInv, RowInv, TypeOK
    <3>2. AccountAfter(request[p].cause).active = account.active
              \/ request[p].cause = "SUSPENDED"
      BY <3>1, ResetIsAnAccount DEF AccountAfter
    <3> QED
      BY <1>3, <3>2 DEF Revoke
  <2>3. SuspensionsCoverAll'
    BY <2>1 DEF SInv, SuspensionsCoverAll, Handling, Busy
  <2>4. ScansAreComplete'
    <3> SUFFICES ASSUME NEW q \in Requests, NEW s \in SessionIds,
                        Final(q)', Covers(request[q], s)', Family(s)' \notin raced'
                 PROVE  (Live(s)' => s \in request'[q].targets) /\ ~Locked(s)'
      BY DEF ScansAreComplete
    <3>1. q # p /\ Final(q) /\ request'[q] = request[q] /\ Covers(request[q], s)
          /\ Family(s) \notin raced
      BY <2>1 DEF Final, Handling, Busy, Covers, Family
    <3> QED
      BY <2>1, <3>1 DEF SInv, ScansAreComplete, Locked, Claims, Handling, Busy
  <2>5. RevokedStaysDead'
    <3> SUFFICES ASSUME NEW s \in SessionIds, Live(s)', Family(s)' \notin raced'
                 PROVE  Family(s)' \notin closed' /\ account'.active
      BY DEF RevokedStaysDead
    <3>1. Live(s) /\ s \notin request[p].targets /\ Family(s)' = Family(s)
          /\ Family(s) \notin raced
      BY <2>1 DEF Family
    <3>2. Family(s) \notin closed /\ account.active
      BY <3>1 DEF SInv, RevokedStaysDead
    <3>3. request[p].cause \in {"FAMILY", "SUSPENDED"} => ~Covers(request[p], s)
      BY <2>1, <3>1 DEF SInv, ScansAreComplete, Final
    <3>4. request[p].cause # "SUSPENDED"
      <4>1. Family(s) \in SessionIds
        BY DEF Family, SInv, RowInv, TypeOK, Session
      <4> QED
        BY <2>1, <3>3, <4>1 DEF SInv, SuspensionsCoverAll, Covers
    <3> QED
      BY <2>2, <3>1, <3>2, <3>3, <3>4 DEF Covers
  <2> QED
    BY <2>3, <2>4, <2>5 DEF SInv
<1> QED
  BY <1>2, <1>3

LEMMA SInvInductive == SInv /\ [Next]_vars => SInv'
<1> SUFFICES ASSUME SInv, [Next]_vars PROVE SInv'
  OBVIOUS
<1>1. RowInv'
  BY RowInvInductive DEF SInv
<1>2. ASSUME NEW p \in Requests,
             \/ \E correct \in BOOLEAN : SignIn(p, correct)
             \/ \E s \in SessionIds : Present(p, s)
             \/ \E cause \in Causes : StartRevoking(p, cause)
             \/ FailedAttempt(p) \/ Fail(p)
      PROVE  SInv'
  <2>1. /\ UNCHANGED <<session, closed, raced>>
        /\ account'.active = account.active
        /\ \A q \in Requests \ {p} : request'[q] = request[q]
    BY <1>2 DEF SignIn, Present, StartRevoking, FailedAttempt, Fail, SInv, RowInv, TypeOK,
                Account
  <2>2. \/ request'[p] = NoRequest
        \/ request'[p].kind = "SIGN_IN"
        \/ request'[p].kind = "ROTATE" /\ ~request'[p].claimed
        \/ /\ request'[p].kind = "REVOKE" /\ ~request'[p].scanned
           /\ request'[p].cause = "SUSPENDED" => request'[p].families = SessionIds
    BY <1>2 DEF SignIn, Present, StartRevoking, FailedAttempt, Fail, OfLineage, Revocation,
                SInv, RowInv, TypeOK
  <2>3. /\ \A q \in Requests, s \in SessionIds : Claims(q, s)' => Claims(q, s)
        /\ \A q \in Requests : Final(q)' => Final(q) /\ request'[q] = request[q]
        /\ \A q \in Requests : Handling(q, "REVOKE")' /\ request'[q].cause = "SUSPENDED"
               => request'[q].families = SessionIds
    BY <2>1, <2>2 DEF Claims, Final, Handling, Busy, SInv, SuspensionsCoverAll
  <2> QED
    BY <1>1, <2>1, <2>3, QuietStepsKeepFinality DEF Live, Family
<1>3. ASSUME NEW s \in SessionIds, Logout(s) \/ Expire(s) \/ Purge(s) PROVE SInv'
  <2>1. UNCHANGED <<request, account, closed, raced>>
    BY <1>3 DEF Logout, Expire, Purge
  <2>2. \A t \in SessionIds : Family(t)' = Family(t) /\ (Live(t)' => Live(t))
    BY <1>3 DEF Logout, Expire, Purge, Family, Live, SInv, RowInv, TypeOK, Session
  <2> QED
    BY <1>1, <2>1, <2>2, QuietStepsKeepFinality
       DEF Claims, Final, Handling, Busy, SInv, SuspensionsCoverAll
<1>4. CASE Unlock \/ Reactivate \/ UNCHANGED vars
  <2>1. UNCHANGED <<session, request, closed, raced>>
    BY <1>4 DEF Unlock, Reactivate, vars
  <2>2. account.active => account'.active
    BY <1>4, ResetIsAnAccount DEF Unlock, Reactivate, vars, SInv, RowInv, TypeOK, Account
  <2> QED
    BY <1>1, <2>1, <2>2, QuietStepsKeepFinality
       DEF Claims, Final, Handling, Busy, SInv, SuspensionsCoverAll, Family, Live
<1> QED
  BY <1>1, <1>2, <1>3, <1>4, ClaimKeepsFinality, ReplaceKeepsFinality, SignInKeepsFinality,
     RevocationKeepsFinality
  DEF Next, RequestStep

LEMMA SInvHolds == Spec => []SInv
<1>1. Init => SInv
  <2> SUFFICES ASSUME Init PROVE SInv
    OBVIOUS
  <2>1. TypeOK
    <3>1. 0 \in 0..MaxFailures
      BY SessionsAssumption
    <3>2. account \in Account /\ session \in [SessionIds -> Session]
      BY <3>1 DEF Init, Account, Session, States
    <3> QED
      BY <3>1, <3>2 DEF Init, TypeOK
  <2> QED
    BY <2>1 DEF Init, SInv, RowInv, ClaimsAreLive, ClaimsAreExclusive, LineagesBegun,
       OneLiveSession, SuspensionsCoverAll, ScansAreComplete, RevokedStaysDead, Claims,
       Handling, Busy, Final, Live, Unused
<1> QED
  BY <1>1, SInvInductive, PTL DEF Spec

-----------------------------------------------------------------------------
(* The counter: a failed attempt writes what it read plus one, and what it *)
(* read is still the truth unless another attempt, or a reset, came        *)
(* between - which mixed records.                                          *)
LEMMA CountsStayExact ==
    TypeOK /\ CountsAgree /\ [Next]_vars =>
        /\ CountsAgree'
        /\ ~mixed' => /\ account'.failed = wrong'
                      /\ wrong' > wrong /\ wrong' >= MaxAttempts => account'.locked
<1> DEFINE Counted == ~mixed' => /\ account'.failed = wrong'
                                 /\ wrong' > wrong /\ wrong' >= MaxAttempts
                                        => account'.locked
<1> SUFFICES ASSUME TypeOK, CountsAgree, [Next]_vars PROVE CountsAgree' /\ Counted
  OBVIOUS
<1>t. account \in Account /\ wrong \in 0..MaxFailures
  BY DEF TypeOK
<1>1. ASSUME NEW p \in Requests, NEW correct \in BOOLEAN, SignIn(p, correct)
      PROVE  CountsAgree' /\ Counted
  <2>1. /\ UNCHANGED <<account, wrong>>
        /\ \A q \in Requests \ {p} : request'[q] = request[q]
        /\ request'[p].kind = "SIGN_IN" /\ request'[p].failed = account.failed
        /\ ~mixed' => ~mixed /\ \A q \in Requests : ~Handling(q, "SIGN_IN")
    BY <1>1 DEF SignIn, TypeOK
  <2> QED
    BY <1>t, <2>1 DEF CountsAgree, Handling, Busy
<1>2. ASSUME NEW p \in Requests, FailedAttempt(p) PROVE CountsAgree' /\ Counted
  <2> DEFINE attempts == request[p].failed + 1
  <2>1. /\ Handling(p, "SIGN_IN") /\ mixed' = mixed /\ wrong' = wrong + 1
        /\ account' = [account EXCEPT !.failed = attempts,
                                      !.locked = @ \/ ShouldLock(attempts)]
        /\ request'[p] = NoRequest
        /\ \A q \in Requests \ {p} : request'[q] = request[q]
    BY <1>2 DEF FailedAttempt, TypeOK
  <2>2. ~mixed => attempts = wrong + 1
    BY <2>1 DEF CountsAgree
  <2> HIDE DEF attempts
  <2>3. account' = [[account EXCEPT !.failed = attempts]
                        EXCEPT !.locked = account.locked \/ ShouldLock(attempts)]
    BY <2>1
  <2>4. account'.failed = attempts /\ (ShouldLock(attempts) => account'.locked)
    BY <1>t, <2>3 DEF Account
  <2>5. ~mixed => \A q \in Requests : ~Handling(q, "SIGN_IN")'
    BY <2>1 DEF CountsAgree, Handling, Busy
  <2> QED
    BY <1>t, <2>1, <2>2, <2>4, <2>5 DEF CountsAgree, ShouldLock
<1>3. ASSUME NEW p \in Requests, NEW s \in SessionIds, EstablishSession(p, s)
      PROVE  CountsAgree' /\ Counted
  <2>1. /\ account' = CounterReset /\ wrong' = 0
        /\ request'[p] = NoRequest
        /\ \A q \in Requests \ {p} : request'[q] = request[q]
        /\ ~mixed' => \A q \in Requests \ {p} : ~Handling(q, "SIGN_IN")
    BY <1>3 DEF EstablishSession, ResetMixes, TypeOK
  <2> QED
    BY <1>t, <2>1, ResetIsAnAccount DEF CountsAgree, Handling, Busy
<1>4. ASSUME NEW p \in Requests,
             \/ \E s \in SessionIds : Present(p, s) \/ Replace(p, s)
             \/ \E cause \in Causes : StartRevoking(p, cause)
             \/ Claim(p) \/ Scan(p) \/ Fail(p)
      PROVE  CountsAgree' /\ Counted
  <2>1. /\ UNCHANGED <<account, wrong, mixed>>
        /\ \A q \in Requests \ {p} : request'[q] = request[q]
    BY <1>4 DEF Present, Replace, StartRevoking, Claim, Scan, Fail, TypeOK
  <2>2. request'[p] = NoRequest \/ request'[p].kind # "SIGN_IN"
    <3>1. CASE Scan(p)
      <4>1. request[p] \in RevokeRequest
        BY <3>1, RequestShapes DEF Scan
      <4>2. request'[p] = [[request[p] EXCEPT !.scanned = TRUE]
                                       EXCEPT !.targets = Targets(request[p])]
        BY <3>1 DEF Scan, TypeOK
      <4> QED
        BY <4>1, <4>2 DEF RevokeRequest
    <3>2. CASE Claim(p)
      <4>1. request[p] \in RotateRequest
        BY <3>2, RequestShapes DEF Claim
      <4>2. \/ request'[p] = [request[p] EXCEPT !.claimed = TRUE]
            \/ request'[p] = OfLineage(request[p].id)
        BY <3>2 DEF Claim, TypeOK
      <4> QED
        BY <4>1, <4>2 DEF RotateRequest, OfLineage, Revocation
    <3>3. CASE ~Scan(p) /\ ~Claim(p)
      BY <1>4, <3>3 DEF Present, Replace, StartRevoking, Fail, OfLineage, Revocation, TypeOK
    <3> QED
      BY <3>1, <3>2, <3>3
  <2> QED
    BY <1>t, <2>1, <2>2 DEF CountsAgree, Handling, Busy
<1>5. ASSUME NEW p \in Requests, Revoke(p) PROVE CountsAgree' /\ Counted
  <2>1. /\ request'[p] = NoRequest
        /\ \A q \in Requests \ {p} : request'[q] = request[q]
        /\ account' = AccountAfter(request[p].cause)
    BY <1>5 DEF Revoke, TypeOK
  <2>2. CASE request[p].cause = "PASSWORD_RESET"
    <3>1. /\ account' = CounterReset /\ wrong' = 0
          /\ ~mixed' => \A q \in Requests \ {p} : ~Handling(q, "SIGN_IN")
      BY <1>5, <2>2 DEF Revoke, AccountAfter, ResetMixes
    <3> QED
      BY <1>t, <2>1, <3>1, ResetIsAnAccount DEF CountsAgree, Handling, Busy
  <2>3. CASE request[p].cause # "PASSWORD_RESET"
    <3>1. UNCHANGED <<wrong, mixed>>
      BY <1>5, <2>3 DEF Revoke
    <3>2. account'.failed = account.failed
      BY <1>t, <2>1, <2>3 DEF AccountAfter, Account
    <3> QED
      BY <1>t, <2>1, <3>1, <3>2 DEF CountsAgree, Handling, Busy
  <2> QED
    BY <2>2, <2>3
<1>6. CASE Reactivate
  <2>1. /\ account' = [CounterReset EXCEPT !.active = TRUE] /\ wrong' = 0
        /\ request' = request
        /\ ~mixed' => \A q \in Requests : ~Handling(q, "SIGN_IN")
    BY <1>6 DEF Reactivate
  <2> QED
    BY <1>t, <2>1, ResetIsAnAccount DEF CountsAgree, Handling, Busy
<1>7. CASE Unlock \/ (\E s \in SessionIds : Logout(s) \/ Expire(s) \/ Purge(s))
           \/ UNCHANGED vars
  <2>1. UNCHANGED <<request, wrong, mixed>> /\ account'.failed = account.failed
    BY <1>t, <1>7 DEF Unlock, Logout, Expire, Purge, vars, Account
  <2> QED
    BY <1>t, <2>1 DEF CountsAgree, Handling, Busy
<1> QED
  BY <1>1, <1>2, <1>3, <1>4, <1>5, <1>6, <1>7 DEF Next, RequestStep

-----------------------------------------------------------------------------
(* Type correctness of sessions, account and requests.                     *)
THEOREM TypeCorrectness == Spec => []TypeOK
<1>1. SInv => TypeOK
  BY DEF SInv, RowInv
<1> QED
  BY <1>1, SInvHolds, PTL

(* However many refreshes present one token, one of them wins: a lineage   *)
(* never has two live sessions.                                            *)
THEOREM OneRefreshWins == Spec => []OneLiveSession
<1>1. SInv => OneLiveSession
  BY DEF SInv, RowInv
<1> QED
  BY <1>1, SInvHolds, PTL

(* What reuse detection or a suspension revoked stays dead, for any number *)
(* of rotations, sign-ins and revocations, unless one of the former two    *)
(* overlapped it.                                                          *)
THEOREM RevocationIsFinal == Spec => []RevokedStaysDead
<1>1. SInv => RevokedStaysDead
  BY DEF SInv
<1> QED
  BY <1>1, SInvHolds, PTL

(* Sign-ins that do not overlap are counted exactly, and the limit locks.  *)
THEOREM AttemptsAreCounted == Spec => FailuresAreCounted
<1>1. Init => CountsAgree
  BY DEF Init, CountsAgree, Handling, Busy
<1>2. TypeOK /\ CountsAgree /\ [Next]_vars =>
          CountsAgree' /\ [~mixed' => /\ account'.failed = wrong'
                                      /\ wrong' > wrong /\ wrong' >= MaxAttempts
                                             => account'.locked]_vars
  BY CountsStayExact
<1> QED
  BY <1>1, <1>2, TypeCorrectness, PTL DEF Spec, FailuresAreCounted

(***************************************************************************)
(* Distributors.  As long as no request has acted on checks that a commit  *)
(* had overtaken, the checks of every request that is not stale still hold *)
(* when it writes; and whoever suspends or reactivates has read a status   *)
(* that only an approval leads to, stale or not.                           *)
(***************************************************************************)
(* Only an approval makes room for a suspension or a reactivation.         *)
ApprovalKept ==
    \A o \in Officers :
        asked[o] # Nothing /\ asked[o].act \in {"SUSPEND", "REACTIVATE"} => partner.onboarded

StaleAreAsking == \A o \in stale : asked[o] # Nothing

(* What MayAct and MayRemove have let a request do.                        *)
StillMay(r) ==
    /\ r.act \in Acts =>
           /\ LeadsTo[r.act] \in Transitions[partner.status]
           /\ r.act = "APPROVE" => Missing = {}
           /\ r.act = "REACTIVATE" => partner.status = "SUSPENDED"
    /\ r.act = "REMOVE" /\ IsActive =>
           /\ r.of \in Documents => kyc[r.of] # "VERIFIED"
           /\ r.of \in Contacts => contacts \ {r.of} # {}

ChecksStand ==
    \A o \in Officers \ stale : asked[o] # Nothing => StillMay(asked[o])

EvidenceStands ==
    partner.status \in {"ACTIVE", "SUSPENDED"} => Absent \subseteq waived

(* A distributor that had contacts has one, unless the last was removed    *)
(* where nothing forbids it.                                               *)
ContactKept ==
    onFile # {} /\ contacts = {} => "CONTACT" \in waived

DInv ==
    /\ PartnerTypeOK
    /\ ApprovedFirst
    /\ ApprovalKept
    /\ StaleAreAsking
    /\ ~overtaken => ChecksStand /\ EvidenceStands /\ ContactKept
    /\ TerminatedIsFinal

-----------------------------------------------------------------------------
(* Only known parts of the evidence are ever absent.                       *)
LEMMA AbsentType == Absent \subseteq Required \cup {"GSTIN", "CONTACT"}
BY DEF Absent, Missing, MissingKyc

LEMMA AbsentTypeNext == Absent' \subseteq Required \cup {"GSTIN", "CONTACT"}
BY DEF Absent, Missing, MissingKyc

(* What evidence is there depends on the verifications, on the GSTIN and   *)
(* on the contacts alone.                                                  *)
LEMMA SameEvidence ==
    ASSUME UNCHANGED <<kyc, contacts, onFile>>, partner'.gstin = partner.gstin
    PROVE  Missing' = Missing /\ Absent' = Absent
BY DEF Absent, Missing, MissingKyc

(* Where approve() misses nothing, only the contact can be absent.         *)
LEMMA OnlyTheContact ==
    ASSUME Missing = {}
    PROVE  Absent \subseteq {"CONTACT"} /\ onFile # {} /\ ("CONTACT" \in Absent => contacts = {})
BY DEF Absent, Missing

LEMMA InitDInv == PartnerInit => DInv
<1> SUFFICES ASSUME PartnerInit PROVE DInv
  OBVIOUS
<1> USE DEF PartnerInit
<1>1. PartnerTypeOK
  <2>1. PICK gstin \in BOOLEAN :
            partner = [status |-> "LEAD", gstin |-> gstin, onboarded |-> FALSE]
    OBVIOUS
  <2>2. partner \in [status : DistributorStatuses, gstin : BOOLEAN, onboarded : BOOLEAN]
    BY <2>1 DEF DistributorStatuses
  <2>3. kyc \in [Documents -> Verifications]
    BY DEF Verifications
  <2>4. asked \in [Officers -> Asked \cup {Nothing}]
    OBVIOUS
  <2> QED BY <2>2, <2>3, <2>4 DEF PartnerTypeOK
<1>2. /\ ApprovedFirst /\ StaleAreAsking /\ TerminatedIsFinal
      /\ EvidenceStands /\ ContactKept
  BY DEF ApprovedFirst, StaleAreAsking, TerminatedIsFinal, EvidenceStands, ContactKept
<1>3. ApprovalKept /\ ChecksStand
  BY DEF ApprovalKept, ChecksStand
<1> QED BY <1>1, <1>2, <1>3 DEF DInv

-----------------------------------------------------------------------------
LEMMA AskKeeps ==
    ASSUME DInv, NEW o \in Officers, NEW act \in Acts, Ask(o, act)
    PROVE  DInv'
<1> USE DEF DInv, Ask, Asking
<1>1. act \in DOMAIN LeadsTo /\ asked'[o] = [act |-> act, of |-> Nothing]
  BY DEF PartnerTypeOK, Acts
<1>2. /\ PartnerTypeOK'
      /\ Missing' = Missing /\ Absent' = Absent
  <2>1. [act |-> act, of |-> Nothing] \in Asked
    BY DEF Asked
  <2> QED BY <2>1, SameEvidence DEF PartnerTypeOK
<1>3. act = "SUSPEND" => partner.status = "ACTIVE"
  BY DEF MayAct, LeadsTo, Transitions, PartnerTypeOK, DistributorStatuses
<1>4. ApprovedFirst' /\ StaleAreAsking' /\ TerminatedIsFinal'
  BY <1>1, DistributorsAssumption
     DEF ApprovedFirst, StaleAreAsking, TerminatedIsFinal, PartnerTypeOK
<1>5. ApprovalKept'
  BY <1>1, <1>3 DEF ApprovalKept, ApprovedFirst, MayAct, PartnerTypeOK
<1>6. ASSUME ~overtaken' PROVE ChecksStand' /\ EvidenceStands' /\ ContactKept'
  <2>1. StillMay([act |-> act, of |-> Nothing])
    BY DEF StillMay, MayAct, Acts, LeadsTo
  <2>2. \A r : StillMay(r)' <=> StillMay(r)
    BY <1>2 DEF StillMay, IsActive
  <2> QED BY <1>1, <1>2, <1>6, <2>1, <2>2 DEF ChecksStand, EvidenceStands, ContactKept, PartnerTypeOK
<1> QED BY <1>2, <1>4, <1>5, <1>6

LEMMA AskRemovalKeeps ==
    ASSUME DInv, NEW o \in Officers, NEW it \in Documents \cup Contacts, AskRemoval(o, it)
    PROVE  DInv'
<1> USE DEF DInv, AskRemoval, Asking
<1>1. asked'[o] = [act |-> "REMOVE", of |-> it]
  BY DEF PartnerTypeOK
<1>2. PartnerTypeOK' /\ Missing' = Missing /\ Absent' = Absent
  <2>1. [act |-> "REMOVE", of |-> it] \in Asked
    BY DEF Asked
  <2> QED BY <2>1, SameEvidence DEF PartnerTypeOK
<1>3. ApprovedFirst' /\ StaleAreAsking' /\ TerminatedIsFinal'
  BY <1>1 DEF ApprovedFirst, StaleAreAsking, TerminatedIsFinal, PartnerTypeOK
<1>4. ApprovalKept'
  BY <1>1 DEF ApprovalKept, PartnerTypeOK
<1>5. ASSUME ~overtaken' PROVE ChecksStand' /\ EvidenceStands' /\ ContactKept'
  <2>1. StillMay([act |-> "REMOVE", of |-> it])
    BY DistributorsAssumption DEF StillMay, MayRemove, Acts, LeadsTo, Documents, PartnerTypeOK
  <2>2. \A r : StillMay(r)' <=> StillMay(r)
    BY <1>2 DEF StillMay, IsActive
  <2> QED BY <1>1, <1>2, <1>5, <2>1, <2>2 DEF ChecksStand, EvidenceStands, ContactKept, PartnerTypeOK
<1> QED BY <1>2, <1>3, <1>4, <1>5

LEMMA AbandonKeeps ==
    ASSUME DInv, NEW o \in Officers, Abandon(o)
    PROVE  DInv'
<1> USE DEF DInv, Abandon, Asking
<1>1. PartnerTypeOK' /\ Missing' = Missing /\ Absent' = Absent
  BY SameEvidence DEF PartnerTypeOK
<1>2. ApprovedFirst' /\ StaleAreAsking' /\ TerminatedIsFinal' /\ ApprovalKept'
  BY DEF ApprovedFirst, StaleAreAsking, TerminatedIsFinal, ApprovalKept, PartnerTypeOK
<1>3. ASSUME ~overtaken' PROVE ChecksStand' /\ EvidenceStands' /\ ContactKept'
  <2>1. \A r : StillMay(r)' <=> StillMay(r)
    BY <1>1 DEF StillMay, IsActive
  <2> QED BY <1>1, <1>3, <2>1 DEF ChecksStand, EvidenceStands, ContactKept, PartnerTypeOK
<1> QED BY <1>1, <1>2, <1>3

(* Once all other requests are stale, there is nothing left to check.      *)
LEMMA OvertakenChecks ==
    ASSUME Overtakes, stale' \subseteq Officers
    PROVE  ChecksStand' /\ StaleAreAsking'
BY DEF Overtakes, ChecksStand, StaleAreAsking

LEMMA TransitionKeeps ==
    ASSUME DInv, NEW o \in Officers, Transition(o)
    PROVE  DInv'
<1> DEFINE act == asked[o].act
<1> USE DEF DInv
<1>1. act \in Acts /\ asked[o] # Nothing
  BY DEF Transition, Asking
<1>2. /\ partner' = [partner EXCEPT !.status = LeadsTo[act],
                                    !.onboarded = @ \/ act = "APPROVE"]
      /\ ended' = (ended \/ act = "TERMINATE")
      /\ asked' = [asked EXCEPT ![o] = Nothing]
      /\ overtaken' = (overtaken \/ o \in stale)
      /\ Overtakes
      /\ IF act = "APPROVE" THEN Granted ELSE UNCHANGED waived
      /\ UNCHANGED <<kyc, contacts, onFile>>
  BY DEF Transition, Answers
<1>3. PartnerTypeOK'
  <2>1. LeadsTo[act] \in DistributorStatuses
    BY <1>1 DEF Acts, LeadsTo, DistributorStatuses
  <2>2. partner' \in [status : DistributorStatuses, gstin : BOOLEAN, onboarded : BOOLEAN]
    BY <1>2, <2>1 DEF PartnerTypeOK
  <2>3. asked' \in [Officers -> Asked \cup {Nothing}] /\ stale' \subseteq Officers
    BY <1>2 DEF PartnerTypeOK, Overtakes
  <2>4. ended' \in BOOLEAN /\ overtaken' \in BOOLEAN
    BY <1>2 DEF PartnerTypeOK
  <2>5. waived' \subseteq waived
    BY <1>2 DEF Granted
  <2> QED BY <1>2, <2>2, <2>3, <2>4, <2>5 DEF PartnerTypeOK
<1>4. Missing' = Missing /\ Absent' = Absent
  BY <1>2, SameEvidence DEF PartnerTypeOK
<1>5. ApprovedFirst' /\ ApprovalKept'
  <2>1. partner.onboarded => partner'.onboarded
    BY <1>2 DEF PartnerTypeOK
  <2>2. ApprovalKept'
    BY <1>2, <2>1 DEF ApprovalKept, PartnerTypeOK
  <2>3. partner'.status = LeadsTo[act] /\ (act = "APPROVE" => partner'.onboarded)
    BY <1>2 DEF PartnerTypeOK
  <2>4. act \in {"SUSPEND", "REACTIVATE"} => partner'.onboarded
    BY <1>1, <2>1 DEF ApprovalKept
  <2>5. LeadsTo[act] \in {"ACTIVE", "SUSPENDED"} => act \in {"APPROVE", "SUSPEND", "REACTIVATE"}
    BY <1>1 DEF Acts, LeadsTo
  <2> QED BY <2>2, <2>3, <2>4, <2>5 DEF ApprovedFirst
<1>6. ChecksStand' /\ StaleAreAsking'
  BY <1>2, <1>3, OvertakenChecks DEF PartnerTypeOK
<1>7. ASSUME ~overtaken' PROVE EvidenceStands' /\ ContactKept' /\ TerminatedIsFinal'
  <2>1. StillMay(asked[o])
    BY <1>1, <1>2, <1>7 DEF ChecksStand, PartnerTypeOK
  <2>2. /\ LeadsTo[act] \in Transitions[partner.status]
        /\ act = "APPROVE" => Missing = {}
        /\ act = "REACTIVATE" => partner.status = "SUSPENDED"
    BY <1>1, <2>1 DEF StillMay
  <2>3. act = "SUSPEND" => partner.status = "ACTIVE"
    BY <2>2 DEF LeadsTo, Transitions, PartnerTypeOK, DistributorStatuses
  <2>4. ~overtaken /\ EvidenceStands /\ ContactKept
    BY <1>2, <1>7
  <2>5. "CONTACT" \in waived => "CONTACT" \in waived'
    BY <1>2 DEF Granted
  <2>6. ContactKept'
    BY <1>2, <2>4, <2>5 DEF ContactKept
  <2>7. ASSUME act = "APPROVE" PROVE EvidenceStands'
    <3>1. Absent \subseteq {"CONTACT"} /\ ("CONTACT" \in Absent => "CONTACT" \in waived)
      BY <2>2, <2>4, <2>7, OnlyTheContact DEF ContactKept
    <3>2. Absent' \subseteq waived'
      BY <1>4, <2>5, <3>1
    <3> QED BY <3>2 DEF EvidenceStands
  <2>8. ASSUME act # "APPROVE" PROVE EvidenceStands'
    <3>1. partner'.status \in {"ACTIVE", "SUSPENDED"} => partner.status \in {"ACTIVE", "SUSPENDED"}
      BY <1>1, <1>2, <2>2, <2>3, <2>8 DEF PartnerTypeOK, Acts, LeadsTo
    <3>2. waived' = waived
      BY <1>2, <2>8
    <3> QED BY <1>4, <2>4, <3>1, <3>2 DEF EvidenceStands
  <2>9. TerminatedIsFinal'
    BY <1>1, <1>2, <1>7, <2>2
       DEF TerminatedIsFinal, PartnerTypeOK, LeadsTo, Transitions, Acts
  <2> QED BY <2>6, <2>7, <2>8, <2>9
<1> QED BY <1>3, <1>5, <1>6, <1>7 DEF TerminatedIsFinal

-----------------------------------------------------------------------------
(* What is withdrawn is waived, what is provided is not missing any more.  *)
LEMMA WithdrawnStands ==
    ASSUME Withdrawn, waived \subseteq Required \cup {"GSTIN", "CONTACT"}
    PROVE  /\ waived' \subseteq Required \cup {"GSTIN", "CONTACT"}
           /\ Absent \subseteq waived => Absent' \subseteq waived'
BY AbsentTypeNext DEF Withdrawn

(* A contact that goes where nothing forbids it is waived.                 *)
LEMMA WithdrawnContact ==
    ASSUME Withdrawn, ContactKept, onFile' = onFile
    PROVE  ContactKept'
<1> SUFFICES ASSUME onFile # {}, contacts' = {} PROVE "CONTACT" \in waived'
  BY DEF ContactKept
<1>1. "CONTACT" \in Absent'
  BY DEF Absent
<1>2. CASE contacts = {}
  BY <1>1, <1>2 DEF ContactKept, Withdrawn
<1>3. CASE contacts # {}
  <2>1. "CONTACT" \notin Absent
    BY <1>3, DistributorsAssumption DEF Absent, Missing, MissingKyc
  <2> QED BY <1>1, <2>1 DEF Withdrawn
<1> QED BY <1>2, <1>3

LEMMA ProvidedStands ==
    ASSUME Provided, waived \subseteq Required \cup {"GSTIN", "CONTACT"},
           Absent' \subseteq Absent
    PROVE  /\ waived' \subseteq Required \cup {"GSTIN", "CONTACT"}
           /\ Absent \subseteq waived => Absent' \subseteq waived'
BY DEF Provided

LEMMA AttachKeeps ==
    ASSUME DInv, NEW d \in Documents, Attach(d)
    PROVE  DInv'
<1> USE DEF DInv, Attach
<1>1. PartnerTypeOK'
  BY DEF PartnerTypeOK, Verifications
<1>2. \A x \in Documents : kyc'[x] = "VERIFIED" <=> kyc[x] = "VERIFIED"
  BY DEF PartnerTypeOK
<1>3. Missing' = Missing /\ Absent' = Absent
  <2>1. MissingKyc' = MissingKyc
    BY <1>2 DEF MissingKyc, Documents
  <2> QED BY <2>1 DEF Absent, Missing
<1>4. ApprovedFirst' /\ ApprovalKept' /\ StaleAreAsking' /\ TerminatedIsFinal'
  BY DEF ApprovedFirst, ApprovalKept, StaleAreAsking, TerminatedIsFinal
<1>5. ASSUME ~overtaken' PROVE ChecksStand' /\ EvidenceStands' /\ ContactKept'
  <2>1. \A r : StillMay(r) => StillMay(r)'
    BY <1>2, <1>3 DEF StillMay, IsActive
  <2>2. ContactKept'
    BY <1>5 DEF ContactKept
  <2> QED BY <1>3, <1>5, <2>1, <2>2 DEF ChecksStand, EvidenceStands
<1> QED BY <1>1, <1>4, <1>5

LEMMA ReviewKeeps ==
    ASSUME DInv, NEW d \in Documents, NEW approved \in BOOLEAN, Review(d, approved)
    PROVE  DInv'
<1> USE DEF DInv, Review
<1>1. PartnerTypeOK'
  BY WithdrawnStands DEF PartnerTypeOK, Verifications, Overtakes
<1>2. ApprovedFirst' /\ ApprovalKept' /\ TerminatedIsFinal'
  BY DEF ApprovedFirst, ApprovalKept, TerminatedIsFinal
<1>3. ChecksStand' /\ StaleAreAsking'
  BY <1>1, OvertakenChecks DEF PartnerTypeOK
<1>4. ASSUME ~overtaken' PROVE EvidenceStands' /\ ContactKept'
  <2>1. EvidenceStands'
    BY <1>4, WithdrawnStands DEF EvidenceStands, PartnerTypeOK
  <2>2. ContactKept'
    BY <1>4, WithdrawnContact
  <2> QED BY <2>1, <2>2
<1> QED BY <1>1, <1>2, <1>3, <1>4

LEMMA SetGstinKeeps ==
    ASSUME DInv, NEW given \in BOOLEAN, SetGstin(given)
    PROVE  DInv'
<1> USE DEF DInv, SetGstin
<1>1. PartnerTypeOK'
  BY WithdrawnStands DEF PartnerTypeOK, Overtakes
<1>2. ApprovedFirst' /\ ApprovalKept' /\ TerminatedIsFinal'
  BY DEF ApprovedFirst, ApprovalKept, TerminatedIsFinal, PartnerTypeOK
<1>3. ChecksStand' /\ StaleAreAsking'
  BY <1>1, OvertakenChecks DEF PartnerTypeOK
<1>4. ASSUME ~overtaken' PROVE EvidenceStands' /\ ContactKept'
  <2>1. EvidenceStands'
    BY <1>4, WithdrawnStands DEF EvidenceStands, PartnerTypeOK
  <2>2. ContactKept'
    BY <1>4, WithdrawnContact
  <2> QED BY <2>1, <2>2
<1> QED BY <1>1, <1>2, <1>3, <1>4

LEMMA AddContactKeeps ==
    ASSUME DInv, NEW c \in Contacts, AddContact(c)
    PROVE  DInv'
<1> USE DEF DInv, AddContact
<1>1. Missing' \subseteq Missing /\ Absent' \subseteq Absent
  BY DEF Absent, Missing, MissingKyc
<1>2. PartnerTypeOK'
  BY <1>1, ProvidedStands DEF PartnerTypeOK
<1>3. ApprovedFirst' /\ ApprovalKept' /\ StaleAreAsking' /\ TerminatedIsFinal'
  BY DEF ApprovedFirst, ApprovalKept, StaleAreAsking, TerminatedIsFinal
<1>4. ASSUME ~overtaken' PROVE ChecksStand' /\ EvidenceStands' /\ ContactKept'
  <2>1. \A r : StillMay(r) => StillMay(r)'
    BY <1>1 DEF StillMay, IsActive
  <2>2. ContactKept'
    BY DEF ContactKept
  <2> QED BY <1>1, <1>4, <2>1, <2>2, ProvidedStands DEF ChecksStand, EvidenceStands, PartnerTypeOK
<1> QED BY <1>2, <1>3, <1>4

LEMMA RemoveKeeps ==
    ASSUME DInv, NEW o \in Officers, RemoveKyc(o)
    PROVE  DInv'
<1> DEFINE it == asked[o].of
<1> USE DEF DInv
<1>1. /\ asked[o] # Nothing
      /\ asked[o].act = "REMOVE"
      /\ kyc' = [d \in Documents |-> IF d = it THEN "NONE" ELSE kyc[d]]
      /\ contacts' = contacts \ {it}
      /\ IF IsActive THEN Provided ELSE Withdrawn
      /\ asked' = [asked EXCEPT ![o] = Nothing]
      /\ overtaken' = (overtaken \/ o \in stale)
      /\ Overtakes
      /\ UNCHANGED <<partner, onFile, ended>>
  BY DEF RemoveKyc, Answers, Asking
<1>2. it \in Documents \cup Contacts
  BY <1>1 DEF PartnerTypeOK, Asked, Acts, LeadsTo
<1>3. waived' \subseteq Required \cup {"GSTIN", "CONTACT"}
  BY <1>1, WithdrawnStands DEF Provided, PartnerTypeOK
<1>4. PartnerTypeOK'
  BY <1>1, <1>3 DEF PartnerTypeOK, Verifications, Overtakes
<1>5. ApprovedFirst' /\ ApprovalKept'
  BY <1>1 DEF ApprovedFirst, ApprovalKept, PartnerTypeOK
<1>6. ChecksStand' /\ StaleAreAsking'
  BY <1>1, <1>4, OvertakenChecks DEF PartnerTypeOK
<1>7. TerminatedIsFinal'
  BY <1>1 DEF TerminatedIsFinal, PartnerTypeOK
<1>8. ASSUME ~overtaken', IsActive PROVE EvidenceStands' /\ ContactKept'
  <2>1. StillMay(asked[o])
    BY <1>1, <1>8 DEF ChecksStand, PartnerTypeOK
  <2>2. /\ it \in Documents => kyc[it] # "VERIFIED"
        /\ it \in Contacts => contacts \ {it} # {}
    BY <1>1, <1>8, <2>1 DEF StillMay
  <2>3. \A d \in Documents : kyc[d] = "VERIFIED" => kyc'[d] = "VERIFIED"
    BY <1>1, <2>2
  <2>4. MissingKyc' \subseteq MissingKyc
    BY <2>3 DEF MissingKyc, Documents
  <2>5. contacts' = {} => contacts = {}
    BY <1>1, <1>2, <2>2, DistributorsAssumption DEF Documents, PartnerTypeOK
  <2>6. Absent' \subseteq Absent
    BY <1>1, <2>4, <2>5 DEF Absent, Missing
  <2>7. ContactKept'
    BY <1>1, <1>8, <2>5, <2>6 DEF ContactKept, Provided, Absent
  <2> QED BY <1>1, <1>8, <2>6, <2>7, ProvidedStands DEF EvidenceStands, IsActive, PartnerTypeOK
<1>9. ASSUME ~overtaken', ~IsActive PROVE EvidenceStands' /\ ContactKept'
  <2>1. EvidenceStands'
    BY <1>1, <1>9, WithdrawnStands DEF EvidenceStands, IsActive, PartnerTypeOK
  <2>2. ContactKept'
    BY <1>1, <1>9, WithdrawnContact
  <2> QED BY <2>1, <2>2
<1> QED BY <1>4, <1>5, <1>6, <1>7, <1>8, <1>9

LEMMA StutterKeeps == DInv /\ UNCHANGED partnerVars => DInv'
<1> SUFFICES ASSUME DInv, UNCHANGED partnerVars PROVE DInv'
  OBVIOUS
<1>1. Missing' = Missing /\ Absent' = Absent
  BY SameEvidence DEF partnerVars
<1>2. \A r : StillMay(r)' <=> StillMay(r)
  BY <1>1 DEF StillMay, IsActive, partnerVars
<1> QED
  BY <1>1, <1>2
     DEF DInv, partnerVars, PartnerTypeOK, ApprovedFirst, ApprovalKept, StaleAreAsking,
         ChecksStand, EvidenceStands, ContactKept, TerminatedIsFinal

LEMMA StepKeepsDInv == DInv /\ [PartnerNext]_partnerVars => DInv'
<1> SUFFICES ASSUME DInv, [PartnerNext]_partnerVars PROVE DInv'
  OBVIOUS
<1>1. ASSUME NEW o \in Officers, OfficerStep(o) PROVE DInv'
  BY <1>1, AskKeeps, TransitionKeeps, AskRemovalKeeps, RemoveKeeps, AbandonKeeps
     DEF OfficerStep
<1>2. CASE UNCHANGED partnerVars
  BY <1>2, StutterKeeps
<1> QED
  BY <1>1, <1>2, AttachKeeps, ReviewKeeps, SetGstinKeeps, AddContactKeeps DEF PartnerNext

(* No distributor reaches ACTIVE but by an approval; an active one has the *)
(* evidence approve() asked for but for what was withdrawn since, and for  *)
(* a contact removed where nothing forbids it; and a terminated one stays  *)
(* terminated, however many officers, documents and contacts there are.    *)
THEOREM OnboardingIsSound == PartnerSpec => []OnboardingHolds
<1>1. DInv => OnboardingHolds
  BY DEF DInv, OnboardingHolds, ActiveOnEvidence, EvidenceStands, IsActive
<1> QED BY <1>1, InitDInv, StepKeepsDInv, PTL DEF PartnerSpec

(***************************************************************************)
(* Links.  Errands that may get in each other's way are noted when the     *)
(* later one begins; what an errand counts on stands until it is.          *)
(***************************************************************************)
(* What has not been used or closed has not been spent.                    *)
Unspent == \A l \in Links : link[l].state \in {"NONE", "OPEN"} => spent[l] = 0

(* Two errands that meet are noted.                                        *)
Noted(e, f) ==
    /\ Asks(e) /\ Asks(f) /\ KindAsked(e) = KindAsked(f) => KindAsked(e) \in overlapped
    /\ Redeems(e) /\ Redeems(f) /\ e.link = f.link => e.link \in overlapped
    /\ Redeems(e) /\ Asks(f) /\ link[e.link].kind = KindAsked(f) => e.link \in overlapped
    /\ {e.kind, f.kind} \subseteq {"ACCEPT", "SUSPEND"} => "STATUS" \in overlapped

(* What an errand counts on while nobody meets it.                         *)
CountsOn(e) ==
    /\ Redeems(e) => /\ link[e.link].state # "NONE"
                     /\ e.link \notin overlapped => spent[e.link] = 0
    /\ Asks(e) /\ e.scanned =>
           /\ \A l \in e.found : link[l].state # "NONE" /\ link[l].kind = KindAsked(e)
           /\ KindAsked(e) \notin overlapped =>
                  \A l \in Links : Open(l) /\ link[l].kind = KindAsked(e) => l \in e.found
    /\ e.kind = "ACCEPT" /\ "STATUS" \notin overlapped => accepted = 0 /\ ~barred

LInv ==
    /\ LinksHold
    /\ Unspent
    /\ \A c, d \in Callers : c # d /\ OnErrand(c) /\ OnErrand(d) => Noted(errand[c], errand[d])
    /\ \A c \in Callers : OnErrand(c) => CountsOn(errand[c])
    /\ accepted > 0 => person.status # "INVITED"

Errands == AskErrand \cup RedeemErrand \cup DecideErrand

LEMMA ErrandKinds ==
    ASSUME NEW e \in Errands
    PROVE  /\ e.kind \in {"RESEND", "ASK_RESET", "ACCEPT", "RESET", "VERIFY",
                          "SUSPEND", "REACTIVATE", "REMOVE"}
           /\ Asks(e) => e \in AskErrand
           /\ Redeems(e) => e.link \in Links
BY DEF Errands, AskErrand, RedeemErrand, DecideErrand, Asks, Redeems

LEMMA InitLInv == LinkInit => LInv
<1> SUFFICES ASSUME LinkInit PROVE LInv
  OBVIOUS
<1>1. /\ person \in Person /\ (person.status = "ACTIVE" => person.password)
      /\ link \in [Links -> Link]
      /\ \A l, m \in Links : Open(l) /\ Open(m) => l = m
  <2>1. CASE Seeded
    BY <2>1 DEF Seeded, Person, Link, LinkKinds, Unmade, Open
  <2>2. CASE Invited
    <3>1. PICK first \in Links :
              link = [l \in Links |-> IF l = first THEN [Unmade EXCEPT !.state = "OPEN"] ELSE Unmade]
      BY <2>2 DEF Invited
    <3>2. link \in [Links -> Link] /\ \A l \in Links \ {first} : link[l].state = "NONE"
      BY <3>1 DEF Link, LinkKinds, Unmade
    <3> QED
      BY <2>2, <3>2 DEF Invited, Person, Open
  <2> QED
    BY <2>1, <2>2 DEF LinkInit
<1>2. LinkTypeOK
  BY <1>1 DEF LinkInit, LinkTypeOK
<1>3. OneOpenLink
  BY <1>1 DEF OneOpenLink
<1>4. \A c \in Callers : ~OnErrand(c)
  BY DEF LinkInit, OnErrand
<1>5. SpentOnce /\ StatusStands /\ ActiveChosePassword
  BY <1>1 DEF LinkInit, SpentOnce, StatusStands, ActiveChosePassword
<1> QED
  BY <1>2, <1>3, <1>4, <1>5 DEF LInv, LinksHold, Unspent, LinkInit

(* An errand that begins is noted with everyone it meets.                  *)
LEMMA UndertakeKeeps ==
    ASSUME LInv, NEW c \in Callers, NEW e \in Errands, Undertake(c, e), CountsOn(e)
    PROVE  LInv'
<1>1. /\ errand' = [errand EXCEPT ![c] = e] /\ errand'[c] = e /\ ~OnErrand(c)
      /\ \A d \in Callers \ {c} : errand'[d] = errand[d]
      /\ UNCHANGED <<person, link, spent, accepted, barred>>
  BY DEF Undertake, LInv, LinksHold, LinkTypeOK
<1>2. \A d \in Callers : OnErrand(d) =>
          Topics(e) \cap Topics(errand[d]) \subseteq overlapped'
  BY DEF Undertake
<1>3. overlapped \subseteq overlapped'
  BY DEF Undertake
<1>4. LinkTypeOK'
  <2>1. ASSUME NEW f \in Errands PROVE Topics(f) \subseteq LinkKinds \cup Links \cup {"STATUS"}
    BY ErrandKinds DEF Topics, KindAsked, LinkKinds
  <2>2. overlapped' \subseteq LinkKinds \cup Links \cup {"STATUS"}
    BY <2>1 DEF Undertake, LInv, LinksHold, LinkTypeOK
  <2>3. errand' \in [Callers -> Errands \cup {NoErrand}]
    BY <1>1 DEF LInv, LinksHold, LinkTypeOK, Errands
  <2> QED
    BY <1>1, <2>2, <2>3 DEF LInv, LinksHold, LinkTypeOK, Errands
<1>5. LinksHold' /\ Unspent' /\ (accepted > 0 => person.status # "INVITED")'
  BY <1>1, <1>3, <1>4 DEF LInv, LinksHold, OneOpenLink, SpentOnce, StatusStands,
     ActiveChosePassword, Unspent, Open
<1>6. ASSUME NEW f, CountsOn(f) PROVE CountsOn(f)'
  BY <1>1, <1>3, <1>6 DEF CountsOn, Open
<1>7. ASSUME NEW d \in Callers, OnErrand(d)' PROVE CountsOn(errand[d])'
  <2>1. PICK f : f = errand'[d]
    OBVIOUS
  <2>2. CountsOn(f)
    BY <1>1, <1>7, <2>1 DEF LInv, OnErrand
  <2>3. CountsOn(f)'
    BY <1>6, <2>2
  <2> QED
    BY <2>1, <2>3 DEF CountsOn
<1>8. ASSUME NEW d \in Callers \ {c}, OnErrand(d), NEW f, f = errand[d]
      PROVE  Noted(e, f)' /\ Noted(f, e)'
  <2>1. f \in Errands /\ CountsOn(f) /\ Topics(e) \cap Topics(f) \subseteq overlapped'
    BY <1>2, <1>8 DEF LInv, LinksHold, LinkTypeOK, Errands, OnErrand
  <2>2. Asks(e) /\ Asks(f) /\ KindAsked(e) = KindAsked(f) => KindAsked(e) \in overlapped'
    BY <2>1 DEF Topics
  <2>3. Redeems(e) /\ Redeems(f) /\ e.link = f.link => e.link \in overlapped'
    BY <2>1 DEF Topics
  <2>4. Redeems(e) /\ Asks(f) /\ link[e.link].kind = KindAsked(f) => e.link \in overlapped'
    BY <2>1, ErrandKinds DEF Topics, CountsOn
  <2>5. Redeems(f) /\ Asks(e) /\ link[f.link].kind = KindAsked(e) => f.link \in overlapped'
    BY <2>1, ErrandKinds DEF Topics, CountsOn
  <2>6. {e.kind, f.kind} \subseteq {"ACCEPT", "SUSPEND"} => "STATUS" \in overlapped'
    BY <2>1 DEF Topics
  <2> QED
    BY <1>1, <2>2, <2>3, <2>4, <2>5, <2>6 DEF Noted
<1>9. ASSUME NEW d \in Callers, NEW x \in Callers, d # x, OnErrand(d)', OnErrand(x)'
      PROVE  Noted(errand[d], errand[x])'
  <2>1. PICK f : f = errand'[d]
    OBVIOUS
  <2>2. PICK g : g = errand'[x]
    OBVIOUS
  <2>3. CASE d # c /\ x # c
    <3>1. Noted(f, g)
      BY <1>1, <1>9, <2>1, <2>2, <2>3 DEF LInv, OnErrand
    <3>2. Noted(f, g)'
      BY <1>1, <1>3, <3>1 DEF Noted
    <3> QED
      BY <2>1, <2>2, <3>2 DEF Noted
  <2>4. CASE d = c
    <3>1. Noted(f, g)'
      BY <1>1, <1>8, <1>9, <2>1, <2>2, <2>4 DEF OnErrand
    <3> QED
      BY <2>1, <2>2, <3>1 DEF Noted
  <2>5. CASE x = c
    <3>1. Noted(f, g)'
      BY <1>1, <1>8, <1>9, <2>1, <2>2, <2>5 DEF OnErrand
    <3> QED
      BY <2>1, <2>2, <3>1 DEF Noted
  <2> QED
    BY <2>3, <2>4, <2>5
<1> QED
  BY <1>5, <1>7, <1>9 DEF LInv

(* Who has ended meets nobody, and the others are noted as they were.      *)
LEMMA EndsKeepsNotes ==
    ASSUME LInv, NEW c \in Callers, Ends(c),
           \A l \in Links : link[l].state # "NONE" => link'[l].kind = link[l].kind
    PROVE  /\ errand' \in [Callers -> Errands \cup {NoErrand}]
           /\ \A d \in Callers : OnErrand(d)' =>
                  d # c /\ OnErrand(d) /\ errand'[d] = errand[d] /\ errand[d] \in Errands
           /\ \A d, x \in Callers : d # x /\ OnErrand(d)' /\ OnErrand(x)' =>
                  Noted(errand[d], errand[x])'
<1>1. errand \in [Callers -> Errands \cup {NoErrand}] /\ UNCHANGED overlapped
      /\ errand' = [errand EXCEPT ![c] = NoErrand]
  BY DEF LInv, LinksHold, LinkTypeOK, Errands, Ends
<1>2. \A d \in Callers : OnErrand(d)' =>
          d # c /\ OnErrand(d) /\ errand'[d] = errand[d] /\ errand[d] \in Errands
  BY <1>1 DEF OnErrand
<1>3. ASSUME NEW d \in Callers, NEW x \in Callers, d # x, OnErrand(d)', OnErrand(x)'
      PROVE  Noted(errand[d], errand[x])'
  <2>1. PICK e : e = errand[d] /\ e = errand'[d] /\ e \in Errands
    BY <1>2, <1>3
  <2>2. PICK f : f = errand[x] /\ f = errand'[x] /\ f \in Errands
    BY <1>2, <1>3
  <2>3. Noted(e, f) /\ CountsOn(e)
    BY <1>2, <1>3, <2>1, <2>2 DEF LInv
  <2>4. Redeems(e) => link'[e.link].kind = link[e.link].kind
    BY <2>1, <2>3, ErrandKinds DEF CountsOn
  <2>5. Noted(e, f)'
    BY <1>1, <2>3, <2>4 DEF Noted
  <2> QED
    BY <2>1, <2>2, <2>5 DEF Noted
<1> QED
  BY <1>1, <1>2, <1>3

(* So a step that ends an errand has four things left to keep.             *)
LEMMA EndingKeeps ==
    ASSUME LInv, NEW c \in Callers, Ends(c),
           \A l \in Links : link[l].state # "NONE" => link'[l].kind = link[l].kind,
           person' \in Person, link' \in [Links -> Link], spent' \in [Links -> Nat],
           accepted' \in Nat, barred' \in BOOLEAN,
           (OneOpenLink /\ SpentOnce /\ StatusStands /\ ActiveChosePassword)',
           Unspent', accepted' > 0 => person'.status # "INVITED",
           \A e \in Errands : CountsOn(e) /\ (Noted(errand[c], e) \/ ~OnErrand(c))
                                           /\ (Noted(e, errand[c]) \/ ~OnErrand(c)) => CountsOn(e)'
    PROVE  LInv'
<1>1. LinkTypeOK'
  BY EndsKeepsNotes DEF LinkTypeOK, LInv, LinksHold, Errands, Ends
<1>2. ASSUME NEW d \in Callers, OnErrand(d)' PROVE CountsOn(errand[d])'
  <2>1. PICK e \in Errands : e = errand[d] /\ e = errand'[d] /\ d # c /\ OnErrand(d)
    BY <1>2, EndsKeepsNotes
  <2>2. CountsOn(e) /\ (OnErrand(c) => Noted(errand[c], e) /\ Noted(e, errand[c]))
    BY <2>1 DEF LInv
  <2>3. CountsOn(e)'
    BY <2>2
  <2> QED
    BY <2>1, <2>3 DEF CountsOn
<1> QED
  BY <1>1, <1>2, EndsKeepsNotes DEF LInv, LinksHold

LEMMA BeginsKeeps == ASSUME LInv, NEW c \in Callers, Begins(c) PROVE LInv'
<1>1. ASSUME NEW kind \in {"RESEND", "ASK_RESET"}, AskForLink(c, kind) PROVE LInv'
  <2>1. PICK e : e = [kind |-> kind, scanned |-> FALSE, found |-> {}] /\ Undertake(c, e)
    BY <1>1 DEF AskForLink
  <2>2. e \in Errands /\ CountsOn(e)
    BY <2>1 DEF Errands, AskErrand, CountsOn, Redeems, Asks
  <2> QED
    BY <2>1, <2>2, UndertakeKeeps
<1>2. ASSUME NEW kind \in {"ACCEPT", "RESET", "VERIFY"}, NEW l \in Links, Redeem(c, kind, l)
      PROVE  LInv'
  <2>1. PICK e : e = [kind |-> kind, link |-> l] /\ Undertake(c, e)
    BY <1>2 DEF Redeem
  <2>2. link[l].state = "OPEN" /\ spent[l] = 0
    BY <1>2 DEF Redeem, MayRedeem, Open, LInv, Unspent
  <2>3. kind = "ACCEPT" /\ "STATUS" \notin overlapped => accepted = 0 /\ ~barred
    BY <1>2 DEF Redeem, LInv, LinksHold, LinkTypeOK, StatusStands
  <2>4. e \in Errands /\ CountsOn(e)
    BY <2>1, <2>2, <2>3 DEF Errands, RedeemErrand, CountsOn, Asks
  <2> QED
    BY <2>1, <2>4, UndertakeKeeps
<1>3. ASSUME NEW kind \in {"SUSPEND", "REACTIVATE", "REMOVE"}, Decide(c, kind) PROVE LInv'
  <2>1. PICK e : e = [kind |-> kind] /\ Undertake(c, e)
    BY <1>3 DEF Decide
  <2>2. e \in Errands /\ CountsOn(e)
    BY <2>1 DEF Errands, DecideErrand, CountsOn, Redeems, Asks
  <2> QED
    BY <2>1, <2>2, UndertakeKeeps
<1> QED
  BY <1>1, <1>2, <1>3 DEF Begins

LEMMA FindOpenKeeps == ASSUME LInv, NEW c \in Callers, FindOpen(c) PROVE LInv'
<1>1. PICK e : e = errand[c] /\ e \in AskErrand
  BY ErrandKinds DEF FindOpen, LInv, LinksHold, LinkTypeOK, OnErrand, Errands
<1>2. PICK g : g = [e EXCEPT !.scanned = TRUE,
                             !.found = {l \in Links : Open(l) /\ link[l].kind = KindAsked(e)}]
  OBVIOUS
<1>3. /\ errand' = [errand EXCEPT ![c] = g] /\ Asks(e) /\ OnErrand(c)
      /\ UNCHANGED <<person, link, spent, accepted, barred, overlapped>>
  BY <1>1, <1>2 DEF FindOpen
<1>4. g \in AskErrand /\ g.kind = e.kind /\ Asks(g) /\ ~Redeems(g) /\ g.kind # "ACCEPT"
      /\ KindAsked(g) = KindAsked(e) /\ ~Redeems(e)
      /\ g.found = {l \in Links : Open(l) /\ link[l].kind = KindAsked(e)}
  BY <1>1, <1>2, <1>3 DEF AskErrand, Asks, Redeems, KindAsked
<1>5. LinksHold' /\ Unspent' /\ (accepted > 0 => person.status # "INVITED")'
  BY <1>3, <1>4 DEF LInv, LinksHold, LinkTypeOK, OneOpenLink, SpentOnce, StatusStands,
     ActiveChosePassword, Unspent, Open
<1>6. /\ errand'[c] = g
      /\ \A d \in Callers \ {c} : errand'[d] = errand[d]
  BY <1>3 DEF LInv, LinksHold, LinkTypeOK
<1>7. CountsOn(g)'
  BY <1>3, <1>4 DEF CountsOn, Open
<1>8. ASSUME NEW d \in Callers, OnErrand(d)' PROVE CountsOn(errand[d])'
  <2>1. CASE d = c
    BY <1>6, <1>7, <2>1 DEF CountsOn
  <2>2. CASE d # c
    <3>1. PICK f : f = errand[d] /\ f = errand'[d]
      BY <1>6, <2>2
    <3>2. CountsOn(f)
      BY <1>8, <3>1 DEF LInv, OnErrand
    <3>3. CountsOn(f)'
      BY <1>3, <3>2 DEF CountsOn, Open
    <3> QED
      BY <3>1, <3>3 DEF CountsOn
  <2> QED
    BY <2>1, <2>2
<1>9. ASSUME NEW d \in Callers, NEW x \in Callers, d # x, OnErrand(d)', OnErrand(x)'
      PROVE  Noted(errand[d], errand[x])'
  <2>1. PICK f : f = errand[d]
    OBVIOUS
  <2>2. PICK h : h = errand[x]
    OBVIOUS
  <2>3. Noted(f, h)
    BY <1>3, <1>6, <1>9, <2>1, <2>2 DEF LInv, OnErrand
  <2>4. CASE d = c
    <3>1. Noted(g, h)'
      BY <1>1, <1>3, <1>4, <2>1, <2>3, <2>4 DEF Noted
    <3> QED
      BY <1>6, <1>9, <2>2, <2>4, <3>1 DEF Noted
  <2>5. CASE x = c
    <3>1. Noted(f, g)'
      BY <1>1, <1>3, <1>4, <2>2, <2>3, <2>5 DEF Noted
    <3> QED
      BY <1>6, <1>9, <2>1, <2>5, <3>1 DEF Noted
  <2>6. CASE d # c /\ x # c
    <3>1. Noted(f, h)'
      BY <1>3, <2>3 DEF Noted
    <3> QED
      BY <1>6, <2>1, <2>2, <2>6, <3>1 DEF Noted
  <2> QED
    BY <2>4, <2>5, <2>6
<1> QED
  BY <1>5, <1>8, <1>9 DEF LInv

LEMMA IssueKeeps == ASSUME LInv, NEW c \in Callers, NEW new \in Links, Issue(c, new) PROVE LInv'
<1>1. PICK e : /\ e = errand[c] /\ e \in AskErrand /\ OnErrand(c) /\ Asks(e) /\ e.scanned
               /\ CountsOn(e)
  BY ErrandKinds DEF Issue, LInv, LinksHold, LinkTypeOK, OnErrand, Errands
<1>2. KindAsked(e) \in LinkKinds /\ Closed(e) \subseteq Links /\ new \notin Closed(e)
      /\ link[new].state = "NONE"
      /\ \A l \in Closed(e) : Open(l) /\ link[l].kind = KindAsked(e) /\ spent[l] = 0
  BY <1>1 DEF KindAsked, LinkKinds, Closed, AskErrand, Issue, Open, CountsOn, LInv, Unspent
<1>3. /\ link' = [l \in Links |->
               IF l = new THEN [kind |-> KindAsked(e), state |-> "OPEN", expired |-> FALSE]
               ELSE IF l \in Closed(e) THEN [link[l] EXCEPT !.state = "USED"] ELSE link[l]]
      /\ spent' = [l \in Links |-> IF l \in Closed(e) THEN spent[l] + 1 ELSE spent[l]]
      /\ Ends(c) /\ UNCHANGED <<person, accepted, barred, overlapped>>
  BY <1>1 DEF Issue, Ends
<1>4. link \in [Links -> Link] /\ spent \in [Links -> Nat] /\ person \in Person
      /\ accepted \in Nat /\ barred \in BOOLEAN
  BY DEF LInv, LinksHold, LinkTypeOK
<1>5. link' \in [Links -> Link] /\ spent' \in [Links -> Nat]
  BY <1>2, <1>3, <1>4 DEF Link
<1>6. \A l \in Links \ {new} : link'[l].kind = link[l].kind
                              /\ (link'[l].state = link[l].state \/ link'[l].state = "USED")
  BY <1>3, <1>4 DEF Link
<1>7. /\ link'[new] = [kind |-> KindAsked(e), state |-> "OPEN", expired |-> FALSE]
      /\ \A l \in Closed(e) : link'[l].state = "USED" /\ spent'[l] = 1
      /\ \A l \in Links \ Closed(e) : spent'[l] = spent[l]
  BY <1>2, <1>3, <1>4 DEF Link
<1>8. OneOpenLink'
  <2>1. ASSUME NEW l \in Links \ {new}, Open(l)', link'[l].kind = KindAsked(e)
        PROVE  KindAsked(e) \in overlapped
    BY <1>1, <1>6, <1>7, <2>1 DEF Open, Closed, CountsOn
  <2>2. ASSUME NEW l \in Links \ {new}, Open(l)' PROVE Open(l)
    BY <1>6, <2>2 DEF Open
  <2> QED
    BY <1>3, <1>6, <1>7, <2>1, <2>2 DEF OneOpenLink, LInv, LinksHold
<1>9. SpentOnce' /\ Unspent'
  BY <1>2, <1>3, <1>4, <1>6, <1>7 DEF SpentOnce, Unspent, LInv, LinksHold
<1>10. (StatusStands /\ ActiveChosePassword)' /\ (accepted' > 0 => person'.status # "INVITED")
  BY <1>3 DEF StatusStands, ActiveChosePassword, LInv, LinksHold
<1>11. ASSUME NEW f \in Errands, CountsOn(f), Noted(e, f), Noted(f, e) PROVE CountsOn(f)'
  <2>1. Redeems(f) => /\ link'[f.link].state # "NONE"
                      /\ f.link \notin overlapped' => spent'[f.link] = 0
    BY <1>1, <1>2, <1>3, <1>6, <1>7, <1>11, ErrandKinds DEF CountsOn, Noted
  <2>2. Asks(f) /\ f.scanned =>
           /\ \A l \in f.found : link'[l].state # "NONE" /\ link'[l].kind = KindAsked(f)
           /\ KindAsked(f) \notin overlapped' =>
                  \A l \in Links : Open(l)' /\ link'[l].kind = KindAsked(f) => l \in f.found
    <3>1. Asks(f) => f.found \subseteq Links
      BY ErrandKinds DEF AskErrand
    <3>2. Asks(f) /\ KindAsked(f) = KindAsked(e) => KindAsked(f) \in overlapped
      BY <1>1, <1>11 DEF Noted
    <3> QED
      BY <1>2, <1>3, <1>6, <1>7, <1>11, <3>1, <3>2 DEF CountsOn, Open
  <2>3. f.kind = "ACCEPT" /\ "STATUS" \notin overlapped' => accepted' = 0 /\ ~barred'
    BY <1>3, <1>11 DEF CountsOn
  <2> QED
    BY <2>1, <2>2, <2>3 DEF CountsOn
<1>12. \A l \in Links : link[l].state # "NONE" => link'[l].kind = link[l].kind
  BY <1>2, <1>6
<1> QED
  BY <1>1, <1>3, <1>4, <1>5, <1>8, <1>9, <1>10, <1>11, <1>12, EndingKeeps

(* A link that is redeemed closes what was open and counts as spent once.  *)
LEMMA RedeemedKeeps ==
    ASSUME LInv, NEW c \in Callers, NEW kind \in {"ACCEPT", "RESET", "VERIFY"}, Redeemed(c, kind),
           person' \in Person, accepted' \in Nat, barred' \in BOOLEAN,
           (StatusStands /\ ActiveChosePassword)', accepted' > 0 => person'.status # "INVITED",
           "STATUS" \in overlapped \/ kind = "ACCEPT" \/ UNCHANGED <<accepted, barred>>
    PROVE  LInv'
<1>1. PICK e : /\ e = errand[c] /\ e \in Errands /\ OnErrand(c) /\ Redeems(e) /\ e.kind = kind
               /\ CountsOn(e) /\ e.link \in Links
  BY ErrandKinds DEF Redeemed, Redeems, LInv, LinksHold, LinkTypeOK, OnErrand, Errands
<1>2. PICK l \in Links : l = e.link
  BY <1>1
<1>3. /\ link' = [link EXCEPT ![l].state = "USED"] /\ spent' = [spent EXCEPT ![l] = @ + 1]
      /\ Ends(c) /\ UNCHANGED overlapped
  BY <1>1, <1>2 DEF Redeemed, Ends
<1>4. link \in [Links -> Link] /\ spent \in [Links -> Nat]
  BY DEF LInv, LinksHold, LinkTypeOK
<1>5. /\ link' \in [Links -> Link] /\ spent' \in [Links -> Nat]
      /\ \A m \in Links : link'[m].kind = link[m].kind
      /\ \A m \in Links \ {l} : link'[m] = link[m] /\ spent'[m] = spent[m]
      /\ link'[l].state = "USED" /\ spent'[l] = spent[l] + 1
  BY <1>3, <1>4 DEF Link
<1>6. \A m \in Links : Open(m)' => Open(m) /\ m # l
  BY <1>5 DEF Open
<1>7. OneOpenLink'
  BY <1>3, <1>5, <1>6 DEF OneOpenLink, LInv, LinksHold
<1>8. SpentOnce'
  BY <1>1, <1>2, <1>3, <1>4, <1>5 DEF SpentOnce, CountsOn, LInv, LinksHold
<1>9. Unspent'
  BY <1>5 DEF Unspent, LInv
<1>10. ASSUME NEW f \in Errands, CountsOn(f), Noted(e, f) PROVE CountsOn(f)'
  <2>1. Redeems(f) => /\ link'[f.link].state # "NONE"
                      /\ f.link \notin overlapped' => spent'[f.link] = 0
    BY <1>1, <1>2, <1>3, <1>5, <1>10, ErrandKinds DEF CountsOn, Noted
  <2>2. Asks(f) /\ f.scanned =>
           /\ \A m \in f.found : link'[m].state # "NONE" /\ link'[m].kind = KindAsked(f)
           /\ KindAsked(f) \notin overlapped' =>
                  \A m \in Links : Open(m)' /\ link'[m].kind = KindAsked(f) => m \in f.found
    <3>1. Asks(f) => f.found \subseteq Links
      BY ErrandKinds DEF AskErrand
    <3> QED
      BY <1>3, <1>5, <1>6, <1>10, <3>1 DEF CountsOn
  <2>3. f.kind = "ACCEPT" /\ "STATUS" \notin overlapped' => accepted' = 0 /\ ~barred'
    BY <1>1, <1>3, <1>10 DEF CountsOn, Noted
  <2> QED
    BY <2>1, <2>2, <2>3 DEF CountsOn
<1>11. \A m \in Links : link[m].state # "NONE" => link'[m].kind = link[m].kind
  BY <1>5
<1> QED
  BY <1>1, <1>3, <1>5, <1>7, <1>8, <1>9, <1>10, <1>11, EndingKeeps

LEMMA RedemptionsKeep ==
    ASSUME LInv, NEW c \in Callers, Accept(c) \/ ResetPassword(c) \/ VerifyEmail(c)
    PROVE  LInv'
<1>1. person \in Person /\ accepted \in Nat /\ barred \in BOOLEAN
      /\ errand \in [Callers -> Errands \cup {NoErrand}]
      /\ StatusStands /\ ActiveChosePassword /\ (accepted > 0 => person.status # "INVITED")
  BY DEF LInv, LinksHold, LinkTypeOK, Errands
<1>2. CASE Accept(c)
  <2>1. CountsOn(errand[c]) /\ errand[c].kind = "ACCEPT" /\ UNCHANGED overlapped
    BY <1>2 DEF Accept, Redeemed, LInv, Ends
  <2>2. person' = [person EXCEPT !.status = "ACTIVE", !.password = TRUE]
        /\ accepted' = accepted + 1 /\ UNCHANGED barred /\ Redeemed(c, "ACCEPT")
    BY <1>2 DEF Accept
  <2>3. person' \in Person /\ person'.status = "ACTIVE" /\ person'.password
    BY <1>1, <2>2 DEF Person
  <2>4. (StatusStands /\ ActiveChosePassword)'
    BY <1>1, <2>1, <2>2, <2>3 DEF StatusStands, ActiveChosePassword, CountsOn
  <2> QED
    BY <1>1, <2>2, <2>3, <2>4, RedeemedKeeps
<1>3. CASE ResetPassword(c)
  <2>1. person' = [person EXCEPT !.password = TRUE] /\ UNCHANGED <<accepted, barred>>
        /\ Redeemed(c, "RESET") /\ UNCHANGED overlapped
    BY <1>3 DEF ResetPassword, Redeemed, Ends
  <2>2. person' \in Person /\ person'.status = person.status /\ person'.password
    BY <1>1, <2>1 DEF Person
  <2>3. (StatusStands /\ ActiveChosePassword)'
    BY <1>1, <2>1, <2>2 DEF StatusStands, ActiveChosePassword
  <2> QED
    BY <1>1, <2>1, <2>2, <2>3, RedeemedKeeps
<1>4. CASE VerifyEmail(c)
  <2>1. UNCHANGED <<person, accepted, barred, overlapped>> /\ Redeemed(c, "VERIFY")
    BY <1>4 DEF VerifyEmail, Redeemed, Ends
  <2>2. (StatusStands /\ ActiveChosePassword)'
    BY <1>1, <2>1 DEF StatusStands, ActiveChosePassword
  <2> QED
    BY <1>1, <2>1, <2>2, RedeemedKeeps
<1> QED
  BY <1>2, <1>3, <1>4

LEMMA DecisionsKeep ==
    ASSUME LInv, NEW c \in Callers,
           SuspendUser(c) \/ ReactivateUser(c) \/ RemoveUser(c) \/ GiveUpErrand(c)
    PROVE  LInv'
<1>1. person \in Person /\ accepted \in Nat /\ barred \in BOOLEAN
      /\ link \in [Links -> Link] /\ spent \in [Links -> Nat]
      /\ StatusStands /\ ActiveChosePassword /\ (accepted > 0 => person.status # "INVITED")
      /\ OneOpenLink /\ SpentOnce /\ Unspent
  BY DEF LInv, LinksHold, LinkTypeOK
<1>2. UNCHANGED <<link, spent, accepted, overlapped>> /\ Ends(c) /\ OnErrand(c)
  BY DEF SuspendUser, ReactivateUser, RemoveUser, GiveUpErrand, Decided, Ends
<1>3. (OneOpenLink /\ SpentOnce /\ Unspent)'
  BY <1>1, <1>2 DEF OneOpenLink, SpentOnce, Unspent, Open
<1>4. \/ person' = person /\ barred' = barred
      \/ /\ person' = [person EXCEPT !.status = "SUSPENDED"]
         /\ errand[c].kind = "SUSPEND" /\ barred' = TRUE
      \/ person' = [person EXCEPT !.status = "ACTIVE", !.hastened = @ \/ ~person.password] /\ barred' = FALSE
      \/ person' = [person EXCEPT !.removed = TRUE] /\ barred' = barred
  BY DEF SuspendUser, ReactivateUser, RemoveUser, GiveUpErrand, Decided
<1>5. /\ person' \in Person /\ barred' \in BOOLEAN
      /\ (StatusStands /\ ActiveChosePassword)'
      /\ accepted' > 0 => person'.status # "INVITED"
  <2>1. CASE person' = person /\ barred' = barred
    BY <1>1, <1>2, <2>1 DEF StatusStands, ActiveChosePassword
  <2>2. CASE person' = [person EXCEPT !.status = "SUSPENDED"] /\ barred' = TRUE
    BY <1>1, <1>2, <2>2 DEF Person, StatusStands, ActiveChosePassword
  <2>3. CASE /\ person' = [person EXCEPT !.status = "ACTIVE", !.hastened = @ \/ ~person.password]
             /\ barred' = FALSE
    <3>1. /\ person'.status = "ACTIVE" /\ person' \in Person
          /\ person'.password \/ person'.hastened
      BY <1>1, <2>3 DEF Person
    <3> QED
      BY <1>1, <1>2, <2>3, <3>1 DEF StatusStands, ActiveChosePassword
  <2>4. CASE person' = [person EXCEPT !.removed = TRUE] /\ barred' = barred
    BY <1>1, <1>2, <2>4 DEF Person, StatusStands, ActiveChosePassword
  <2> QED
    BY <1>4, <2>1, <2>2, <2>3, <2>4
<1>6. ASSUME NEW f \in Errands, CountsOn(f), Noted(errand[c], f) PROVE CountsOn(f)'
  BY <1>1, <1>2, <1>4, <1>6 DEF CountsOn, Noted, Open
<1> QED
  BY <1>1, <1>2, <1>3, <1>5, <1>6, EndingKeeps

LEMMA TimeKeeps == ASSUME LInv, NEW l \in Links, Lapse(l) \/ PurgeLink(l) PROVE LInv'
<1>1. link \in [Links -> Link] /\ spent \in [Links -> Nat]
      /\ link[l].state = "OPEN"
      /\ UNCHANGED <<person, errand, spent, accepted, barred, overlapped>>
  BY DEF LInv, LinksHold, LinkTypeOK, Lapse, PurgeLink, Open
<1>2. link' = [link EXCEPT ![l].expired = TRUE] \/ link' = [link EXCEPT ![l].state = "PURGED"]
  BY DEF Lapse, PurgeLink
<1>3. /\ link' \in [Links -> Link]
      /\ \A m \in Links : /\ link'[m].kind = link[m].kind
                          /\ link'[m].state \in {link[m].state, "PURGED"}
                          /\ link[m].state # "NONE" => link'[m].state # "NONE"
  <2>1. CASE link' = [link EXCEPT ![l].expired = TRUE]
    BY <1>1, <2>1 DEF Link
  <2>2. CASE link' = [link EXCEPT ![l].state = "PURGED"]
    BY <1>1, <2>2 DEF Link
  <2> QED
    BY <1>2, <2>1, <2>2
<1>4. LinksHold' /\ Unspent' /\ (accepted > 0 => person.status # "INVITED")'
  BY <1>1, <1>3 DEF LInv, LinksHold, LinkTypeOK, OneOpenLink, SpentOnce, StatusStands,
     ActiveChosePassword, Unspent, Open
<1>5. ASSUME NEW e \in Errands, CountsOn(e) PROVE CountsOn(e)'
  <2>1. (Asks(e) => e.found \subseteq Links) /\ (Redeems(e) => e.link \in Links)
    BY ErrandKinds DEF AskErrand
  <2> QED
    BY <1>1, <1>3, <1>5, <2>1 DEF CountsOn, Open
<1>6. ASSUME NEW e \in Errands, NEW f \in Errands, Noted(e, f), CountsOn(e) PROVE Noted(e, f)'
  BY <1>1, <1>3, <1>6, ErrandKinds DEF Noted
<1>7. \A c \in Callers : OnErrand(c)' => OnErrand(c) /\ errand'[c] = errand[c] /\ errand[c] \in Errands
  BY <1>1 DEF OnErrand, LInv, LinksHold, LinkTypeOK, Errands
<1>8. ASSUME NEW c \in Callers, OnErrand(c)' PROVE CountsOn(errand[c])'
  <2>1. PICK e \in Errands : e = errand[c] /\ e = errand'[c] /\ CountsOn(e)
    BY <1>7, <1>8 DEF LInv
  <2>2. CountsOn(e)'
    BY <1>5, <2>1
  <2> QED
    BY <2>1, <2>2 DEF CountsOn
<1>9. ASSUME NEW c \in Callers, NEW d \in Callers, c # d, OnErrand(c)', OnErrand(d)'
      PROVE  Noted(errand[c], errand[d])'
  <2>1. PICK e \in Errands : e = errand[c] /\ e = errand'[c] /\ CountsOn(e)
    BY <1>7, <1>9 DEF LInv
  <2>2. PICK f \in Errands : f = errand[d] /\ f = errand'[d]
    BY <1>7, <1>9
  <2>3. Noted(e, f)'
    BY <1>6, <1>7, <1>9, <2>1, <2>2 DEF LInv
  <2> QED
    BY <2>1, <2>2, <2>3 DEF Noted
<1> QED
  BY <1>4, <1>8, <1>9 DEF LInv

(* However links are asked for, used, closed, lapsed and purged, for any   *)
(* number of callers and links: LinksHold.                                 *)
THEOREM LinksTheorem == LinkSpec => []LinksHold
<1>1. ASSUME LInv, LinkNext PROVE LInv'
  BY <1>1, BeginsKeeps, FindOpenKeeps, IssueKeeps, RedemptionsKeep, DecisionsKeep, TimeKeeps
     DEF LinkNext, Finishes
<1>2. ASSUME LInv, UNCHANGED linkVars PROVE LInv'
  BY <1>2 DEF linkVars, LInv, LinksHold, LinkTypeOK, OneOpenLink, SpentOnce, StatusStands,
     ActiveChosePassword, Unspent, Open, OnErrand, Noted, CountsOn
<1>3. LInv => LinksHold
  BY DEF LInv
<1> QED
  BY <1>1, <1>2, <1>3, InitLInv, PTL DEF LinkSpec

(***************************************************************************)
(* What they may do: TreeHolds and AuthorityHolds (modules Territories and *)
(* Access), for any territories, editors, users, roles, administrators and *)
(* lookups.                                                                *)
(*                                                                         *)
(* What TInv adds for the tree: what an edit has read is of its kind, a    *)
(* move was not asked for below its own node, what is created is in        *)
(* nobody else's hands.  Where paths follow parents the prefix finds the   *)
(* subtree, and a rewritten subtree follows them again.                    *)
(*                                                                         *)
(* What AInv adds for the access: a change in flight asks for what its     *)
(* checks have let through (its type says so), and whoever withdraws a     *)
(* super administrator, and was not crossed, still has another one to      *)
(* count on.                                                               *)
(***************************************************************************)

allVars == <<treeVars, accessVars>>

(***************************************************************************)
(* Sequences                                                               *)
(***************************************************************************)
Path == Seq(Territories)

LEMMA PrefixIsPointwise ==
    ASSUME NEW s \in Path, NEW t \in Path
    PROVE  IsPrefix(s, t) <=> Len(s) <= Len(t) /\ \A i \in 1..Len(s) : s[i] = t[i]
<1>1. SubSeq(s, 1, Len(s)) = s
  BY SubSeqFull DEF Path
<1>2. CASE Len(s) <= Len(t)
  <2>1. /\ SubSeq(t, 1, Len(s)) \in Path /\ Len(SubSeq(t, 1, Len(s))) = Len(s)
        /\ \A i \in 1..Len(s) : SubSeq(t, 1, Len(s))[i] = t[i]
    BY <1>2 DEF Path
  <2>2. s = SubSeq(t, 1, Len(s)) <=> \A i \in 1..Len(s) : s[i] = SubSeq(t, 1, Len(s))[i]
    BY <2>1, SeqEqual DEF Path
  <2> QED
    BY <1>1, <1>2, <2>1, <2>2 DEF IsPrefix
<1>3. CASE ~(Len(s) <= Len(t))
  BY <1>3 DEF IsPrefix
<1> QED
  BY <1>2, <1>3

LEMMA BuiltPath ==
    ASSUME NEW s \in Path, NEW t \in Territories
    PROVE  /\ BuildPath(s, t) \in Path /\ BuildPath(s, t) # <<>>
           /\ Len(BuildPath(s, t)) = Len(s) + 1 /\ Last(BuildPath(s, t)) = t
           /\ BuildPath(s, t)[Len(s) + 1] = t
           /\ \A i \in 1..Len(s) : BuildPath(s, t)[i] = s[i]
BY DEF Path, BuildPath, Last

LEMMA PathsDiffer ==
    ASSUME NEW s \in Path, NEW t \in Path, Len(s) = Len(t), \A i \in 1..Len(s) : s[i] = t[i]
    PROVE  s = t
BY SeqEqual DEF Path

(* What a rewriting leaves: the new head, and the tail of the path.        *)
LEMMA Rewritten ==
    ASSUME NEW path \in Path, NEW old \in Path, NEW new \in Path, IsPrefix(old, path)
    PROVE  LET r == RewritePath(path, old, new) IN
               /\ r \in Path
               /\ Len(r) = Len(new) + Len(path) - Len(old)
               /\ \A i \in 1..Len(new) : r[i] = new[i]
               /\ \A i \in Len(new) + 1..Len(r) : r[i] = path[i - Len(new) + Len(old)]
<1> DEFINE tail == SubSeq(path, Len(old) + 1, Len(path))
<1>1. Len(old) <= Len(path) /\ Len(old) \in Nat /\ Len(path) \in Nat
  BY PrefixIsPointwise DEF Path
<1>2. /\ tail \in Path /\ Len(tail) = Len(path) - Len(old)
      /\ \A i \in 1..Len(tail) : tail[i] = path[i + Len(old)]
  BY <1>1 DEF Path
<1> HIDE DEF tail
<1>3. /\ new \o tail \in Path /\ Len(new \o tail) = Len(new) + Len(tail)
      /\ \A i \in 1..Len(new) : (new \o tail)[i] = new[i]
      /\ \A i \in Len(new) + 1..Len(new) + Len(tail) : (new \o tail)[i] = tail[i - Len(new)]
  <2>1. /\ new \o tail \in Path /\ Len(new \o tail) = Len(new) + Len(tail)
        /\ \A i \in 1..Len(new) + Len(tail) :
               (new \o tail)[i] = IF i <= Len(new) THEN new[i] ELSE tail[i - Len(new)]
    <3>1. new \in Seq(Territories) /\ tail \in Seq(Territories)
      BY <1>2 DEF Path
    <3> QED
      BY <3>1, ConcatProperties DEF Path
  <2>2. Len(new) \in Nat /\ Len(tail) \in Nat
    BY <1>2 DEF Path
  <2> QED
    BY <2>1, <2>2
<1>4. \A i \in Len(new) + 1..Len(new) + Len(tail) : i - Len(new) \in 1..Len(tail)
  BY <1>2 DEF Path
<1>5. RewritePath(path, old, new) = new \o tail
  BY DEF RewritePath, tail
<1> QED
  BY <1>1, <1>2, <1>3, <1>4, <1>5 DEF Path

(***************************************************************************)
(* The invariant                                                           *)
(***************************************************************************)
Node == [state : {"NONE", "LIVE", "GONE"}, parent : Territories \cup {NoParent}, path : Path]

Fields == {"kind", "step", "id", "parent", "above", "old", "found"}

(* What an edit has read is of its kind, whatever has become of it since.  *)
EditTyped(x) ==
    /\ Fields \subseteq DOMAIN x
    /\ x.kind \in EditKinds /\ x.step \in {"LOADED", "FOUND", "COMMITTED"}
    /\ x.id \in Territories /\ x.parent \in Territories \cup {NoParent}
    /\ x.above \in Path /\ x.old \in Path
    /\ x.parent = NoParent => x.above = <<>>

(* A move was not asked for below the node itself.                         *)
MoveSound(x) ==
    /\ x.parent # x.id
    /\ x.old # <<>> /\ Last(x.old) = x.id
    /\ x.parent # NoParent => ~WouldCreateCycle(x.old, x.above)
    /\ x.step = "FOUND" =>
           /\ DOMAIN x.found \subseteq Territories
           /\ \A t \in DOMAIN x.found :
                  /\ x.found[t] \in Path /\ IsPrefix(x.old, x.found[t])
                  /\ x.found[t] # <<>> /\ Last(x.found[t]) = t

(* What is created is in nobody's hands but its creator's.                 *)
CreatesNew(e) ==
    /\ node[edit[e].id].state = "NONE"
    /\ \A f \in Editors \ {e} : Editing(f) => edit[f].id # edit[e].id

TInv ==
    /\ node \in [Territories -> Node]
    /\ misled \in BOOLEAN
    /\ edit = [e \in Editors |-> edit[e]]
    /\ \A e \in Editors : Editing(e) =>
           /\ EditTyped(edit[e])
           /\ edit[e].kind = "MOVE" => MoveSound(edit[e])
           /\ edit[e].kind = "CREATE" => CreatesNew(e)
    /\ PathsEndInTheirNode
    /\ ~misled => PathsFollowParents

LEMMA TreeInitially == TreeInit => TInv
<1> SUFFICES ASSUME TreeInit PROVE TInv
  OBVIOUS
<1>1. node \in [Territories -> Node]
  <2>1. <<>> \in Path
    BY DEF Path
  <2> QED
    BY <2>1 DEF TreeInit, Node
<1>2. \A t \in Territories : ~Exists(t)
  BY DEF TreeInit, Exists
<1>3. PathsEndInTheirNode /\ PathsFollowParents
  BY <1>2 DEF PathsEndInTheirNode, PathsFollowParents
<1> QED
  BY <1>1, <1>3 DEF TreeInit, TInv, Editing

(* Where paths follow parents, the prefix finds the subtree.               *)
LEMMA PrefixFindsSubtree ==
    ASSUME node \in [Territories -> Node], PathsEndInTheirNode, PathsFollowParents
    PROVE  ScopesAreSubtrees
<1> SUFFICES ASSUME NEW t \in Territories, Exists(t), NEW s \in Territories, Exists(s)
             PROVE  s \in SubtreeAt(node[t].path) <=>
                        s = t \/ node[s].parent \in SubtreeAt(node[t].path)
  BY DEF ScopesAreSubtrees, SubtreeAt
<1> DEFINE p == node[s].parent
           top == node[t].path
<1>1. top \in Path /\ top # <<>> /\ Last(top) = t
  BY DEF Node, PathsEndInTheirNode
<1>2. CASE p = NoParent
  <2>1. node[s].path = BuildPath(<<>>, s)
    BY <1>2 DEF PathsFollowParents, PathOf
  <2>2. <<>> \in Path /\ Len(<<>>) = 0
    BY DEF Path
  <2>3. IsPrefix(top, node[s].path) <=> Len(top) <= 1 /\ \A i \in 1..Len(top) : top[i] = node[s].path[i]
    BY <1>1, <2>1, <2>2, PrefixIsPointwise, BuiltPath
  <2>4. Len(top) \in Nat /\ Len(top) >= 1
    BY <1>1 DEF Path
  <2>5. node[s].path[1] = s
    BY <2>1, <2>2, BuiltPath
  <2>6. IsPrefix(top, node[s].path) <=> s = t
    <3>1. ASSUME IsPrefix(top, node[s].path) PROVE s = t
      BY <1>1, <2>3, <2>4, <2>5, <3>1 DEF Last
    <3>2. ASSUME s = t PROVE IsPrefix(top, node[s].path)
      BY <1>1, <3>2, PrefixIsPointwise DEF Path
    <3> QED
      BY <3>1, <3>2
  <2> QED
    BY <1>2, <2>6, TerritoriesAssumption DEF SubtreeAt
<1>3. CASE p # NoParent
  <2>1. p \in Territories /\ Exists(p) /\ node[p].path \in Path
        /\ node[s].path = BuildPath(node[p].path, s)
    BY <1>3 DEF PathsFollowParents, PathOf, Node
  <2> DEFINE below == node[s].path
             up == node[p].path
  <2>2. /\ below \in Path /\ Len(below) = Len(up) + 1 /\ below[Len(up) + 1] = s
        /\ \A i \in 1..Len(up) : below[i] = up[i]
    <3>1. up \in Path /\ below = BuildPath(up, s)
      BY <2>1
    <3> HIDE DEF below, up
    <3> QED
      BY <3>1, BuiltPath
  <2>3. Len(top) \in Nat /\ Len(up) \in Nat /\ Len(top) >= 1
    BY <1>1, <2>1 DEF Path
  <2>4. ASSUME IsPrefix(top, up) PROVE IsPrefix(top, below)
    <3>1. Len(top) <= Len(up) /\ \A i \in 1..Len(top) : top[i] = up[i]
      BY <1>1, <2>1, <2>4, PrefixIsPointwise
    <3>2. Len(top) <= Len(below) /\ \A i \in 1..Len(top) : top[i] = below[i]
      BY <2>2, <2>3, <3>1
    <3> QED
      BY <1>1, <2>2, <3>2, PrefixIsPointwise
  <2>5. ASSUME s = t PROVE IsPrefix(top, below)
    BY <1>1, <2>5, PrefixIsPointwise DEF Path
  <2>6. ASSUME IsPrefix(top, below) PROVE s = t \/ IsPrefix(top, up)
    <3>1. Len(top) <= Len(up) + 1 /\ \A i \in 1..Len(top) : top[i] = below[i]
      BY <1>1, <2>2, <2>6, PrefixIsPointwise
    <3>2. CASE Len(top) = Len(up) + 1
      BY <1>1, <2>2, <2>3, <3>1, <3>2 DEF Last
    <3>3. CASE Len(top) <= Len(up)
      <4>1. \A i \in 1..Len(top) : top[i] = up[i]
        BY <2>2, <2>3, <3>1, <3>3
      <4>2. up \in Path /\ top \in Path
        BY <1>1, <2>1
      <4> HIDE DEF up, top
      <4> QED
        BY <3>3, <4>1, <4>2, PrefixIsPointwise
    <3> QED
      BY <2>3, <3>1, <3>2, <3>3
  <2> QED
    BY <2>1, <2>4, <2>5, <2>6 DEF SubtreeAt
<1> QED
  BY <1>2, <1>3

(***************************************************************************)
(* Steps that leave the tree alone                                         *)
(***************************************************************************)
LEMMA TreeUntouched ==
    ASSUME TInv, UNCHANGED <<node, misled>>, NEW e \in Editors,
           edit' = [f \in Editors |-> edit'[f]],
           \A f \in Editors \ {e} : edit'[f] = edit[f],
           Editing(e)' =>
               /\ EditTyped(edit'[e])
               /\ edit'[e].kind = "MOVE" => MoveSound(edit'[e])
               /\ edit'[e].kind = "CREATE" => CreatesNew(e)'
               /\ \A f \in Editors \ {e} : Editing(f) /\ edit[f].kind = "CREATE" =>
                                            edit[f].id # edit'[e].id
    PROVE  TInv'
<1>1. ASSUME NEW f \in Editors, Editing(f)'
      PROVE  /\ EditTyped(edit[f])'
             /\ edit'[f].kind = "MOVE" => MoveSound(edit[f])'
             /\ edit'[f].kind = "CREATE" => CreatesNew(f)'
  <2>1. CASE f = e
    BY <1>1, <2>1 DEF EditTyped, MoveSound, WouldCreateCycle
  <2>2. CASE f # e
    <3>1. edit'[f] = edit[f] /\ Editing(f)
      BY <1>1, <2>2 DEF Editing
    <3>2. EditTyped(edit[f])' /\ (edit'[f].kind = "MOVE" => MoveSound(edit[f])')
      BY <3>1 DEF TInv, EditTyped, MoveSound, WouldCreateCycle
    <3>3. ASSUME edit'[f].kind = "CREATE" PROVE CreatesNew(f)'
      BY <2>2, <3>1, <3>3 DEF TInv, CreatesNew, Editing
    <3> QED
      BY <3>2, <3>3
  <2> QED
    BY <2>1, <2>2
<1>2. PathsEndInTheirNode' /\ (~misled' => PathsFollowParents')
  BY DEF TInv, PathsEndInTheirNode, PathsFollowParents, Exists, PathOf
<1> QED
  BY <1>1, <1>2 DEF TInv

LEMMA BeginKeepsTree ==
    ASSUME TInv, NEW e \in Editors, NEW kind \in EditKinds, NEW t \in Territories,
           NEW p \in Territories \cup {NoParent}, Begin(e, kind, t, p),
           kind = "CREATE" => node[t].state = "NONE",
           kind = "CREATE" => \A f \in Editors : Editing(f) => edit[f].id # t,
           kind # "CREATE" => Exists(t),
           kind = "MOVE" => p # t /\ (p # NoParent => ~WouldCreateCycle(node[t].path, node[p].path))
    PROVE  TInv'
<1> DEFINE x == [kind |-> kind, step |-> "LOADED", id |-> t, parent |-> p,
                 above |-> PathOf(p), old |-> node[t].path, found |-> <<>>]
<1>1. edit' = [edit EXCEPT ![e] = x] /\ UNCHANGED <<node, misled>> /\ ~Editing(e)
  BY DEF Begin
<1>2. edit' = [f \in Editors |-> edit'[f]] /\ edit'[e] = x
      /\ \A f \in Editors \ {e} : edit'[f] = edit[f]
  BY <1>1 DEF TInv
<1>3. PathOf(p) \in Path /\ node[t].path \in Path /\ <<>> \in Path
  BY DEF TInv, Node, Path, PathOf
<1>4. EditTyped(x)
  BY <1>3 DEF EditTyped, Fields, PathOf
<1>5. kind = "MOVE" => MoveSound(x)
  <2> SUFFICES ASSUME kind = "MOVE" PROVE MoveSound(x)
    OBVIOUS
  <2>1. node[t].path # <<>> /\ Last(node[t].path) = t
    BY DEF TInv, PathsEndInTheirNode
  <2>2. p # NoParent => PathOf(p) = node[p].path
    BY DEF PathOf
  <2> QED
    BY <2>1, <2>2 DEF MoveSound
<1>6. kind = "CREATE" => CreatesNew(e)'
  BY <1>1, <1>2 DEF CreatesNew, Editing
<1>7. \A f \in Editors \ {e} : Editing(f) /\ edit[f].kind = "CREATE" => edit[f].id # t
  BY DEF TInv, CreatesNew, Exists
<1>8. x.kind = kind /\ x.id = t
  OBVIOUS
<1> HIDE DEF x
<1> QED
  BY <1>1, <1>2, <1>4, <1>5, <1>6, <1>7, <1>8, TreeUntouched

LEMMA AsksKeepTree ==
    ASSUME TInv, NEW e \in Editors,
           \/ \E t \in Territories, p \in Territories \cup {NoParent} :
                  AskCreate(e, t, p) \/ AskMove(e, t, p)
           \/ \E t \in Territories : AskRemove(e, t)
    PROVE  TInv'
<1>1. ASSUME NEW t \in Territories, NEW p \in Territories \cup {NoParent}, AskCreate(e, t, p)
      PROVE  TInv'
  BY <1>1, BeginKeepsTree DEF AskCreate, EditKinds
<1>2. ASSUME NEW t \in Territories, NEW p \in Territories \cup {NoParent}, AskMove(e, t, p)
      PROVE  TInv'
  BY <1>2, BeginKeepsTree DEF AskMove, EditKinds
<1>3. ASSUME NEW t \in Territories, AskRemove(e, t) PROVE TInv'
  BY <1>3, BeginKeepsTree DEF AskRemove, EditKinds
<1> QED
  BY <1>1, <1>2, <1>3

LEMMA FindKeepsTree ==
    ASSUME TInv, NEW e \in Editors, FindSubtree(e)
    PROVE  TInv'
<1> DEFINE found == [t \in SubtreeAt(edit[e].old) |-> node[t].path]
           x == [edit[e] EXCEPT !.step = "FOUND", !.found = found]
<1>1. /\ edit' = [edit EXCEPT ![e] = x] /\ UNCHANGED <<node, misled>>
      /\ Editing(e) /\ edit[e].kind = "MOVE"
  BY DEF FindSubtree, At
<1>2. edit' = [f \in Editors |-> edit'[f]] /\ edit'[e] = x
      /\ \A f \in Editors \ {e} : edit'[f] = edit[f]
  BY <1>1 DEF TInv
<1>3. EditTyped(edit[e]) /\ MoveSound(edit[e])
  BY <1>1 DEF TInv
<1>4. /\ DOMAIN x = DOMAIN edit[e]
      /\ x.kind = "MOVE" /\ x.step = "FOUND" /\ x.found = found
      /\ x.id = edit[e].id /\ x.parent = edit[e].parent
      /\ x.above = edit[e].above /\ x.old = edit[e].old
  BY <1>1, <1>3 DEF EditTyped, Fields
<1>5. EditTyped(x)
  BY <1>3, <1>4 DEF EditTyped, EditKinds
<1>6. MoveSound(x)
  <2>1. /\ DOMAIN found \subseteq Territories
        /\ \A t \in DOMAIN found :
               /\ found[t] \in Path /\ IsPrefix(edit[e].old, found[t])
               /\ found[t] # <<>> /\ Last(found[t]) = t
    BY DEF SubtreeAt, TInv, Node, PathsEndInTheirNode
  <2> HIDE DEF found, x
  <2> QED
    BY <1>3, <1>4, <2>1 DEF MoveSound
<1>7. \A f \in Editors \ {e} : Editing(f) /\ edit[f].kind = "CREATE" => edit[f].id # x.id
  BY <1>1, <1>4 DEF TInv, CreatesNew
<1> HIDE DEF x
<1> QED
  BY <1>1, <1>2, <1>4, <1>5, <1>6, <1>7, TreeUntouched

LEMMA EndsKeepTree ==
    ASSUME TInv, NEW e \in Editors, DropEdit(e) \/ EndEdit(e)
    PROVE  TInv'
<1>1. /\ edit' = [f \in Editors |-> edit'[f]] /\ edit'[e] = NoEdit
      /\ \A f \in Editors \ {e} : edit'[f] = edit[f]
      /\ UNCHANGED <<node, misled>>
  BY DEF TInv, DropEdit, EndEdit
<1> QED
  BY <1>1, TreeUntouched DEF Editing

(***************************************************************************)
(* Commits                                                                 *)
(***************************************************************************)
LEMMA RewrittenEnd ==
    ASSUME NEW path \in Path, NEW old \in Path, NEW new \in Path, IsPrefix(old, path),
           NEW t, NEW id, old # <<>>, new # <<>>, path # <<>>,
           Last(old) = id, Last(new) = id, Last(path) = t
    PROVE  /\ RewritePath(path, old, new) \in Path
           /\ RewritePath(path, old, new) # <<>> /\ Last(RewritePath(path, old, new)) = t
<1> DEFINE r == RewritePath(path, old, new)
<1>1. /\ r \in Path /\ Len(r) = Len(new) + Len(path) - Len(old)
      /\ \A i \in 1..Len(new) : r[i] = new[i]
      /\ \A i \in Len(new) + 1..Len(r) : r[i] = path[i - Len(new) + Len(old)]
  BY Rewritten
<1>2. /\ Len(old) \in Nat /\ Len(old) >= 1 /\ Len(new) \in Nat /\ Len(new) >= 1
      /\ Len(path) \in Nat /\ Len(path) >= Len(old)
      /\ \A i \in 1..Len(old) : old[i] = path[i]
  BY PrefixIsPointwise DEF Path
<1> HIDE DEF r
<1>3. r[Len(r)] = t
  <2>1. CASE Len(path) = Len(old)
    BY <1>1, <1>2, <2>1 DEF Last
  <2>2. CASE Len(path) > Len(old)
    <3>1. Len(r) \in Len(new) + 1..Len(r) /\ Len(r) - Len(new) + Len(old) = Len(path)
      BY <1>1, <1>2, <2>2
    <3> QED
      BY <1>1, <3>1 DEF Last
  <2> QED
    BY <1>2, <2>1, <2>2
<1>4. r # <<>>
  BY <1>1, <1>2
<1> QED
  BY <1>1, <1>3, <1>4 DEF Last, r

(* To rewrite what is built is to build on what is rewritten.              *)
LEMMA RewriteBuilt ==
    ASSUME NEW path \in Path, NEW old \in Path, NEW new \in Path, IsPrefix(old, path),
           NEW t \in Territories
    PROVE  RewritePath(BuildPath(path, t), old, new) = BuildPath(RewritePath(path, old, new), t)
<1> DEFINE b == BuildPath(path, t)
           r == RewritePath(path, old, new)
           s == RewritePath(b, old, new)
           u == BuildPath(r, t)
<1>1. /\ Len(old) \in Nat /\ Len(new) \in Nat /\ Len(path) \in Nat /\ Len(path) >= Len(old)
      /\ \A i \in 1..Len(old) : old[i] = path[i]
  BY PrefixIsPointwise DEF Path
<1>2. /\ b \in Path /\ Len(b) = Len(path) + 1 /\ b[Len(path) + 1] = t
      /\ \A i \in 1..Len(path) : b[i] = path[i]
  BY BuiltPath
<1>3. IsPrefix(old, b)
  <2>1. Len(old) <= Len(b) /\ \A i \in 1..Len(old) : old[i] = b[i]
    BY <1>1, <1>2
  <2> QED
    BY <1>2, <2>1, PrefixIsPointwise
<1>4. /\ r \in Path /\ Len(r) = Len(new) + Len(path) - Len(old)
      /\ \A i \in 1..Len(new) : r[i] = new[i]
      /\ \A i \in Len(new) + 1..Len(r) : r[i] = path[i - Len(new) + Len(old)]
  BY Rewritten
<1>5. /\ s \in Path /\ Len(s) = Len(new) + Len(b) - Len(old)
      /\ \A i \in 1..Len(new) : s[i] = new[i]
      /\ \A i \in Len(new) + 1..Len(s) : s[i] = b[i - Len(new) + Len(old)]
  <2> HIDE DEF b
  <2> QED
    BY <1>2, <1>3, Rewritten
<1>6. /\ u \in Path /\ Len(u) = Len(r) + 1 /\ u[Len(r) + 1] = t
      /\ \A i \in 1..Len(r) : u[i] = r[i]
  <2> HIDE DEF r
  <2> QED
    BY <1>4, BuiltPath
<1> HIDE DEF b, r, s, u
<1>7. Len(s) = Len(u)
  BY <1>1, <1>2, <1>4, <1>5, <1>6
<1>8. ASSUME NEW i \in 1..Len(s) PROVE s[i] = u[i]
  <2>1. CASE i <= Len(new)
    BY <1>1, <1>4, <1>5, <1>6, <1>7, <2>1
  <2>2. CASE i > Len(new) /\ i <= Len(r)
    <3>1. i - Len(new) + Len(old) \in 1..Len(path) /\ i \in Len(new) + 1..Len(s)
      BY <1>1, <1>2, <1>4, <1>5, <2>2
    <3>2. s[i] = path[i - Len(new) + Len(old)]
      BY <1>2, <1>5, <3>1
    <3>3. u[i] = r[i] /\ r[i] = path[i - Len(new) + Len(old)]
      BY <1>1, <1>4, <1>6, <2>2
    <3> QED
      BY <3>2, <3>3
  <2>3. CASE i = Len(r) + 1
    <3>1. i - Len(new) + Len(old) = Len(path) + 1 /\ i \in Len(new) + 1..Len(s)
      BY <1>1, <1>2, <1>4, <1>5, <2>3
    <3> QED
      BY <1>2, <1>5, <1>6, <2>3, <3>1
  <2>4. Len(r) \in Nat /\ Len(s) = Len(r) + 1
    BY <1>1, <1>4, <1>6, <1>7
  <2>5. i \in Nat /\ i <= Len(r) + 1
    BY <2>4
  <2> QED
    BY <1>1, <2>1, <2>2, <2>3, <2>4, <2>5
<1>9. s = u
  BY <1>5, <1>6, <1>7, <1>8, PathsDiffer
<1> QED
  BY <1>9 DEF b, r, s, u

(* The commit of an edit and the other edits in flight.                    *)
LEMMA CommitKeepsEdits ==
    ASSUME TInv, NEW e \in Editors, CommitEdit(e),
           \A t \in Territories : node[t].state = "NONE" /\ t # edit[e].id =>
                                  node'[t].state = "NONE"
    PROVE  /\ edit' = [f \in Editors |-> edit'[f]] /\ misled' \in BOOLEAN
           /\ \A f \in Editors : Editing(f)' =>
                  /\ EditTyped(edit[f])'
                  /\ edit'[f].kind = "MOVE" => MoveSound(edit[f])'
                  /\ edit'[f].kind = "CREATE" => CreatesNew(f)'
<1> DEFINE x == edit[e]
           y == IF x.kind = "CREATE" THEN NoEdit ELSE [x EXCEPT !.step = "COMMITTED"]
<1>1. /\ Editing(e) /\ EditTyped(x) /\ (x.kind = "MOVE" => MoveSound(x))
      /\ edit' = [edit EXCEPT ![e] = y] /\ misled' \in BOOLEAN
  BY DEF CommitEdit, TInv
<1>2. edit' = [f \in Editors |-> edit'[f]] /\ edit'[e] = y
      /\ \A f \in Editors \ {e} : edit'[f] = edit[f]
  BY <1>1 DEF TInv
<1>3. ASSUME x.kind # "CREATE"
      PROVE  /\ DOMAIN y = DOMAIN x /\ y.kind = x.kind /\ y.step = "COMMITTED"
             /\ y.id = x.id /\ y.parent = x.parent /\ y.above = x.above /\ y.old = x.old
  BY <1>1, <1>3 DEF EditTyped, Fields
<1>4. ASSUME NEW f \in Editors, Editing(f)'
      PROVE  /\ EditTyped(edit[f])'
             /\ edit'[f].kind = "MOVE" => MoveSound(edit[f])'
             /\ edit'[f].kind = "CREATE" => CreatesNew(f)'
  <2>1. CASE f = e
    <3>1. x.kind # "CREATE"
      BY <1>2, <1>4, <2>1 DEF Editing
    <3>2. EditTyped(y) /\ (y.kind = "MOVE" => MoveSound(y)) /\ y.kind # "CREATE"
      <4> HIDE DEF y
      <4> QED
        BY <1>1, <1>3, <3>1 DEF EditTyped, MoveSound
    <3> HIDE DEF y
    <3> QED
      BY <1>2, <2>1, <3>2 DEF EditTyped, MoveSound, WouldCreateCycle
  <2>2. CASE f # e
    <3>1. edit'[f] = edit[f] /\ Editing(f)
      BY <1>2, <1>4, <2>2 DEF Editing
    <3>2. EditTyped(edit[f])' /\ (edit'[f].kind = "MOVE" => MoveSound(edit[f])')
      BY <3>1 DEF TInv, EditTyped, MoveSound, WouldCreateCycle
    <3>3. ASSUME edit'[f].kind = "CREATE" PROVE CreatesNew(f)'
      <4>1. CreatesNew(f) /\ edit[f].id \in Territories
        BY <3>1, <3>3 DEF TInv, EditTyped
      <4>2. edit[f].id # x.id
        BY <1>1, <2>2, <4>1 DEF CreatesNew
      <4>3. node'[edit[f].id].state = "NONE"
        BY <4>1, <4>2 DEF CreatesNew
      <4>4. \A g \in Editors \ {f} : Editing(g)' => edit'[g].id # edit[f].id
        <5>1. Editing(e)' => edit'[e].id = x.id
          <6> HIDE DEF y
          <6>1. ASSUME Editing(e)' PROVE x.kind # "CREATE"
            BY <1>2, <6>1 DEF Editing, y
          <6> QED
            BY <1>2, <1>3, <6>1
        <5> QED
          BY <1>2, <4>1, <4>2, <5>1 DEF CreatesNew, Editing
      <4> QED
        BY <3>1, <4>3, <4>4 DEF CreatesNew
    <3> QED
      BY <3>2, <3>3
  <2> QED
    BY <2>1, <2>2
<1> QED
  BY <1>1, <1>2, <1>4

LEMMA CreationKeepsTree ==
    ASSUME TInv, NEW e \in Editors, CommitEdit(e), edit[e].kind = "CREATE"
    PROVE  TInv'
<1> DEFINE x == edit[e]
           new == [state |-> "LIVE", parent |-> x.parent, path |-> BuildPath(x.above, x.id)]
<1>1. /\ Editing(e) /\ EditTyped(x) /\ CreatesNew(e)
      /\ node' = [node EXCEPT ![x.id] = new] /\ misled' = (misled \/ ~StillTrue(x))
  BY DEF CommitEdit, Created, TInv
<1>2. x.id \in Territories /\ BuildPath(x.above, x.id) \in Path
      /\ BuildPath(x.above, x.id) # <<>> /\ Last(BuildPath(x.above, x.id)) = x.id
  BY <1>1, BuiltPath DEF EditTyped
<1>3. node' \in [Territories -> Node] /\ node'[x.id] = new
      /\ \A t \in Territories \ {x.id} : node'[t] = node[t]
  <2>1. new \in Node
    BY <1>1, <1>2 DEF EditTyped, Node
  <2> HIDE DEF new
  <2> QED
    BY <1>1, <1>2, <2>1 DEF TInv
<1>4. PathsEndInTheirNode'
  BY <1>2, <1>3 DEF TInv, PathsEndInTheirNode, Exists
<1>5. ASSUME ~misled' PROVE PathsFollowParents'
  <2>1. StillTrue(x) /\ PathsFollowParents
    BY <1>1, <1>5 DEF TInv
  <2>2. x.parent # NoParent => Exists(x.parent) /\ node[x.parent].path = x.above
    BY <2>1 DEF StillTrue
  <2>3. ~Exists(x.id)
    BY <1>1 DEF CreatesNew, Exists
  <2>4. ASSUME NEW t \in Territories, Exists(t)', NEW p, p = node'[t].parent
        PROVE  /\ p # NoParent => Exists(p)'
               /\ node'[t].path = BuildPath(IF p = NoParent THEN <<>> ELSE node'[p].path, t)
    <3>1. CASE t = x.id
      <4>1. p = x.parent /\ node'[t].path = BuildPath(x.above, x.id)
        BY <1>3, <2>4, <3>1
      <4>2. CASE p = NoParent
        BY <1>1, <3>1, <4>1, <4>2 DEF EditTyped
      <4>3. CASE p # NoParent
        <5>1. p \in Territories \ {x.id} /\ Exists(p) /\ node[p].path = x.above
          BY <1>1, <2>2, <2>3, <4>1, <4>3 DEF EditTyped
        <5> QED
          BY <1>3, <3>1, <4>1, <4>3, <5>1 DEF Exists
      <4> QED
        BY <4>2, <4>3
    <3>2. CASE t # x.id
      <4>1. node'[t] = node[t] /\ Exists(t) /\ p = node[t].parent
        BY <1>3, <2>4, <3>2 DEF Exists
      <4>2. /\ p # NoParent => Exists(p)
            /\ node[t].path = BuildPath(IF p = NoParent THEN <<>> ELSE node[p].path, t)
        BY <2>1, <4>1 DEF PathsFollowParents, PathOf
      <4>3. p # NoParent => p \in Territories \ {x.id}
        BY <2>3, <4>1, <4>2 DEF TInv, Node
      <4> QED
        BY <1>3, <4>1, <4>2, <4>3 DEF Exists
    <3> QED
      BY <3>1, <3>2
  <2> QED
    BY <2>4 DEF PathsFollowParents, PathOf
<1>6. \A t \in Territories : node[t].state = "NONE" /\ t # x.id => node'[t].state = "NONE"
  BY <1>3
<1> QED
  BY <1>3, <1>4, <1>5, <1>6, CommitKeepsEdits DEF TInv

LEMMA RemovalKeepsTree ==
    ASSUME TInv, NEW e \in Editors, CommitEdit(e), edit[e].kind = "REMOVE"
    PROVE  TInv'
<1>0. PICK x : x = edit[e]
  OBVIOUS
<1>1. /\ Editing(e) /\ EditTyped(x)
      /\ node' = [node EXCEPT ![x.id].state = "GONE"] /\ misled' = (misled \/ ~StillTrue(x))
  BY <1>0 DEF CommitEdit, Removed, TInv
<1>2. /\ node' \in [Territories -> Node] /\ ~Exists(x.id)'
      /\ \A t \in Territories : node'[t].path = node[t].path /\ node'[t].parent = node[t].parent
      /\ \A t \in Territories \ {x.id} : node'[t].state = node[t].state
  <2>1. /\ node \in [Territories -> Node] /\ x.id \in Territories
    BY <1>1 DEF TInv, EditTyped
  <2>2. node'[x.id] = [node[x.id] EXCEPT !.state = "GONE"]
        /\ \A t \in Territories \ {x.id} : node'[t] = node[t]
    BY <1>1, <2>1
  <2>3. /\ node'[x.id] \in Node /\ node'[x.id].state = "GONE"
        /\ node'[x.id].path = node[x.id].path /\ node'[x.id].parent = node[x.id].parent
    BY <2>1, <2>2 DEF Node
  <2>4. node' \in [Territories -> Node]
    BY <1>1, <2>1, <2>2, <2>3
  <2> QED
    BY <2>2, <2>3, <2>4 DEF Exists
<1>3. \A t \in Territories : Exists(t)' => Exists(t) /\ t # x.id
  BY <1>2 DEF Exists
<1>4. PathsEndInTheirNode'
  BY <1>2, <1>3 DEF TInv, PathsEndInTheirNode, Exists
<1>5. ASSUME ~misled' PROVE PathsFollowParents'
  <2>1. PathsFollowParents /\ \A c \in Children(x.id) : ~Exists(c)
    BY <1>0, <1>1, <1>5 DEF TInv, StillTrue
  <2>2. ASSUME NEW t \in Territories, Exists(t)', NEW p, p = node'[t].parent
        PROVE  /\ p # NoParent => Exists(p)'
               /\ node'[t].path = BuildPath(IF p = NoParent THEN <<>> ELSE node'[p].path, t)
    <3>1. Exists(t) /\ p = node[t].parent
      BY <1>2, <1>3, <2>2
    <3>2. /\ p # NoParent => Exists(p)
          /\ node[t].path = BuildPath(IF p = NoParent THEN <<>> ELSE node[p].path, t)
      BY <2>1, <3>1 DEF PathsFollowParents, PathOf
    <3>3. p # NoParent => p \in Territories \ {x.id}
      BY <2>1, <3>1 DEF Children, TInv, Node, Exists
    <3> QED
      BY <1>2, <3>2, <3>3 DEF Exists
  <2> QED
    BY <2>2 DEF PathsFollowParents, PathOf
<1>6. \A t \in Territories : node[t].state = "NONE" /\ t # x.id => node'[t].state = "NONE"
  BY <1>2
<1> QED
  BY <1>2, <1>4, <1>5, <1>6, <1>0, CommitKeepsEdits DEF TInv

LEMMA MoveKeepsTree ==
    ASSUME TInv, NEW e \in Editors, CommitEdit(e), edit[e].kind = "MOVE"
    PROVE  TInv'
<1>0. PICK x : x = edit[e]
  OBVIOUS
<1> DEFINE new == BuildPath(x.above, x.id)
           in(t) == t \in DOMAIN x.found
<1>1. /\ Editing(e) /\ EditTyped(x) /\ MoveSound(x) /\ x.step = "FOUND"
      /\ \A t \in {x.id} \cup DOMAIN x.found : Exists(t)
      /\ node' = Moved(x) /\ misled' = (misled \/ ~StillTrue(x))
  BY <1>0 DEF CommitEdit, TInv, Writable
<1>2. /\ x.id \in Territories /\ x.old \in Path /\ x.old # <<>> /\ Last(x.old) = x.id
      /\ x.parent \in Territories \cup {NoParent}
      /\ new \in Path /\ new # <<>> /\ Last(new) = x.id
  BY <1>1, BuiltPath DEF EditTyped, MoveSound
<1>3. \A t \in Territories : in(t) =>
          LET r == RewritePath(x.found[t], x.old, new) IN r \in Path /\ r # <<>> /\ Last(r) = t
  <2> SUFFICES ASSUME NEW t \in Territories, in(t)
               PROVE  LET r == RewritePath(x.found[t], x.old, new) IN
                          r \in Path /\ r # <<>> /\ Last(r) = t
    OBVIOUS
  <2>1. /\ x.found[t] \in Path /\ IsPrefix(x.old, x.found[t])
        /\ x.found[t] # <<>> /\ Last(x.found[t]) = t
    BY <1>1 DEF MoveSound
  <2> HIDE DEF new
  <2> QED
    BY <1>2, <2>1, RewrittenEnd
<1>4. /\ node' \in [Territories -> Node]
      /\ \A t \in Territories :
             /\ node'[t].state = node[t].state
             /\ node'[t].path = IF in(t) THEN RewritePath(x.found[t], x.old, new) ELSE node[t].path
             /\ node'[t].parent = IF t = x.id THEN x.parent ELSE node[t].parent
  <2> HIDE DEF new
  <2>1. \A t \in Territories : node[t] \in Node
    BY DEF TInv
  <2>2. node' = [t \in Territories |->
            [node[t] EXCEPT !.path = IF in(t) THEN RewritePath(x.found[t], x.old, new) ELSE @,
                            !.parent = IF t = x.id THEN x.parent ELSE @]]
    BY <1>1 DEF Moved, new
  <2>3. ASSUME NEW t \in Territories
        PROVE  /\ node'[t] \in Node
               /\ node'[t].state = node[t].state
               /\ node'[t].path = IF in(t) THEN RewritePath(x.found[t], x.old, new) ELSE node[t].path
               /\ node'[t].parent = IF t = x.id THEN x.parent ELSE node[t].parent
    <3> DEFINE path == IF in(t) THEN RewritePath(x.found[t], x.old, new) ELSE node[t].path
               parent == IF t = x.id THEN x.parent ELSE node[t].parent
    <3>1. path \in Path
      BY <1>3, <2>1 DEF Node
    <3>2. parent \in Territories \cup {NoParent}
      BY <1>2, <2>1 DEF Node
    <3>3. node'[t] = [node[t] EXCEPT !.path = path, !.parent = parent]
      BY <2>2
    <3> HIDE DEF path, parent
    <3>4. node'[t] \in Node /\ node'[t].state = node[t].state /\ node'[t].path = path
          /\ node'[t].parent = parent
      BY <2>1, <3>1, <3>2, <3>3 DEF Node
    <3> QED
      BY <3>4 DEF path, parent
  <2>4. node' = [t \in Territories |-> node'[t]]
    BY <2>2
  <2> QED
    BY <2>3, <2>4
<1>5. PathsEndInTheirNode'
  <2> HIDE DEF new
  <2> QED
    BY <1>3, <1>4 DEF TInv, PathsEndInTheirNode, Exists
<1>6. ASSUME ~misled' PROVE PathsFollowParents'
  <2>1. StillTrue(x) /\ PathsFollowParents /\ node \in [Territories -> Node] /\ PathsEndInTheirNode
    BY <1>1, <1>6 DEF TInv
  <2>2. /\ node[x.id].path = x.old
        /\ x.found = [t \in SubtreeAt(x.old) |-> node[t].path]
        /\ x.parent # NoParent => Exists(x.parent) /\ node[x.parent].path = x.above
    BY <1>0, <2>1 DEF StillTrue
  <2>3. \A t : in(t) <=> t \in SubtreeAt(x.old)
    BY <2>2
  <2>4. \A t \in Territories : Exists(t) => (in(t) <=> t = x.id \/ in(node[t].parent))
    <3>1. ScopesAreSubtrees /\ Exists(x.id)
      BY <1>1, <2>1, PrefixFindsSubtree
    <3> QED
      BY <1>2, <2>2, <2>3, <3>1 DEF ScopesAreSubtrees, SubtreeAt
  <2>5. x.parent # NoParent => ~in(x.parent)
    BY <1>1, <2>2, <2>3 DEF MoveSound, WouldCreateCycle, SubtreeAt
  <2>6. ASSUME NEW t \in Territories, Exists(t)', NEW p, p = node'[t].parent
        PROVE  /\ p # NoParent => Exists(p)'
               /\ node'[t].path = BuildPath(IF p = NoParent THEN <<>> ELSE node'[p].path, t)
    <3>1. Exists(t)
      BY <1>4, <2>6 DEF Exists
    <3>2. CASE t = x.id
      <4>1. p = x.parent /\ in(t)
        BY <1>4, <2>4, <2>6, <3>1, <3>2
      <4>2. node'[t].path = RewritePath(x.old, x.old, new)
        <5> HIDE DEF new
        <5> QED
          BY <1>4, <2>2, <2>3, <3>2, <4>1
      <4>3. RewritePath(x.old, x.old, new) = new
        <5>1. IsPrefix(x.old, x.old)
          BY <1>2, PrefixIsPointwise DEF Path
        <5> HIDE DEF new
        <5>2. LET r == RewritePath(x.old, x.old, new) IN
                  /\ r \in Path /\ Len(r) = Len(new) + Len(x.old) - Len(x.old)
                  /\ \A i \in 1..Len(new) : r[i] = new[i]
          BY <1>2, <5>1, Rewritten
        <5>3. Len(new) \in Nat /\ Len(x.old) \in Nat
          BY <1>2 DEF Path
        <5>4. Len(RewritePath(x.old, x.old, new)) = Len(new)
          BY <5>2, <5>3
        <5> QED
          BY <1>2, <5>2, <5>4, PathsDiffer
      <4>4. CASE p = NoParent
        BY <1>1, <3>2, <4>1, <4>2, <4>3, <4>4 DEF EditTyped
      <4>5. CASE p # NoParent
        <5>1. p \in Territories /\ Exists(p) /\ node[p].path = x.above /\ ~in(p)
          BY <1>2, <2>2, <2>5, <4>1, <4>5
        <5>2. node'[p].path = x.above /\ Exists(p)'
          BY <1>4, <5>1 DEF Exists
        <5> QED
          BY <3>2, <4>2, <4>3, <4>5, <5>2
      <4> QED
        BY <4>4, <4>5
    <3>3. CASE t # x.id
      <4>1. p = node[t].parent
        BY <1>4, <2>6, <3>3
      <4>2. /\ p # NoParent => Exists(p)
            /\ node[t].path = BuildPath(IF p = NoParent THEN <<>> ELSE node[p].path, t)
            /\ p # NoParent => p \in Territories
        BY <2>1, <3>1, <4>1 DEF PathsFollowParents, PathOf, Node
      <4>3. p # NoParent => Exists(p)'
        BY <1>4, <4>2 DEF Exists
      <4>4. CASE ~in(t)
        <5>1. ~in(p)
          BY <2>4, <3>1, <4>1, <4>4
        <5> QED
          BY <1>4, <4>2, <4>3, <4>4, <5>1
      <4>5. CASE in(t)
        <5>1. in(p)
          BY <2>4, <3>1, <3>3, <4>1, <4>5
        <5>2. p \in Territories /\ p # NoParent /\ IsPrefix(x.old, node[p].path)
              /\ x.found[p] = node[p].path /\ x.found[t] = node[t].path
          BY <2>2, <2>3, <4>5, <5>1, TerritoriesAssumption DEF SubtreeAt
        <5>3. node[p].path \in Path /\ node[t].path = BuildPath(node[p].path, t)
          BY <2>1, <4>2, <5>2 DEF Node
        <5> HIDE DEF new
        <5>4. RewritePath(BuildPath(node[p].path, t), x.old, new)
                  = BuildPath(RewritePath(node[p].path, x.old, new), t)
          BY <1>2, <5>2, <5>3, RewriteBuilt
        <5>5. /\ node'[t].path = RewritePath(node[t].path, x.old, new)
              /\ node'[p].path = RewritePath(node[p].path, x.old, new)
          BY <1>4, <4>5, <5>1, <5>2
        <5> QED
          BY <4>3, <5>2, <5>3, <5>4, <5>5
      <4> QED
        BY <4>4, <4>5
    <3> QED
      BY <3>2, <3>3
  <2> QED
    BY <2>6 DEF PathsFollowParents, PathOf
<1>7. \A t \in Territories : node[t].state = "NONE" /\ t # edit[e].id => node'[t].state = "NONE"
  BY <1>4
<1> QED
  BY <1>4, <1>5, <1>6, <1>7, CommitKeepsEdits DEF TInv

LEMMA TreeInductive == TInv /\ [TreeNext]_treeVars => TInv'
<1> SUFFICES ASSUME TInv, [TreeNext]_treeVars PROVE TInv'
  OBVIOUS
<1>1. CASE UNCHANGED treeVars
  BY <1>1 DEF treeVars, TInv, Editing, EditTyped, MoveSound, CreatesNew, WouldCreateCycle,
              PathsEndInTheirNode, PathsFollowParents, Exists, PathOf
<1>2. ASSUME NEW e \in Editors, CommitEdit(e) PROVE TInv'
  <2>1. edit[e].kind \in {"CREATE", "MOVE", "REMOVE"}
    BY <1>2 DEF CommitEdit, TInv, EditTyped, EditKinds
  <2> QED
    BY <1>2, <2>1, CreationKeepsTree, MoveKeepsTree, RemovalKeepsTree
<1>3. ASSUME NEW e \in Editors, EditStep(e) \/ EndEdit(e) PROVE TInv'
  BY <1>2, <1>3, AsksKeepTree, FindKeepsTree, EndsKeepTree DEF EditStep
<1> QED
  BY <1>1, <1>3 DEF TreeNext

LEMMA TreeInvGives == TInv => TreeHolds
<1> SUFFICES ASSUME TInv PROVE TreeHolds
  OBVIOUS
<1>1. TreeTypeOK
  BY DEF TInv, TreeTypeOK, Node, Path, EditTyped
<1>2. ~misled => PathsFollowParents /\ ScopesAreSubtrees
  BY PrefixFindsSubtree DEF TInv
<1> QED
  BY <1>1, <1>2 DEF TInv, TreeHolds

(* The tree alone, as categories have it, whose edits drop no access:      *)
(* however they overlap, stop and fail, a path leads to the node that      *)
(* carries it, and unless one was committed on readings that held no       *)
(* longer, paths follow parents and prefixes find subtrees.                *)
THEOREM TreeAloneTheorem == TreeSpec => []TreeHolds
<1>1. TreeSpec => []TInv
  BY TreeInitially, TreeInductive, PTL DEF TreeSpec
<1> QED
  BY <1>1, TreeInvGives, PTL

(***************************************************************************)
(* Access                                                                  *)
(***************************************************************************)
InFlightUncrossed(a) == Changing(a) /\ change[a].step # "COMMITTED" /\ ~change[a].crossed

OthersRule ==
    abdicated \/ \A a \in Admins : InFlightUncrossed(a) /\ Withdraws(change[a]) =>
                     \E v \in Users \ {change[a].of} : Rules(v)

AInv ==
    /\ TInv
    /\ AccessTypeOK
    /\ DutiesAreSeparated
    /\ SomebodyRules
    /\ OthersRule
    /\ AccessIsCurrent

(* What is computed depends on the user's assignments, the roles, the tree.*)
LEMMA SameAccess ==
    ASSUME NEW u \in Users, role' = role, node' = node, user'[u].has = user[u].has
    PROVE  AccessOf(u)' = AccessOf(u)
BY DEF AccessOf, Counting, GrantedBy, Expand, SubtreeAt, Exists

LEMMA AccessTyped ==
    ASSUME AccessTypeOK, NEW u \in Users
    PROVE  AccessOf(u) \in EffectiveAccess
<1>1. Counting(u) \subseteq Assignments
  BY DEF AccessTypeOK, User, Counting
<1>2. ASSUME NEW h \in Counting(u) PROVE GrantedBy(h.role) \subseteq Permissions
  <2>1. h.role = SuperAdmin \/ h.role \in CustomRoles
    BY <1>1, <1>2, AccessAssumption DEF AccessAssumption
  <2> QED
    BY <2>1 DEF GrantedBy, AccessTypeOK, Role
<1>3. {h.root : h \in Counting(u)} \ {Everywhere} \subseteq Territories
  <2> SUFFICES ASSUME NEW h \in Counting(u), h.root # Everywhere PROVE h.root \in Territories
    OBVIOUS
  <2> QED
    BY <1>1, AccessAssumption DEF AccessAssumption
<1>4. Expand({h.root : h \in Counting(u)} \ {Everywhere}) \subseteq Territories
  BY <1>3 DEF Expand, SubtreeAt
<1>5. UNION {GrantedBy(h.role) : h \in Counting(u)} \subseteq Permissions
  BY <1>2
<1> QED
  BY <1>4, <1>5 DEF AccessOf, EffectiveAccess

LEMMA NothingIsSeparated == {} \in Grants
BY AccessAssumption DEF AccessAssumption, Grants

(***************************************************************************)
(* Types                                                                   *)
(***************************************************************************)
LEMMA DecidingTyped ==
    ASSUME AccessTypeOK, NEW a \in Admins, NEW c \in Change, Deciding(a, c)
    PROVE  AccessTypeOK'
BY DEF AccessTypeOK, Deciding

LEMMA AskTyped ==
    ASSUME AccessTypeOK, NEW a \in Admins,
           \/ \E u \in Users, has \in SUBSET Assignments : AskRoles(a, u, has)
           \/ \E u \in Users, status \in {"ACTIVE", "SUSPENDED", "DELETED"} :
                  AskStatus(a, u, status)
           \/ \E r \in CustomRoles, grants \in Grants : AskGrants(a, r, grants)
           \/ \E r \in CustomRoles : AskDrop(a, r)
    PROVE  AccessTypeOK' /\ \E c \in Change : c.step = "ASKED" /\ Deciding(a, c)
<1>1. ASSUME NEW c \in Change, c.step = "ASKED", Deciding(a, c)
      PROVE  AccessTypeOK' /\ \E d \in Change : d.step = "ASKED" /\ Deciding(a, d)
  BY <1>1, DecidingTyped
<1>2. ASSUME NEW u \in Users, NEW has \in SUBSET Assignments, AskRoles(a, u, has)
      PROVE  AccessTypeOK' /\ \E c \in Change : c.step = "ASKED" /\ Deciding(a, c)
  <2>1. NewChange("ROLES", u, has) \in Change /\ NewChange("ROLES", u, has).step = "ASKED"
    BY DEF NewChange, Change, UserChange, Steps
  <2> QED
    BY <1>1, <1>2, <2>1 DEF AskRoles
<1>3. ASSUME NEW u \in Users, NEW status \in {"ACTIVE", "SUSPENDED", "DELETED"},
             AskStatus(a, u, status)
      PROVE  AccessTypeOK' /\ \E c \in Change : c.step = "ASKED" /\ Deciding(a, c)
  <2>1. NewChange(status, u, {}) \in Change /\ NewChange(status, u, {}).step = "ASKED"
    BY DEF NewChange, Change, UserChange, Steps
  <2> QED
    BY <1>1, <1>3, <2>1 DEF AskStatus
<1>4. ASSUME NEW r \in CustomRoles, NEW grants \in Grants, AskGrants(a, r, grants)
      PROVE  AccessTypeOK' /\ \E c \in Change : c.step = "ASKED" /\ Deciding(a, c)
  <2>1. /\ NewChange("GRANTS", r, grants) \in Change
        /\ NewChange("GRANTS", r, grants).step = "ASKED"
    BY DEF NewChange, Change, RoleChange, Steps
  <2> QED
    BY <1>1, <1>4, <2>1 DEF AskGrants
<1>5. ASSUME NEW r \in CustomRoles, AskDrop(a, r)
      PROVE  AccessTypeOK' /\ \E c \in Change : c.step = "ASKED" /\ Deciding(a, c)
  <2>1. NewChange("DROP", r, {}) \in Change /\ NewChange("DROP", r, {}).step = "ASKED"
    BY NothingIsSeparated DEF NewChange, Change, RoleChange, Steps
  <2> QED
    BY <1>1, <1>5, <2>1 DEF AskDrop
<1> QED
  BY <1>2, <1>3, <1>4, <1>5

LEMMA ClearTyped ==
    ASSUME AccessTypeOK, NEW a \in Admins, ClearRows(a)
    PROVE  AccessTypeOK'
<1> DEFINE c == change[a]
           d == [c EXCEPT !.step = "CLEARED", !.saw = RowsOf(c)]
<1>1. c \in Change
  BY DEF ClearRows, AccessTypeOK, Changing
<1>2. d \in Change
  <2>1. CASE c.kind = "ROLES"
    <3>1. c \in UserChange
      BY <1>1, <2>1 DEF Change, RoleChange
    <3>2. RowsOf(c) \in SUBSET Assignments
      BY <2>1, <3>1 DEF RowsOf, AccessTypeOK, User, UserChange
    <3> QED
      BY <3>1, <3>2 DEF Change, UserChange, Steps
  <2>2. CASE c.kind = "GRANTS"
    <3>1. c \in RoleChange
      BY <1>1, <2>2 DEF Change, UserChange
    <3>2. RowsOf(c) \in SUBSET Permissions
      BY <2>2, <3>1 DEF RowsOf, AccessTypeOK, Role, RoleChange
    <3> QED
      BY <3>1, <3>2 DEF Change, RoleChange, Steps
  <2> QED
    BY <2>1, <2>2 DEF ClearRows, Replacing
<1>3. change' = [change EXCEPT ![a] = d]
  BY DEF ClearRows
<1> HIDE DEF d
<1> QED
  BY <1>2, <1>3 DEF ClearRows, AccessTypeOK

(* What a commit leaves of the changes in flight.                          *)
LEMMA OvertakingTyped ==
    ASSUME AccessTypeOK, NEW a \in Admins, Changing(a), NEW b \in Admins
    PROVE  Overtaking(a)[b] \in Change \cup {NoChange}
<1>1. change[a] \in Change /\ change[b] \in Change \cup {NoChange}
  BY DEF AccessTypeOK, Changing
<1>2. CASE b = a
  <2>1. [change[a] EXCEPT !.step = "COMMITTED"] \in Change
    BY <1>1 DEF Change, RoleChange, UserChange, Steps
  <2> QED
    BY <1>2, <2>1 DEF Overtaking
<1>3. CASE b # a /\ ~(~Changing(b) \/ change[b].step = "COMMITTED")
  <2> DEFINE x == change[b].crossed \/ (Withdraws(change[a]) /\ Rules(change[a].of) /\ Withdraws(change[b]))
             y == IF change[b].kind = change[a].kind /\ change[b].of = change[a].of
                  THEN change[b].saw \ change[a].saw ELSE change[b].saw
             d == [change[b] EXCEPT !.crossed = x, !.saw = y]
  <2>1. Overtaking(a)[b] = d
    BY <1>3 DEF Overtaking
  <2>2. change[b] \in Change
    BY <1>1, <1>3 DEF Changing
  <2>3. x \in BOOLEAN
    BY <2>2 DEF Change, RoleChange, UserChange, Withdraws, Rules
  <2> HIDE DEF x
  <2>4. CASE change[b] \in RoleChange
    <3>1. y \in SUBSET Permissions
      BY <2>4 DEF RoleChange
    <3> HIDE DEF y
    <3>2. d \in RoleChange
      BY <2>3, <2>4, <3>1 DEF RoleChange
    <3> QED
      BY <2>1, <3>2 DEF Change
  <2>5. CASE change[b] \in UserChange
    <3>1. y \in SUBSET Assignments
      BY <2>5 DEF UserChange
    <3> HIDE DEF y
    <3>2. d \in UserChange
      BY <2>3, <2>5, <3>1 DEF UserChange
    <3> QED
      BY <2>1, <3>2 DEF Change
  <2> QED
    BY <2>2, <2>4, <2>5 DEF Change
<1>4. CASE b # a /\ (~Changing(b) \/ change[b].step = "COMMITTED")
  BY <1>1, <1>4 DEF Overtaking
<1> QED
  BY <1>2, <1>3, <1>4

LEMMA CommitTyped ==
    ASSUME AccessTypeOK, NEW a \in Admins, CommitChange(a)
    PROVE  AccessTypeOK'
<1> DEFINE c == change[a]
           rows == Survivors(c) \cup c.rows
<1>1. c \in Change /\ Changing(a) /\ Appliable(c)
  BY DEF CommitChange, AccessTypeOK, Changing
<1>2. change' \in [Admins -> Change \cup {NoChange}]
  <2>1. change' = Overtaking(a)
    BY DEF CommitChange
  <2>2. \A b \in Admins : Overtaking(a)[b] \in Change \cup {NoChange}
    BY <1>1, OvertakingTyped
  <2>3. Overtaking(a) = [b \in Admins |-> Overtaking(a)[b]]
    BY DEF Overtaking
  <2> QED
    BY <2>1, <2>2, <2>3
<1>3. /\ merged' \subseteq CustomRoles /\ abdicated' \in BOOLEAN /\ excused' \subseteq Users
      /\ UNCHANGED <<cached, lookup>>
  BY <1>1 DEF CommitChange, AccessTypeOK, Change, RoleChange, UserChange, NobodyDrops
<1>4. CASE c.kind = "GRANTS"
  <2>1. c \in RoleChange
    BY <1>1, <1>4 DEF Change, UserChange
  <2>2. rows \in SUBSET Permissions
    BY <1>4, <2>1 DEF Survivors, RowsOf, AccessTypeOK, Role, RoleChange, Grants
  <2>3. role' = [role EXCEPT ![c.of].grants = rows] /\ user' = user
    BY <1>4 DEF CommitChange
  <2> HIDE DEF rows
  <2>4. role' \in [CustomRoles -> Role]
    BY <2>1, <2>2, <2>3 DEF AccessTypeOK, Role, RoleChange
  <2> QED
    BY <1>2, <1>3, <2>3, <2>4 DEF AccessTypeOK
<1>5. CASE c.kind = "DROP"
  <2>1. role' = [role EXCEPT ![c.of].gone = TRUE] /\ user' = user
    BY <1>5 DEF CommitChange
  <2>2. role' \in [CustomRoles -> Role]
    BY <2>1 DEF AccessTypeOK, Role
  <2> QED
    BY <1>2, <1>3, <2>1, <2>2 DEF AccessTypeOK
<1>6. CASE c.kind = "ROLES"
  <2>1. c \in UserChange
    BY <1>1, <1>6 DEF Change, RoleChange
  <2>2. rows \in SUBSET Assignments
    BY <1>6, <2>1 DEF Survivors, RowsOf, AccessTypeOK, User, UserChange
  <2>3. user' = [user EXCEPT ![c.of].has = rows] /\ role' = role
    BY <1>6 DEF CommitChange
  <2> HIDE DEF rows
  <2>4. user' \in [Users -> User]
    BY <2>1, <2>2, <2>3 DEF AccessTypeOK, User, UserChange
  <2> QED
    BY <1>2, <1>3, <2>3, <2>4 DEF AccessTypeOK
<1>7. CASE c.kind \notin {"GRANTS", "DROP", "ROLES"}
  <2>1. c.kind \in {"ACTIVE", "SUSPENDED", "DELETED"}
    BY <1>1, <1>7 DEF Change, RoleChange, UserChange
  <2>2. user' = [user EXCEPT ![c.of].status = c.kind] /\ role' = role
    BY <1>7 DEF CommitChange
  <2>3. user \in [Users -> User]
    BY DEF AccessTypeOK
  <2>4. PICK row : c.of \in Users => row = [user[c.of] EXCEPT !.status = c.kind]
    OBVIOUS
  <2>5. c.of \in Users => row \in User
    BY <2>1, <2>3, <2>4 DEF User
  <2>6. user' \in [Users -> User]
    BY <2>2, <2>3, <2>4, <2>5
  <2> QED
    BY <1>2, <1>3, <2>2, <2>6 DEF AccessTypeOK
<1> QED
  BY <1>4, <1>5, <1>6, <1>7

LEMMA CacheTyped ==
    ASSUME AccessTypeOK, CacheStep
    PROVE  AccessTypeOK'
<1>1. ASSUME NEW l \in Lookups, NEW u \in Users, Compute(l, u) PROVE AccessTypeOK'
  <2>1. AccessOf(u) \in EffectiveAccess
    BY AccessTyped
  <2> QED
    BY <1>1, <2>1 DEF Compute, AccessTypeOK
<1>2. ASSUME NEW l \in Lookups, Store(l) PROVE AccessTypeOK'
  <2>1. lookup[l] \in [of : Users, access : EffectiveAccess]
    BY <1>2 DEF Store, AccessTypeOK
  <2>2. excused' \subseteq Users
    BY <1>2, <2>1 DEF Store, AccessTypeOK
  <2> QED
    BY <1>2, <2>1, <2>2 DEF Store, AccessTypeOK
<1>3. ASSUME NEW u \in Users, LapseCached(u) PROVE AccessTypeOK'
  BY <1>3 DEF LapseCached, Drops, AccessTypeOK
<1> QED
  BY <1>1, <1>2, <1>3 DEF CacheStep

LEMMA EndsTyped ==
    ASSUME AccessTypeOK,
           \/ \E a \in Admins : DropChange(a) \/ EndChange(a)
           \/ \E e \in Editors : EditTree(e) \/ EndTree(e)
    PROVE  AccessTypeOK'
<1>1. ASSUME NEW a \in Admins, DropChange(a) PROVE AccessTypeOK'
  BY <1>1 DEF DropChange, AccessTypeOK
<1>2. ASSUME NEW a \in Admins, EndChange(a) PROVE AccessTypeOK'
  <2>1. cached' \in [Users -> EffectiveAccess \cup {NotCached}] /\ excused' \subseteq Users
    BY <1>2 DEF EndChange, Drops, NotInvalidated, NobodyDrops, AccessTypeOK
  <2> QED
    BY <1>2, <2>1 DEF EndChange, AccessTypeOK
<1>3. ASSUME NEW e \in Editors, EditTree(e) PROVE AccessTypeOK'
  BY <1>3 DEF EditTree, NobodyDrops, AccessTypeOK
<1>4. ASSUME NEW e \in Editors, EndTree(e) PROVE AccessTypeOK'
  <2>1. cached' \in [Users -> EffectiveAccess \cup {NotCached}] /\ excused' \subseteq Users
    BY <1>4 DEF EndTree, Drops, NotInvalidated, NobodyDrops, AccessTypeOK
  <2> QED
    BY <1>4, <2>1 DEF EndTree, AccessTypeOK
<1> QED
  BY <1>1, <1>2, <1>3, <1>4

(***************************************************************************)
(* Edits of the tree                                                       *)
(***************************************************************************)
(* An edit whose commit has changed a node is there to drop what is cached *)
(* or was a creation; no other is put in its state or out of it.           *)
LEMMA EditSteps ==
    ASSUME TInv, NEW e \in Editors, EditStep(e)
    PROVE  /\ \A f \in Editors : At(f, "COMMITTED") => At(f, "COMMITTED")'
           /\ node' # node /\ edit'[e] # NoEdit => At(e, "COMMITTED")'
<1>1. ASSUME NEW f \in Editors \ {e} PROVE edit'[f] = edit[f]
  BY DEF TInv, EditStep, AskCreate, AskMove, AskRemove, Begin, FindSubtree, CommitEdit, DropEdit
<1>2. CASE CommitEdit(e)
  <2>1. EditTyped(edit[e]) /\ edit[e].step # "COMMITTED"
    BY <1>2 DEF CommitEdit, Writable, TInv, EditTyped, EditKinds
  <2>2. edit'[e] = IF edit[e].kind = "CREATE" THEN NoEdit
                   ELSE [edit[e] EXCEPT !.step = "COMMITTED"]
    BY <1>2 DEF CommitEdit, TInv
  <2>3. edit'[e] # NoEdit => edit'[e].step = "COMMITTED"
    BY <2>1, <2>2 DEF EditTyped, Fields
  <2> QED
    BY <1>1, <2>1, <2>3 DEF At, Editing
<1>3. CASE ~CommitEdit(e)
  <2>1. node' = node /\ (Editing(e) => edit[e].step # "COMMITTED")
    BY <1>3 DEF EditStep, AskCreate, AskMove, AskRemove, Begin, FindSubtree, DropEdit, At
  <2> QED
    BY <1>1, <2>1 DEF At, Editing
<1> QED
  BY <1>2, <1>3

(***************************************************************************)
(* Somebody rules                                                          *)
(***************************************************************************)
LEMMA CrossedIsBoolean ==
    ASSUME AccessTypeOK, NEW a \in Admins, Changing(a)
    PROVE  /\ change[a].crossed \in BOOLEAN
           /\ change[a].kind \in {"GRANTS", "DROP", "ROLES", "ACTIVE", "SUSPENDED", "DELETED"}
           /\ change[a].kind \in {"GRANTS", "DROP"} <=> change[a] \in RoleChange
           /\ "step" \in DOMAIN change[a] /\ "crossed" \in DOMAIN change[a]
BY DEF AccessTypeOK, Changing, Change, RoleChange, UserChange

(* A commit takes away nobody but the one it withdraws.                    *)
LEMMA RulesKept ==
    ASSUME AccessTypeOK, NEW a \in Admins, CommitChange(a), NEW v \in Users, Rules(v),
           Withdraws(change[a]) => v # change[a].of
    PROVE  Rules(v)'
<1> DEFINE c == change[a]
           rows == Survivors(c) \cup c.rows
<1>1. c \in Change /\ Changing(a)
  BY DEF CommitChange, AccessTypeOK, Changing
<1>2. CASE c.kind \in {"GRANTS", "DROP"}
  <2>1. user' = user
    BY <1>2 DEF CommitChange
  <2> QED
    BY <2>1 DEF Rules, IsSuper
<1>3. CASE c.kind = "ROLES"
  <2>1. user' = [user EXCEPT ![c.of].has = rows]
    BY <1>3 DEF CommitChange
  <2>2. v = c.of => \E h \in rows : h.role = SuperAdmin
    BY <1>3 DEF Withdraws
  <2> HIDE DEF rows
  <2> QED
    BY <2>1, <2>2 DEF Rules, IsSuper, AccessTypeOK, User
<1>4. CASE c.kind = "ACTIVE"
  <2>1. user' = [user EXCEPT ![c.of].status = "ACTIVE"]
    BY <1>4 DEF CommitChange
  <2> QED
    BY <2>1 DEF Rules, IsSuper, AccessTypeOK, User
<1>5. CASE c.kind \in {"SUSPENDED", "DELETED"}
  <2>1. user' = [user EXCEPT ![c.of].status = c.kind] /\ v # c.of
    BY <1>5 DEF CommitChange, Withdraws
  <2> QED
    BY <2>1 DEF Rules, IsSuper, AccessTypeOK, User
<1> QED
  BY <1>1, <1>2, <1>3, <1>4, <1>5, CrossedIsBoolean

LEMMA CommitLeavesARuler ==
    ASSUME AccessTypeOK, SomebodyRules, OthersRule, NEW a \in Admins, CommitChange(a)
    PROVE  SomebodyRules' /\ OthersRule'
<1> DEFINE c == change[a]
<1>1. c \in Change /\ Changing(a) /\ c.step # "COMMITTED" /\ abdicated \in BOOLEAN
  BY DEF CommitChange, AccessTypeOK, Changing, Appliable
<1>2. abdicated' = (abdicated \/ c.crossed) /\ change' = Overtaking(a)
  BY DEF CommitChange
<1>3. CASE abdicated'
  BY <1>3 DEF SomebodyRules, OthersRule
<1>4. CASE ~abdicated'
  <2>1. ~abdicated /\ ~c.crossed
    BY <1>1, <1>2, <1>4, CrossedIsBoolean
  <2>2. \E v \in Users : Rules(v)'
    <3>1. CASE Withdraws(c)
      <4>1. \E v \in Users \ {c.of} : Rules(v)
        BY <1>1, <2>1, <3>1 DEF OthersRule, InFlightUncrossed
      <4> QED
        BY <4>1, RulesKept
    <3>2. CASE ~Withdraws(c)
      BY <2>1, <3>2, RulesKept DEF SomebodyRules
    <3> QED
      BY <3>1, <3>2
  <2>3. ASSUME NEW b \in Admins, InFlightUncrossed(b)', Withdraws(change[b])'
        PROVE  \E v \in Users \ {change'[b].of} : Rules(v)'
    <3>1. change'[b] = Overtaking(a)[b]
      BY <1>2
    <3>2. b # a
      BY <1>1, <2>3, <3>1, CrossedIsBoolean DEF InFlightUncrossed, Changing, Overtaking
    <3>3. Changing(b) /\ change[b].step # "COMMITTED"
      BY <2>3, <3>1, <3>2 DEF InFlightUncrossed, Changing, Overtaking
    <3>4. change[b] \in Change
      BY <3>3 DEF AccessTypeOK, Changing
    <3>5. /\ change'[b].kind = change[b].kind /\ change'[b].of = change[b].of
          /\ change'[b].rows = change[b].rows
          /\ change'[b].crossed = (change[b].crossed \/
                 (Withdraws(c) /\ Rules(c.of) /\ Withdraws(change[b])))
      BY <3>1, <3>2, <3>3, <3>4 DEF Overtaking, Change, RoleChange, UserChange
    <3>6. Withdraws(change[b])
      BY <2>3, <3>5 DEF Withdraws
    <3>7. ~change[b].crossed /\ ~(Withdraws(c) /\ Rules(c.of))
      BY <2>3, <3>3, <3>5, <3>6, CrossedIsBoolean DEF InFlightUncrossed
    <3>8. PICK v \in Users \ {change[b].of} : Rules(v)
      BY <2>1, <3>3, <3>6, <3>7 DEF OthersRule, InFlightUncrossed
    <3>9. Withdraws(c) => v # c.of
      BY <3>7, <3>8
    <3> QED
      BY <3>5, <3>8, <3>9, RulesKept
  <2> QED
    BY <2>2, <2>3 DEF SomebodyRules, OthersRule
<1> QED
  BY <1>3, <1>4

(* A withdrawal is asked for only where another rules.                     *)
LEMMA AskLeavesARuler ==
    ASSUME AccessTypeOK, SomebodyRules, OthersRule, NEW a \in Admins,
           \/ \E u \in Users, has \in SUBSET Assignments : AskRoles(a, u, has)
           \/ \E u \in Users, status \in {"ACTIVE", "SUSPENDED", "DELETED"} :
                  AskStatus(a, u, status)
           \/ \E r \in CustomRoles, grants \in Grants : AskGrants(a, r, grants)
           \/ \E r \in CustomRoles : AskDrop(a, r)
    PROVE  SomebodyRules' /\ OthersRule'
<1>1. ASSUME NEW c, Deciding(a, c),
             Withdraws(c) => abdicated \/ \E v \in Users \ {c.of} : Rules(v)
      PROVE  SomebodyRules' /\ OthersRule'
  <2>1. /\ change' = [change EXCEPT ![a] = c] /\ user' = user /\ abdicated' = abdicated
        /\ change \in [Admins -> Change \cup {NoChange}]
    BY <1>1 DEF Deciding, AccessTypeOK
  <2>2. \A v \in Users : Rules(v)' = Rules(v)
    BY <2>1 DEF Rules, IsSuper
  <2>3. ASSUME NEW b \in Admins, InFlightUncrossed(b)', Withdraws(change[b])', ~abdicated
        PROVE  \E v \in Users \ {change'[b].of} : Rules(v)'
    <3>1. CASE b = a
      BY <1>1, <2>1, <2>2, <2>3, <3>1 DEF Withdraws
    <3>2. CASE b # a
      <4>1. change'[b] = change[b]
        BY <2>1, <3>2
      <4> QED
        BY <2>2, <2>3, <4>1 DEF OthersRule, InFlightUncrossed, Changing, Withdraws
    <3> QED
      BY <3>1, <3>2
  <2> QED
    BY <2>1, <2>2, <2>3 DEF SomebodyRules, OthersRule
<1>2. ASSUME NEW u \in Users, NEW has, AnotherRules(u, has), ~(\E h \in has : h.role = SuperAdmin)
      PROVE  abdicated \/ \E v \in Users \ {u} : Rules(v)
  BY <1>2 DEF AnotherRules, SomebodyRules, Rules
<1>3. ASSUME NEW u \in Users, NEW has \in SUBSET Assignments, AskRoles(a, u, has)
      PROVE  SomebodyRules' /\ OthersRule'
  BY <1>1, <1>2, <1>3 DEF AskRoles, NewChange, Withdraws
<1>4. ASSUME NEW u \in Users, NEW status \in {"ACTIVE", "SUSPENDED", "DELETED"},
             AskStatus(a, u, status)
      PROVE  SomebodyRules' /\ OthersRule'
  <2>1. status # "ACTIVE" => abdicated \/ \E v \in Users \ {u} : Rules(v)
    BY <1>2, <1>4 DEF AskStatus
  <2>2. /\ Withdraws(NewChange(status, u, {})) => status # "ACTIVE"
        /\ NewChange(status, u, {}).of = u
    BY DEF NewChange, Withdraws
  <2>3. Deciding(a, NewChange(status, u, {}))
    BY <1>4 DEF AskStatus
  <2> QED
    BY <1>1, <2>1, <2>2, <2>3
<1>5. ASSUME NEW r \in CustomRoles, NEW grants \in Grants, AskGrants(a, r, grants)
      PROVE  SomebodyRules' /\ OthersRule'
  BY <1>1, <1>5 DEF AskGrants, NewChange, Withdraws
<1>6. ASSUME NEW r \in CustomRoles, AskDrop(a, r)
      PROVE  SomebodyRules' /\ OthersRule'
  BY <1>1, <1>6 DEF AskDrop, NewChange, Withdraws
<1> QED
  BY <1>3, <1>4, <1>5, <1>6

LEMMA ClearLeavesARuler ==
    ASSUME AccessTypeOK, SomebodyRules, OthersRule, NEW a \in Admins,
           ClearRows(a) \/ DropChange(a) \/ EndChange(a)
    PROVE  SomebodyRules' /\ OthersRule'
<1>1. user' = user /\ abdicated' = abdicated
  BY DEF ClearRows, DropChange, EndChange
<1>2. \A v \in Users : Rules(v)' = Rules(v)
  BY <1>1 DEF Rules, IsSuper
<1>3. \A b \in Admins \ {a} : change'[b] = change[b]
  BY DEF ClearRows, DropChange, EndChange, AccessTypeOK
<1>4. CASE ClearRows(a)
  <2>1. change[a] \in Change /\ change[a].step = "ASKED"
    BY <1>4 DEF ClearRows, AccessTypeOK, Changing
  <2>2. /\ change'[a].kind = change[a].kind /\ change'[a].of = change[a].of
        /\ change'[a].rows = change[a].rows /\ change'[a].crossed = change[a].crossed
    BY <1>4, <2>1 DEF ClearRows, AccessTypeOK, Change, RoleChange, UserChange
  <2>3. ASSUME NEW b \in Admins, InFlightUncrossed(b)', Withdraws(change[b])'
        PROVE  InFlightUncrossed(b) /\ Withdraws(change[b]) /\ change'[b].of = change[b].of
    <3>1. CASE b = a
      BY <1>4, <2>1, <2>2, <2>3, <3>1 DEF InFlightUncrossed, Withdraws, ClearRows
    <3>2. CASE b # a
      BY <1>3, <2>3, <3>2 DEF InFlightUncrossed, Withdraws, Changing
    <3> QED
      BY <3>1, <3>2
  <2> QED
    BY <1>1, <1>2, <2>3 DEF SomebodyRules, OthersRule
<1>5. CASE DropChange(a) \/ EndChange(a)
  <2>1. ~Changing(a)'
    BY <1>5 DEF DropChange, EndChange, Changing, AccessTypeOK
  <2>2. ASSUME NEW b \in Admins, InFlightUncrossed(b)', Withdraws(change[b])'
        PROVE  InFlightUncrossed(b) /\ Withdraws(change[b]) /\ change'[b].of = change[b].of
    BY <1>3, <2>1, <2>2 DEF InFlightUncrossed, Withdraws, Changing
  <2> QED
    BY <1>1, <1>2, <2>2 DEF SomebodyRules, OthersRule
<1> QED
  BY <1>4, <1>5

(***************************************************************************)
(* The duties are separated                                                *)
(***************************************************************************)
LEMMA CommitSeparates ==
    ASSUME AccessTypeOK, DutiesAreSeparated, NEW a \in Admins, CommitChange(a)
    PROVE  DutiesAreSeparated'
<1> DEFINE c == change[a]
           rows == Survivors(c) \cup c.rows
<1>1. c \in Change
  BY DEF CommitChange, AccessTypeOK, Changing
<1>2. CASE c.kind = "GRANTS"
  <2>1. c \in RoleChange
    BY <1>1, <1>2 DEF Change, UserChange
  <2>2. role' = [role EXCEPT ![c.of].grants = rows]
    BY <1>2 DEF CommitChange
  <2>3. merged' = IF Survivors(c) # {} THEN merged \cup {c.of} ELSE merged
    BY <1>2 DEF CommitChange
  <2>4. Survivors(c) = {} => \A pair \in Separated : ~(pair \subseteq rows)
    BY <2>1 DEF RoleChange, Grants
  <2> HIDE DEF rows
  <2> QED
    BY <2>1, <2>2, <2>3, <2>4 DEF DutiesAreSeparated, AccessTypeOK, Role, RoleChange
<1>3. CASE c.kind # "GRANTS"
  <2>1. merged' = merged /\ \A r \in CustomRoles : role'[r].grants = role[r].grants
    <3>1. CASE c.kind = "DROP"
      <4>1. role' = [role EXCEPT ![c.of].gone = TRUE] /\ merged' = merged
        BY <3>1 DEF CommitChange
      <4> QED
        BY <4>1 DEF AccessTypeOK, Role
    <3>2. CASE c.kind # "DROP"
      <4>1. role' = role /\ merged' = merged
        BY <1>3, <3>2 DEF CommitChange
      <4> QED
        BY <4>1
    <3> QED
      BY <3>1, <3>2
  <2> QED
    BY <2>1 DEF DutiesAreSeparated
<1> QED
  BY <1>2, <1>3

(***************************************************************************)
(* What is cached is current                                               *)
(***************************************************************************)
(* A step that changes nothing an access is computed from, caches nothing  *)
(* and ends nobody's dropping.                                             *)
LEMMA StaysCurrent ==
    ASSUME AccessIsCurrent, NEW u \in Users, u \notin excused,
           role' = role, node' = node, user'[u].has = user[u].has,
           cached'[u] \in {cached[u], NotCached},
           WillDrop(u) => WillDrop(u)'
    PROVE  Outdated(u)' => WillDrop(u)'
<1>1. AccessOf(u)' = AccessOf(u)
  BY SameAccess
<1>2. Outdated(u)' => Outdated(u)
  BY <1>1 DEF Outdated, IsCached
<1> QED
  BY <1>2 DEF AccessIsCurrent

LEMMA NobodyDropsCurrent ==
    ASSUME NobodyDrops PROVE AccessIsCurrent'
BY DEF NobodyDrops, AccessIsCurrent

(* Changes of others keep what they are about to drop.                     *)
LEMMA OthersDrop ==
    ASSUME AccessTypeOK, NEW a \in Admins, NEW u \in Users, UNCHANGED treeVars,
           ~(Changing(a) /\ change[a].step = "COMMITTED" /\ u \in Affected(change[a])),
           \A b \in Admins \ {a} : Changing(b) /\ change[b].step = "COMMITTED" =>
                                       change'[b] = change[b]
    PROVE  WillDrop(u) => WillDrop(u)'
<1>1. ASSUME NEW b \in Admins, Changing(b), change[b].step = "COMMITTED", u \in Affected(change[b])
      PROVE  WillDrop(u)'
  <2>1. change'[b] = change[b]
    BY <1>1
  <2> QED
    BY <1>1, <2>1 DEF WillDrop, Changing, Affected
<1>2. ASSUME NEW e \in Editors, At(e, "COMMITTED") PROVE WillDrop(u)'
  BY <1>2 DEF WillDrop, At, Editing, treeVars
<1> QED
  BY <1>1, <1>2 DEF WillDrop

LEMMA AskCurrent ==
    ASSUME AccessTypeOK, AccessIsCurrent, UNCHANGED treeVars, NEW a \in Admins,
           (\E c : Deciding(a, c)) \/ ClearRows(a) \/ DropChange(a)
    PROVE  AccessIsCurrent'
<1>1. /\ role' = role /\ user' = user /\ cached' = cached /\ excused' = excused
      /\ \A b \in Admins \ {a} : change'[b] = change[b]
      /\ ~(Changing(a) /\ change[a].step = "COMMITTED")
  BY DEF Deciding, ClearRows, DropChange, AccessTypeOK
<1>2. \A u \in Users \ excused : Outdated(u)' => WillDrop(u)'
  BY <1>1, OthersDrop, StaysCurrent DEF treeVars
<1> QED
  BY <1>1, <1>2 DEF AccessIsCurrent

LEMMA CommitCurrent ==
    ASSUME AccessTypeOK, AccessIsCurrent, UNCHANGED treeVars, NEW a \in Admins, CommitChange(a)
    PROVE  AccessIsCurrent'
<1> DEFINE c == change[a]
<1>1. /\ c \in Change /\ Changing(a) /\ c.step # "COMMITTED"
      /\ cached' = cached /\ node' = node /\ change' = Overtaking(a)
  BY DEF CommitChange, AccessTypeOK, Changing, Appliable, treeVars
<1>2. \A b \in Admins \ {a} : Changing(b) /\ change[b].step = "COMMITTED" => change'[b] = change[b]
  BY <1>1 DEF Overtaking
<1>3. CASE c.kind = "DROP"
  BY <1>3, NobodyDropsCurrent DEF CommitChange
<1>4. CASE c.kind # "DROP"
  <2>1. excused' = excused
    BY <1>4 DEF CommitChange
  <2>2. change'[a] = [c EXCEPT !.step = "COMMITTED"]
    BY <1>1, <1>4 DEF Overtaking
  <2>3. /\ change'[a].step = "COMMITTED" /\ change'[a].kind = c.kind /\ change'[a].of = c.of
        /\ change'[a] \in Change
    BY <1>1, <2>2 DEF Change, RoleChange, UserChange, Steps
  <2>4. \A u \in Users : u \in Affected(c) => WillDrop(u)'
    BY <2>3, NoChangeAssumption DEF WillDrop, Changing, Affected
  <2>5. ASSUME NEW u \in Users \ excused, u \notin Affected(c) PROVE Outdated(u)' => WillDrop(u)'
    <3>1. c.kind # "GRANTS" /\ u # c.of
      BY <2>5 DEF Affected
    <3>2. role' = role
      BY <1>4, <3>1 DEF CommitChange
    <3>3. user'[u].has = user[u].has
      <4>1. CASE c.kind = "ROLES"
        BY <3>1, <4>1 DEF CommitChange, AccessTypeOK
      <4>2. CASE c.kind # "ROLES"
        BY <1>4, <3>1, <4>2 DEF CommitChange, AccessTypeOK
      <4> QED
        BY <4>1, <4>2
    <3>4. WillDrop(u) => WillDrop(u)'
      BY <1>1, <1>2, OthersDrop
    <3> QED
      BY <1>1, <3>2, <3>3, <3>4, StaysCurrent
  <2> QED
    BY <2>1, <2>4, <2>5 DEF AccessIsCurrent
<1> QED
  BY <1>3, <1>4

LEMMA EndCurrent ==
    ASSUME AccessTypeOK, AccessIsCurrent, UNCHANGED treeVars, NEW a \in Admins, EndChange(a)
    PROVE  AccessIsCurrent'
<1>1. CASE NotInvalidated
  BY <1>1, NobodyDropsCurrent DEF NotInvalidated
<1>2. CASE Drops(Affected(change[a]))
  <2>1. /\ role' = role /\ user' = user /\ node' = node
        /\ \A b \in Admins \ {a} : change'[b] = change[b]
    BY DEF EndChange, AccessTypeOK, treeVars
  <2>2. ASSUME NEW u \in Users, u \notin excused', Outdated(u)' PROVE WillDrop(u)'
    <3>1. u \notin Affected(change[a]) /\ cached'[u] = cached[u]
      BY <1>2, <2>2 DEF Drops, Outdated, IsCached
    <3>2. u \notin excused
      BY <1>2, <2>2, <3>1 DEF Drops
    <3>3. WillDrop(u) => WillDrop(u)'
      BY <2>1, <3>1, OthersDrop
    <3> QED
      BY <2>1, <2>2, <3>1, <3>2, <3>3, StaysCurrent
  <2> QED
    BY <2>2 DEF AccessIsCurrent
<1> QED
  BY <1>1, <1>2 DEF EndChange

LEMMA CacheCurrent ==
    ASSUME AccessTypeOK, AccessIsCurrent, UNCHANGED treeVars, CacheStep
    PROVE  AccessIsCurrent'
<1>1. role' = role /\ user' = user /\ node' = node /\ change' = change /\ edit' = edit
  BY DEF CacheStep, Compute, Store, LapseCached, treeVars
<1>2. \A u \in Users : WillDrop(u) => WillDrop(u)'
  BY <1>1 DEF WillDrop, Changing, At, Editing
<1>3. \A u \in Users \ excused : cached'[u] \in {cached[u], NotCached} =>
                                    (Outdated(u)' => WillDrop(u)')
  BY <1>1, <1>2, StaysCurrent
<1>4. ASSUME NEW l \in Lookups, NEW u \in Users, Compute(l, u) PROVE AccessIsCurrent'
  BY <1>3, <1>4 DEF Compute, AccessIsCurrent
<1>5. ASSUME NEW l \in Lookups, Store(l) PROVE AccessIsCurrent'
  <2>0. PICK v \in Users : v = lookup[l].of
    BY <1>5 DEF Store, AccessTypeOK
  <2>1. /\ cached'[v] = lookup[l].access
        /\ lookup[l].access = AccessOf(v) \/ v \in excused'
        /\ \A u \in Users \ {v} : cached'[u] = cached[u] /\ (u \in excused <=> u \in excused')
    BY <1>5, <2>0 DEF Store, AccessTypeOK
  <2>2. AccessOf(v)' = AccessOf(v)
    <3>1. user'[v].has = user[v].has
      BY <1>1
    <3> QED
      BY <1>1, <2>1, <3>1, SameAccess
  <2>3. ASSUME NEW u \in Users, u \notin excused' PROVE Outdated(u)' => WillDrop(u)'
    <3>1. CASE u = v
      BY <2>1, <2>2, <2>3, <3>1 DEF Outdated
    <3>2. CASE u # v
      BY <1>3, <2>1, <2>3, <3>2
    <3> QED
      BY <3>1, <3>2
  <2> QED
    BY <2>3 DEF AccessIsCurrent
<1>6. ASSUME NEW v \in Users, LapseCached(v) PROVE AccessIsCurrent'
  <2>1. ASSUME NEW u \in Users, u \notin excused' PROVE Outdated(u)' => WillDrop(u)'
    <3>1. CASE u = v
      BY <1>6, <3>1 DEF LapseCached, Drops, Outdated, IsCached
    <3>2. CASE u # v
      BY <1>3, <1>6, <2>1, <3>2 DEF LapseCached, Drops
    <3> QED
      BY <3>1, <3>2
  <2> QED
    BY <2>1 DEF AccessIsCurrent
<1> QED
  BY <1>4, <1>5, <1>6 DEF CacheStep

LEMMA TreeCurrent ==
    ASSUME AccessTypeOK, TInv, AccessIsCurrent, NEW e \in Editors,
           EditTree(e) \/ EndTree(e)
    PROVE  AccessIsCurrent'
<1>1. CASE EditTree(e)
  <2>1. CASE node' # node /\ edit'[e] = NoEdit
    BY <1>1, <2>1, NobodyDropsCurrent DEF EditTree
  <2>2. CASE node' # node /\ edit'[e] # NoEdit
    <3>1. At(e, "COMMITTED")'
      BY <1>1, <2>2, EditSteps DEF EditTree
    <3> QED
      BY <3>1 DEF AccessIsCurrent, WillDrop
  <2>3. CASE node' = node
    <3>1. /\ role' = role /\ user' = user /\ cached' = cached /\ change' = change
          /\ excused' = excused
      BY <1>1, <2>3 DEF EditTree
    <3>2. \A f \in Editors : At(f, "COMMITTED") => At(f, "COMMITTED")'
      BY <1>1, EditSteps DEF EditTree
    <3>3. \A u \in Users : WillDrop(u) => WillDrop(u)'
      BY <3>1, <3>2 DEF WillDrop, Changing
    <3> QED
      BY <2>3, <3>1, <3>3, StaysCurrent DEF AccessIsCurrent
  <2> QED
    BY <2>1, <2>2, <2>3
<1>2. CASE EndTree(e)
  <2>1. CASE NotInvalidated
    BY <2>1, NobodyDropsCurrent DEF NotInvalidated
  <2>2. CASE Drops(Users)
    BY <2>2 DEF Drops, AccessIsCurrent, Outdated, IsCached
  <2> QED
    BY <1>2, <2>1, <2>2 DEF EndTree
<1> QED
  BY <1>1, <1>2

(***************************************************************************)
(* The invariant                                                           *)
(***************************************************************************)
LEMMA AccessInitially == TreeInit /\ AccessInit => AInv
<1> SUFFICES ASSUME TreeInit, AccessInit PROVE AInv
  OBVIOUS
<1>1. TInv
  BY TreeInitially
<1>2. AccessTypeOK
  <2>1. role \in [CustomRoles -> Role]
    BY DEF AccessInit, Role, Grants
  <2>2. user \in [Users -> User]
    BY DEF AccessInit, User
  <2> QED
    BY <2>1, <2>2 DEF AccessInit, AccessTypeOK
<1>3. DutiesAreSeparated
  BY DEF AccessInit, DutiesAreSeparated, Grants
<1>4. SomebodyRules /\ OthersRule
  BY DEF AccessInit, SomebodyRules, OthersRule, InFlightUncrossed, Changing
<1>5. AccessIsCurrent
  BY DEF AccessInit, AccessIsCurrent, Outdated, IsCached
<1> QED
  BY <1>1, <1>2, <1>3, <1>4, <1>5 DEF AInv

LEMMA AccessInductive == AInv /\ [AccessNext]_allVars => AInv'
<1> SUFFICES ASSUME AInv, [AccessNext]_allVars PROVE AInv'
  OBVIOUS
<1> USE DEF AInv
<1>1. ASSUME UNCHANGED treeVars PROVE TInv'
  BY <1>1, TreeInductive
<1>2. ASSUME role' = role, merged' = merged PROVE DutiesAreSeparated'
  BY <1>2 DEF DutiesAreSeparated
<1>3. ASSUME user' = user, change' = change, abdicated' = abdicated PROVE SomebodyRules' /\ OthersRule'
  BY <1>3 DEF SomebodyRules, OthersRule, InFlightUncrossed, Changing, Rules, IsSuper, Withdraws
<1>4. CASE UNCHANGED treeVars /\ CacheStep
  <2>1. role' = role /\ merged' = merged /\ user' = user /\ change' = change /\ abdicated' = abdicated
    BY <1>4 DEF CacheStep, Compute, Store, LapseCached
  <2> QED
    BY <1>1, <1>2, <1>3, <1>4, <2>1, CacheTyped, CacheCurrent
<1>5. ASSUME UNCHANGED treeVars, NEW a \in Admins, ChangeStep(a) PROVE AInv'
  <2>1. CASE \/ \E u \in Users, has \in SUBSET Assignments : AskRoles(a, u, has)
             \/ \E u \in Users, status \in {"ACTIVE", "SUSPENDED", "DELETED"} :
                    AskStatus(a, u, status)
             \/ \E r \in CustomRoles, grants \in Grants : AskGrants(a, r, grants)
             \/ \E r \in CustomRoles : AskDrop(a, r)
    <3>1. PICK c \in Change : Deciding(a, c)
      BY <2>1, AskTyped
    <3>2. AccessTypeOK' /\ SomebodyRules' /\ OthersRule'
      BY <2>1, AskTyped, AskLeavesARuler
    <3>3. DutiesAreSeparated'
      BY <1>2, <3>1 DEF Deciding
    <3>4. AccessIsCurrent'
      BY <1>5, <3>1, AskCurrent
    <3> QED
      BY <1>1, <1>5, <3>2, <3>3, <3>4
  <2>2. CASE ClearRows(a)
    BY <1>1, <1>2, <1>5, <2>2, ClearTyped, ClearLeavesARuler, AskCurrent DEF ClearRows
  <2>3. CASE CommitChange(a)
    BY <1>1, <1>5, <2>3, CommitTyped, CommitLeavesARuler, CommitSeparates, CommitCurrent
  <2>4. CASE DropChange(a)
    BY <1>1, <1>2, <1>5, <2>4, EndsTyped, ClearLeavesARuler, AskCurrent DEF DropChange
  <2>5. CASE EndChange(a)
    BY <1>1, <1>2, <1>5, <2>5, EndsTyped, ClearLeavesARuler, EndCurrent DEF EndChange
  <2> QED
    BY <1>5, <2>1, <2>2, <2>3, <2>4, <2>5 DEF ChangeStep
<1>6. ASSUME NEW e \in Editors, EditTree(e) \/ EndTree(e) PROVE AInv'
  <2>1. /\ role' = role /\ merged' = merged /\ user' = user /\ change' = change
        /\ abdicated' = abdicated
    BY <1>6 DEF EditTree, EndTree
  <2>2. TInv'
    BY <1>6, TreeInductive DEF EditTree, EndTree, TreeNext
  <2> QED
    BY <1>2, <1>3, <1>6, <2>1, <2>2, EndsTyped, TreeCurrent
<1>7. CASE UNCHANGED allVars
  <2>1. UNCHANGED treeVars /\ UNCHANGED accessVars
    BY <1>7 DEF allVars
  <2>2. AccessTypeOK'
    BY <2>1 DEF accessVars, AccessTypeOK
  <2>3. AccessIsCurrent'
    <3>1. \A u \in Users : WillDrop(u) => WillDrop(u)'
      BY <2>1 DEF treeVars, accessVars, WillDrop, Changing, At, Editing
    <3> QED
      BY <2>1, <3>1, StaysCurrent DEF treeVars, accessVars, AccessIsCurrent
  <2> QED
    BY <1>1, <1>2, <1>3, <2>1, <2>2, <2>3 DEF accessVars
<1> QED
  BY <1>4, <1>5, <1>6, <1>7 DEF AccessNext

LEMMA AInvHolds == AccessSpec => []AInv
BY AccessInitially, AccessInductive, PTL DEF AccessSpec, allVars

(* The same of the territories, among whatever changes of roles and users: *)
(* a path leads to the node that carries it, and unless an edit was        *)
(* committed on readings that held no longer, the prefixes by which scopes *)
(* are checked find the subtrees.                                          *)
THEOREM TreeTheorem == AccessSpec => []TreeHolds
<1>1. AInv => TreeHolds
  BY TreeInvGives DEF AInv
<1> QED
  BY <1>1, AInvHolds, PTL

(* Whatever changes, lookups and edits of the tree interleave, whatever    *)
(* fails: the roles keep apart what must not be held together, an active   *)
(* super administrator is left, and a cached access is that of the rows.   *)
THEOREM AuthorityTheorem == AccessSpec => []AuthorityHolds
<1>1. AInv => AuthorityHolds
  BY DEF AInv, AuthorityHolds
<1> QED
  BY <1>1, AInvHolds, PTL
=============================================================================
