------------------------------ MODULE Sessions ------------------------------
(***************************************************************************)
(* The sessions of one account (apps/api/src/modules/auth): sign-in with   *)
(* its lockout counter (auth.service.ts), rotation of refresh tokens with  *)
(* reuse detection (services/session.service.ts), sign-out, and the        *)
(* administrator's suspension (users/users.service.ts).                    *)
(*                                                                         *)
(* A refresh token names one session row.  A statement sees the rows that  *)
(* were committed when it began and waits for a row another transaction    *)
(* has changed: hence a rotation is a claim (the conditional updateMany,   *)
(* which locks the row) and a commit, and a revocation of many rows is a   *)
(* scan and an update of what the scan found and is still live.            *)
(***************************************************************************)
EXTENDS Naturals, FiniteSets

CONSTANTS SessionIds,   \* identities of session rows; the first of a lineage names it
          Requests,     \* concurrent API requests
          MaxAttempts,  \* auth.maxLoginAttempts
          MaxFailures,  \* bound: the counters of failed attempts
          NoRequest     \* a request slot with nothing in flight

ASSUME SessionsAssumption ==
    /\ MaxAttempts \in Nat \ {0}
    /\ MaxFailures \in Nat
    /\ MaxAttempts <= MaxFailures

VARIABLES session,  \* one row per session
          expired,  \* the lineages past the expiry all their rows share
          account,  \* the columns of the user row that sign-in works on
          request,  \* what each request has read or locked
          wrong,    \* history: failed attempts since the counter was last reset
          mixed,    \* history: a sign-in overlapped another one, or a reset
          closed,   \* history: the lineages a committed revocation covered
          raced     \* history: those a rotation or a sign-in overlapped it in

vars == <<session, expired, account, request, wrong, mixed, closed, raced>>

States == {"NONE", "LIVE", "ROTATED", "REVOKED", "PURGED"}

Session == [state : States, family : SessionIds]

Account == [active : BOOLEAN, failed : 0..MaxFailures, locked : BOOLEAN]

Causes == {"FAMILY", "LOGOUT_ALL", "PASSWORD_RESET", "SUSPENDED"}

SignInRequest == [kind : {"SIGN_IN"}, correct : BOOLEAN, failed : 0..MaxFailures]
RotateRequest == [kind : {"ROTATE"}, id : SessionIds, claimed : BOOLEAN]
RevokeRequest == [kind : {"REVOKE"}, cause : Causes, families : SUBSET SessionIds,
                  scanned : BOOLEAN, targets : SUBSET SessionIds]

Request == SignInRequest \cup RotateRequest \cup RevokeRequest

Init ==
    /\ session = [s \in SessionIds |-> [state |-> "NONE", family |-> s]]
    /\ expired = {}
    /\ account = [active |-> TRUE, failed |-> 0, locked |-> FALSE]
    /\ request = [p \in Requests |-> NoRequest]
    /\ wrong = 0
    /\ mixed = FALSE
    /\ closed = {}
    /\ raced = {}

Busy(p)           == request[p] # NoRequest
Handling(p, kind) == Busy(p) /\ request[p].kind = kind
Live(s)           == session[s].state = "LIVE"
Unused(s)         == session[s].state = "NONE"
Family(s)         == session[s].family

(* The row of a claimed session is locked until its rotation ends.         *)
Claims(p, s) == Handling(p, "ROTATE") /\ request[p].claimed /\ request[p].id = s
Locked(s)    == \E p \in Requests : Claims(p, s)

(***************************************************************************)
(* Sign-in and its lockout                                                 *)
(***************************************************************************)
(* login(): the user row is read and the password verified.  An account    *)
(* that is locked, or suspended and given the right password, is refused.  *)
SignIn(p, correct) ==
    /\ ~Busy(p)
    /\ ~account.locked
    /\ correct => account.active
    /\ request' = [request EXCEPT ![p] =
           [kind |-> "SIGN_IN", correct |-> correct, failed |-> account.failed]]
    /\ mixed' = (mixed \/ \E q \in Requests : Handling(q, "SIGN_IN"))
    /\ UNCHANGED <<session, expired, account, wrong, closed, raced>>

(* Mutant: one attempt too many is allowed.                                *)
LocksLate(attempts) == attempts > MaxAttempts

ShouldLock(attempts) == attempts >= MaxAttempts

(* registerFailedAttempt(): the counter is what was read, plus one.        *)
FailedAttempt(p) ==
    LET attempts == request[p].failed + 1 IN
        /\ Handling(p, "SIGN_IN")
        /\ ~request[p].correct
        /\ attempts <= MaxFailures
        /\ wrong < MaxFailures
        /\ account' = [account EXCEPT !.failed = attempts,
                                      !.locked = @ \/ ShouldLock(attempts)]
        /\ wrong' = wrong + 1
        /\ request' = [request EXCEPT ![p] = NoRequest]
        /\ UNCHANGED <<session, expired, mixed, closed, raced>>

CounterReset == [account EXCEPT !.failed = 0, !.locked = FALSE]

ResetMixes(p) == mixed' = (mixed \/ \E q \in Requests \ {p} : Handling(q, "SIGN_IN"))

Suspending == \E q \in Requests : Handling(q, "REVOKE") /\ request[q].cause = "SUSPENDED"

(* establishSession(): issue() starts a lineage, the counter is cleared.   *)
EstablishSession(p, s) ==
    /\ Handling(p, "SIGN_IN")
    /\ request[p].correct
    /\ Unused(s)
    /\ session' = [session EXCEPT ![s] = [state |-> "LIVE", family |-> s]]
    /\ account' = CounterReset
    /\ wrong' = 0
    /\ request' = [request EXCEPT ![p] = NoRequest]
    /\ raced' = IF ~account.active \/ Suspending THEN raced \cup {s} ELSE raced
    /\ ResetMixes(p)
    /\ UNCHANGED <<expired, closed>>

(* lockedUntil passes; the counter keeps its value.                        *)
Unlock ==
    /\ account.locked
    /\ account' = [account EXCEPT !.locked = FALSE]
    /\ UNCHANGED <<session, expired, request, wrong, mixed, closed, raced>>

(***************************************************************************)
(* rotate()                                                                *)
(***************************************************************************)
Revocation(cause, families) ==
    [kind |-> "REVOKE", cause |-> cause, families |-> families, scanned |-> FALSE,
     targets |-> {}]

(* handleReuse(), and the same for an account that is not active.          *)
OfLineage(s) == Revocation("FAMILY", {Family(s)})

(* The row of the presented token is read.  One that was rotated or        *)
(* revoked, or that belongs to an account that is not active, leads to the *)
(* revocation of its lineage; an expired or unknown one is just refused.   *)
Present(p, s) ==
    /\ ~Busy(p)
    /\ session[s].state \in {"LIVE", "ROTATED", "REVOKED"}
    /\ Live(s) => Family(s) \notin expired
    /\ request' = [request EXCEPT ![p] =
           IF Live(s) /\ account.active
           THEN [kind |-> "ROTATE", id |-> s, claimed |-> FALSE]
           ELSE OfLineage(s)]
    /\ UNCHANGED <<session, expired, account, wrong, mixed, closed, raced>>

Covers(r, s) == Family(s) \in r.families

Scanned(s) ==
    \E q \in Requests : Handling(q, "REVOKE") /\ request[q].scanned /\ Covers(request[q], s)

(* Mutant: the claim is not conditional on the session being live.         *)
AlwaysClaims(s) == TRUE

MayClaim(s) == Live(s)

(* The conditional updateMany: it waits for the row, then either counts    *)
(* one, or none, which is taken for reuse.                                 *)
Claim(p) ==
    LET s == request[p].id IN
        /\ Handling(p, "ROTATE")
        /\ ~request[p].claimed
        /\ ~Locked(s)
        /\ request' = [request EXCEPT ![p] =
               IF MayClaim(s) THEN [@ EXCEPT !.claimed = TRUE]
                              ELSE OfLineage(s)]
        /\ raced' = IF MayClaim(s) /\ Scanned(s) THEN raced \cup {Family(s)} ELSE raced
        /\ UNCHANGED <<session, expired, account, wrong, mixed, closed>>

(* The successor is created, in the same lineage, and COMMIT.              *)
Replace(p, t) ==
    LET s == request[p].id IN
        /\ Handling(p, "ROTATE")
        /\ request[p].claimed
        /\ Unused(t)
        /\ session' = [session EXCEPT ![s].state = "ROTATED",
                                      ![t] = [state |-> "LIVE", family |-> Family(s)]]
        /\ request' = [request EXCEPT ![p] = NoRequest]
        /\ UNCHANGED <<expired, account, wrong, mixed, closed, raced>>

(***************************************************************************)
(* Revoking                                                                *)
(***************************************************************************)
(* revoke(): one row, once it is free, and only if it is still live.       *)
Logout(s) ==
    /\ Live(s)
    /\ ~Locked(s)
    /\ session' = [session EXCEPT ![s].state = "REVOKED"]
    /\ UNCHANGED <<expired, account, request, wrong, mixed, closed, raced>>

(* revokeAllForUser(), resetPassword() and suspend(): every live session   *)
(* of the user; the last two change the user row first.                    *)
StartRevoking(p, cause) ==
    /\ ~Busy(p)
    /\ cause # "FAMILY"
    /\ request' = [request EXCEPT ![p] = Revocation(cause, SessionIds)]
    /\ UNCHANGED <<session, expired, account, wrong, mixed, closed, raced>>

Targets(r) == {s \in SessionIds : Live(s) /\ Covers(r, s)}

Scan(p) ==
    /\ Handling(p, "REVOKE")
    /\ ~request[p].scanned
    /\ request' = [request EXCEPT ![p].scanned = TRUE, ![p].targets = Targets(request[p])]
    /\ raced' = raced \cup {Family(s) : s \in {s \in SessionIds :
                                Locked(s) /\ Covers(request[p], s)}}
    /\ UNCHANGED <<session, expired, account, wrong, mixed, closed>>

AccountAfter(cause) ==
    CASE cause = "PASSWORD_RESET" -> CounterReset
      [] cause = "SUSPENDED"      -> [account EXCEPT !.active = FALSE]
      [] OTHER                    -> account

(* Mutant: the exception that tells of the reuse rolls the revocation back.*)
UndoneByThrow(r) == r.cause # "FAMILY"

Commits(r) == TRUE

(* What the scan found and is still live, once no rotation holds it.       *)
Revoke(p) ==
    LET r == request[p] IN
        /\ Handling(p, "REVOKE")
        /\ r.scanned
        /\ \A s \in r.targets : ~Locked(s)
        /\ session' = [s \in SessionIds |->
               IF Commits(r) /\ s \in r.targets /\ Live(s) THEN [session[s] EXCEPT !.state = "REVOKED"]
               ELSE session[s]]
        /\ account' = AccountAfter(r.cause)
        /\ closed' = IF r.cause = "FAMILY" THEN closed \cup r.families ELSE closed
        /\ request' = [request EXCEPT ![p] = NoRequest]
        /\ IF r.cause = "PASSWORD_RESET" THEN wrong' = 0 /\ ResetMixes(p)
                                         ELSE UNCHANGED <<wrong, mixed>>
        /\ UNCHANGED <<expired, raced>>

(* reactivate().                                                           *)
Reactivate ==
    /\ ~account.active
    /\ account' = [CounterReset EXCEPT !.active = TRUE]
    /\ wrong' = 0
    /\ mixed' = (mixed \/ \E q \in Requests : Handling(q, "SIGN_IN"))
    /\ UNCHANGED <<session, expired, request, closed, raced>>

(***************************************************************************)
(* Failures and time                                                       *)
(***************************************************************************)
(* A transaction rolls back, or the process dies, before COMMIT.           *)
Fail(p) ==
    /\ Busy(p)
    /\ request' = [request EXCEPT ![p] = NoRequest]
    /\ UNCHANGED <<session, expired, account, wrong, mixed, closed, raced>>

(* A successor inherits its lineage's expiry, so a lineage ends as one.    *)
Expire(f) ==
    /\ Family(f) = f /\ ~Unused(f)
    /\ f \notin expired
    /\ expired' = expired \cup {f}
    /\ UNCHANGED <<session, account, request, wrong, mixed, closed, raced>>

(* The nightly purge of expired rows.                                      *)
Purge(s) ==
    /\ ~Unused(s)
    /\ session[s].state # "PURGED"
    /\ Family(s) \in expired
    /\ ~Locked(s)
    /\ session' = [session EXCEPT ![s].state = "PURGED"]
    /\ UNCHANGED <<expired, account, request, wrong, mixed, closed, raced>>

RequestStep(p) ==
    \/ \E correct \in BOOLEAN : SignIn(p, correct)
    \/ FailedAttempt(p)
    \/ \E s \in SessionIds : EstablishSession(p, s) \/ Present(p, s) \/ Replace(p, s)
    \/ Claim(p)
    \/ \E cause \in Causes : StartRevoking(p, cause)
    \/ Scan(p) \/ Revoke(p)
    \/ Fail(p)

Next ==
    \/ \E p \in Requests : RequestStep(p)
    \/ \E s \in SessionIds : Logout(s) \/ Expire(s) \/ Purge(s)
    \/ Unlock
    \/ Reactivate

Spec == Init /\ [][Next]_vars

(***************************************************************************)
(* Properties                                                              *)
(***************************************************************************)
TypeOK ==
    /\ session \in [SessionIds -> Session]
    /\ expired \in SUBSET SessionIds
    /\ account \in Account
    /\ request \in [Requests -> Request \cup {NoRequest}]
    /\ wrong \in 0..MaxFailures
    /\ mixed \in BOOLEAN
    /\ closed \in SUBSET SessionIds
    /\ raced \in SUBSET SessionIds

(* However many refreshes present one token, and whatever revocations,     *)
(* failures and purges fall between their steps, "exactly one of them      *)
(* wins": a lineage never has two live sessions.                           *)
OneLiveSession ==
    \A s, t \in SessionIds : Live(s) /\ Live(t) /\ Family(s) = Family(t) => s = t

(* After reuse was detected nothing of the lineage is live, and nothing of *)
(* a suspended account, unless a rotation was committing while the         *)
(* revocation ran, or a sign-in while the suspension did.                  *)
RevokedStaysDead ==
    \A s \in SessionIds : Live(s) /\ Family(s) \notin raced
        => Family(s) \notin closed /\ account.active

(* Without overlapping sign-ins every failed attempt since the last reset  *)
(* is counted, and the one that reaches the limit locks the account.       *)
FailuresAreCounted ==
    [][~mixed' => /\ account'.failed = wrong'
                  /\ wrong' > wrong /\ wrong' >= MaxAttempts => account'.locked]_vars
=============================================================================
