---------------------------- MODULE OutboxProofs ----------------------------
(***************************************************************************)
(* Proofs about Outbox, for any events, workers and bounds.  The argument: *)
(* a row that is not contested and that somebody holds is PROCESSING and   *)
(* held by nobody else, so nobody but its holder writes it; and a worker   *)
(* marks a routed event only after BullMQ knows a job of its id.           *)
(* Mail implements Outbox, so all of it holds of Mail; there, what a run   *)
(* has sent is paid for by the attempt or the stall that ends it.          *)
(***************************************************************************)
EXTENDS Mail, TLAPS

(* A worker that is about to mark a routed event has seen its job added.   *)
AddedHasJob ==
    \A w \in Workers, e \in Routed : hold[w][e].step = "ADDED" => job[e].state # "NONE"

(* A job that BullMQ does not know can still be added.                     *)
JobsCounted ==
    \A e \in Events : job[e].state \in {"NONE", "FORGOTTEN"} => job[e].created <= job[e].forgets

(* A job that is still to be worked on has an attempt left.                *)
AttemptsLeft ==
    \A e \in Events : job[e].state \in {"WAITING", "ACTIVE"} => job[e].tries < JobAttempts

IInv ==
    /\ TypeOK
    /\ OneHolder
    /\ AddedHasJob
    /\ ProcessedHasJob
    /\ JobsCounted
    /\ AttemptsLeft
    /\ DeliveredOnce

(***************************************************************************)
(* Initially                                                               *)
(***************************************************************************)
(* The invariant holds before any event is emitted.                        *)
LEMMA InitIInv == Init => IInv
<1> USE OutboxAssumption DEF OutboxAssumption
<1> SUFFICES ASSUME Init PROVE IInv
    OBVIOUS
<1>1. TypeOK
    BY DEF Init, TypeOK, Row, Hold, Job, NoHold, EventStatuses
<1>2. OneHolder /\ AddedHasJob
    BY DEF Init, OneHolder, AddedHasJob, Holds, Held, NoHold
<1>3. ProcessedHasJob /\ JobsCounted /\ AttemptsLeft /\ DeliveredOnce
    BY DEF Init, ProcessedHasJob, JobsCounted, AttemptsLeft, DeliveredOnce
<1> QED BY <1>1, <1>2, <1>3 DEF IInv

(***************************************************************************)
(* Types                                                                   *)
(***************************************************************************)
(* The attempt a claim returns is one of those that are allowed.           *)
LEMMA NextAttemptType ==
    ASSUME TypeOK, NEW e \in Events
    PROVE  NextAttempt(e) \in 1..MaxAttempts
<1>1. event[e].attempts \in 0..MaxAttempts
    BY DEF TypeOK, Row
<1> QED BY <1>1, OutboxAssumption DEF OutboxAssumption, NextAttempt

(* emit() and the passing of time keep the types ...                       *)
LEMMA RowActionsType ==
    ASSUME TypeOK, NEW e \in Events, Emit(e) \/ BecomeDue(e) \/ GrowOld(e)
    PROVE  TypeOK'
<1>1. event[e] \in Row
    BY DEF TypeOK
<1>2. /\ [event[e] EXCEPT !.status = "PENDING", !.due = TRUE] \in Row
      /\ [event[e] EXCEPT !.due = TRUE] \in Row
      /\ [event[e] EXCEPT !.old = TRUE] \in Row
    BY <1>1 DEF Row, EventStatuses
<1>3. \/ event' = [event EXCEPT ![e] = [event[e] EXCEPT !.status = "PENDING", !.due = TRUE]]
      \/ event' = [event EXCEPT ![e] = [event[e] EXCEPT !.due = TRUE]]
      \/ event' = [event EXCEPT ![e] = [event[e] EXCEPT !.old = TRUE]]
    BY DEF TypeOK, Emit, BecomeDue, GrowOld
<1>4. event' \in [Events -> Row]
    BY <1>2, <1>3 DEF TypeOK
<1> QED BY <1>4 DEF TypeOK, Emit, BecomeDue, GrowOld

(* ... and never touch a row that somebody works on.                       *)
LEMMA RowActionsStatus ==
    ASSUME TypeOK, NEW e \in Events, Emit(e) \/ BecomeDue(e) \/ GrowOld(e)
    PROVE  \A f \in Events : \/ event'[f].status = event[f].status
                             \/ event[f].status = "NONE" /\ event'[f].status = "PENDING"
<1>1. event[e] \in Row /\ event \in [Events -> Row]
    BY DEF TypeOK
<1>2. \A f \in Events : f # e => event'[f] = event[f]
    BY DEF TypeOK, Emit, BecomeDue, GrowOld
<1>3. CASE Emit(e)
    <2>1. event[e].status = "NONE" /\ event'[e].status = "PENDING"
        BY <1>1, <1>3 DEF Emit, Row
    <2> QED BY <1>2, <2>1
<1>4. CASE BecomeDue(e) \/ GrowOld(e)
    <2>1. event'[e].status = event[e].status
        BY <1>1, <1>4 DEF BecomeDue, GrowOld, Row
    <2> QED BY <1>2, <2>1
<1> QED BY <1>3, <1>4

(* claim() keeps the types ...                                             *)
LEMMA ClaimType ==
    ASSUME TypeOK, NEW w \in Workers, Claim(w)
    PROVE  TypeOK'
<1>1. PICK batch \in SUBSET {e \in Events : Claimable(e)} :
          /\ event' = [e \in Events |->
                IF e \in batch THEN [event[e] EXCEPT !.status = "PROCESSING",
                                                     !.attempts = NextAttempt(e)]
                ELSE event[e]]
          /\ hold' = [hold EXCEPT ![w] = [e \in Events |->
                IF e \in batch THEN [step |-> "CLAIMED", attempts |-> Returned(e)]
                ELSE NoHold]]
    BY Zenon DEF Claim
<1>2. \A e \in Events : NextAttempt(e) \in 1..MaxAttempts /\ NextAttempt(e) \in 0..MaxAttempts
    BY NextAttemptType
<1>3. event' \in [Events -> Row]
    BY <1>1, <1>2 DEF TypeOK, Row, EventStatuses
<1>4. [e \in Events |-> IF e \in batch THEN [step |-> "CLAIMED", attempts |-> Returned(e)]
                        ELSE NoHold] \in [Events -> Hold]
    BY <1>2 DEF Hold, NoHold, Returned
<1>5. hold' \in [Workers -> [Events -> Hold]]
    BY <1>1, <1>4 DEF TypeOK
<1> QED BY <1>3, <1>5 DEF Claim, TypeOK

(* ... and neither settles a row nor gets ahead of the add.                *)
LEMMA ClaimEffect ==
    ASSUME TypeOK, NEW w \in Workers, Claim(w)
    PROVE  /\ \A f \in Events : event'[f] = event[f] \/ event'[f].status = "PROCESSING"
           /\ \A v \in Workers, f \in Events :
                  hold'[v][f].step = "ADDED" => hold[v][f].step = "ADDED"
<1>1. PICK batch \in SUBSET {e \in Events : Claimable(e)} :
          /\ event' = [e \in Events |->
                IF e \in batch THEN [event[e] EXCEPT !.status = "PROCESSING",
                                                     !.attempts = NextAttempt(e)]
                ELSE event[e]]
          /\ hold' = [hold EXCEPT ![w] = [e \in Events |->
                IF e \in batch THEN [step |-> "CLAIMED", attempts |-> Returned(e)]
                ELSE NoHold]]
    BY Zenon DEF Claim
<1>2. \A f \in Events : event'[f] = event[f] \/ event'[f].status = "PROCESSING"
    BY <1>1 DEF TypeOK, Row
<1>3. \A f \in Events : hold'[w][f].step # "ADDED"
    BY <1>1 DEF TypeOK, NoHold
<1>4. \A v \in Workers : v # w => hold'[v] = hold[v]
    BY <1>1 DEF TypeOK
<1> QED BY <1>2, <1>3, <1>4

(* A worker's step on one event leaves all its others as they are.         *)
LEMMA ToEffect ==
    ASSUME TypeOK, NEW w \in Workers, NEW e \in Events, NEW step, To(w, e, step)
    PROVE  /\ hold'[w][e].step = step
           /\ \A v \in Workers, f \in Events : (v # w \/ f # e) => hold'[v][f] = hold[v][f]
<1>1. hold[w] \in [Events -> Hold] /\ hold[w][e] \in Hold
    BY DEF TypeOK
<1>2. hold' = [hold EXCEPT ![w] = [hold[w] EXCEPT ![e].step = step]]
    BY DEF To, TypeOK
<1>3. hold'[w] = [hold[w] EXCEPT ![e].step = step]
    BY <1>2 DEF TypeOK
<1>4. hold'[w][e] = [hold[w][e] EXCEPT !.step = step]
    BY <1>1, <1>3
<1>5. hold'[w][e].step = step
    BY <1>1, <1>4 DEF Hold
<1> QED BY <1>1, <1>2, <1>5 DEF TypeOK

(* The steps of dispatch() keep the types.                                 *)
LEMMA ToType ==
    ASSUME TypeOK, NEW w \in Workers, NEW e \in Events,
           hold[w][e].step \in {"CLAIMED", "ADDED"},
           NEW step \in {"ADDED", "REFUSED"}, To(w, e, step)
    PROVE  hold' \in [Workers -> [Events -> Hold]]
<1>1. hold[w] \in [Events -> Hold] /\ hold[w][e] \in Hold
    BY DEF TypeOK
<1>2. [hold[w][e] EXCEPT !.step = step] \in Hold
    BY <1>1 DEF Hold
<1>3. [hold[w] EXCEPT ![e].step = step] \in [Events -> Hold]
    BY <1>1, <1>2
<1>4. hold' = [hold EXCEPT ![w] = [hold[w] EXCEPT ![e].step = step]]
    BY DEF To, TypeOK
<1> QED BY <1>3, <1>4 DEF TypeOK

LEMMA AddJobType ==
    ASSUME TypeOK, NEW e \in Events, AddJob(e)
    PROVE  job' \in [Events -> Job]
<1>1. job[e] \in Job
    BY DEF TypeOK
<1>2. job[e].created + 1 \in Nat /\ job[e].forgets \in 0..MaxForgets /\ 0 \in 0..JobAttempts
    BY <1>1, OutboxAssumption DEF OutboxAssumption, Job
<1>3. [state |-> "WAITING", tries |-> 0, stalled |-> FALSE,
       created |-> job[e].created + 1, forgets |-> job[e].forgets] \in Job
    BY <1>2 DEF Job
<1> QED BY <1>3 DEF AddJob, TypeOK

LEMMA HoldActionsType ==
    ASSUME TypeOK, NEW w \in Workers, NEW e \in Events,
           Publish(w, e) \/ PublishFails(w, e) \/ MarkingFails(w, e)
    PROVE  TypeOK'
<1>1. hold' \in [Workers -> [Events -> Hold]]
    BY ToType DEF Publish, PublishFails, MarkingFails, Turn
<1>2. job' \in [Events -> Job]
    BY AddJobType DEF Publish, PublishFails, MarkingFails, TypeOK
<1> QED BY <1>1, <1>2 DEF TypeOK, Publish, PublishFails, MarkingFails

(* Letting go of a row empties one hold.                                   *)
LEMMA LetGoEffect ==
    ASSUME TypeOK, NEW w \in Workers, NEW e \in Events, LetGo(w, e)
    PROVE  /\ hold' \in [Workers -> [Events -> Hold]]
           /\ \A v \in Workers, f \in Events :
                  hold'[v][f] = IF v = w /\ f = e THEN NoHold ELSE hold[v][f]
<1>1. NoHold \in Hold
    BY DEF NoHold, Hold
<1>2. PICK mine : mine = [hold[w] EXCEPT ![e] = NoHold]
    OBVIOUS
<1>3. hold \in [Workers -> [Events -> Hold]]
    BY DEF TypeOK
<1>4. mine \in [Events -> Hold] /\ \A f \in Events : mine[f] = IF f = e THEN NoHold ELSE hold[w][f]
    BY <1>1, <1>2, <1>3
<1>5. hold' = [hold EXCEPT ![w] = mine]
    BY <1>2 DEF LetGo
<1> QED BY <1>3, <1>4, <1>5

LEMMA MarkType ==
    ASSUME TypeOK, NEW w \in Workers, NEW e \in Events,
           MarkProcessed(w, e) \/ MarkFailed(w, e)
    PROVE  TypeOK'
<1>1. event' \in [Events -> Row]
    <2>1. event[e] \in Row
        BY DEF TypeOK
    <2>2. /\ [event[e] EXCEPT !.status = "PROCESSED"] \in Row
          /\ [event[e] EXCEPT !.status = "DEAD"] \in Row
          /\ [event[e] EXCEPT !.status = "FAILED", !.due = FALSE] \in Row
        BY <2>1 DEF Row, EventStatuses
    <2>3. \/ event' = [event EXCEPT ![e] = [event[e] EXCEPT !.status = "PROCESSED"]]
          \/ event' = [event EXCEPT ![e] = [event[e] EXCEPT !.status = "DEAD"]]
          \/ event' = [event EXCEPT ![e] = [event[e] EXCEPT !.status = "FAILED", !.due = FALSE]]
        BY DEF TypeOK, MarkProcessed, MarkFailed
    <2> QED BY <2>2, <2>3 DEF TypeOK
<1>2. LetGo(w, e) /\ job' = job
    BY DEF MarkProcessed, MarkFailed
<1>3. hold' \in [Workers -> [Events -> Hold]]
    BY <1>2, LetGoEffect
<1>4. contested' \subseteq Events
    BY <1>2 DEF TypeOK, LetGo, StillContested
<1> QED BY <1>1, <1>2, <1>3, <1>4 DEF TypeOK

LEMMA GiveUpType ==
    ASSUME TypeOK, NEW w \in Workers, GiveUp(w)
    PROVE  TypeOK'
<1>1. [e \in Events |-> NoHold] \in [Events -> Hold]
    BY DEF NoHold, Hold
<1> QED BY <1>1 DEF TypeOK, GiveUp, StillContested

LEMMA RecoverStuckType ==
    ASSUME TypeOK, RecoverStuck
    PROVE  TypeOK'
<1>1. event' \in [Events -> Row]
    BY DEF TypeOK, RecoverStuck, Row, EventStatuses
<1> QED BY <1>1 DEF TypeOK, RecoverStuck

(* BullMQ stops trying a job when its attempts are used up.                *)
LEMMA JobActionsType ==
    ASSUME TypeOK, AttemptsLeft, NEW e \in Events,
           StartJob(e) \/ EndJob(e) \/ ForgetJob(e)
    PROVE  TypeOK' /\ AttemptsLeft'
<1>1. job[e] \in Job
    BY DEF TypeOK
<1> DEFINE Ends(row) == /\ job' = [job EXCEPT ![e] = row]
                        /\ row \in Job
                        /\ row.state \in {"WAITING", "ACTIVE"} => row.tries < JobAttempts
<1>2. ASSUME NEW row, Ends(row)
      PROVE  job' \in [Events -> Job] /\ AttemptsLeft'
    BY <1>2 DEF TypeOK, AttemptsLeft
<1>3. CASE StartJob(e)
    <2>1. Ends([job[e] EXCEPT !.state = "ACTIVE"])
        BY <1>1, <1>3 DEF StartJob, JobTo, Job, AttemptsLeft
    <2> QED BY <1>2, <2>1, <1>3 DEF StartJob, JobTo, TypeOK
<1>4. CASE CompleteJob(e)
    <2>1. Ends([job[e] EXCEPT !.state = "COMPLETED"])
        BY <1>1, <1>4 DEF CompleteJob, JobTo, Job
    <2> QED BY <1>2, <2>1, <1>4 DEF CompleteJob, JobTo, TypeOK
<1>5. CASE FailJob(e)
    <2> DEFINE row == [job[e] EXCEPT !.tries = job[e].tries + 1,
            !.state = IF job[e].tries + 1 < JobAttempts THEN "WAITING" ELSE "FAILED"]
    <2>1. job[e].tries < JobAttempts /\ job[e].tries \in Nat
        BY <1>1, <1>5 DEF FailJob, JobTo, AttemptsLeft, Job
    <2>2. job[e].tries + 1 \in 0..JobAttempts
        BY <2>1, OutboxAssumption DEF OutboxAssumption
    <2>3. row \in Job
        BY <1>1, <2>2 DEF Job
    <2>4. (row.state = "WAITING" => row.tries < JobAttempts) /\ row.state # "ACTIVE"
        BY <1>1, <2>1, <2>2 DEF Job
    <2>5. Ends(row)
        BY <1>5, <2>3, <2>4 DEF FailJob, JobTo
    <2> QED BY <1>2, <2>5, <1>5 DEF FailJob, JobTo, TypeOK
<1>6. CASE StallJob(e)
    <2> DEFINE row == [job[e] EXCEPT !.stalled = TRUE,
            !.state = IF job[e].stalled THEN "FAILED" ELSE "WAITING"]
    <2>1. job[e].tries < JobAttempts
        BY <1>6 DEF StallJob, JobTo, AttemptsLeft
    <2>2. row \in Job /\ row.tries < JobAttempts
        BY <1>1, <2>1 DEF Job
    <2>3. Ends(row)
        BY <1>6, <2>2 DEF StallJob, JobTo
    <2> QED BY <1>2, <2>3, <1>6 DEF StallJob, JobTo, TypeOK
<1>7. CASE ForgetJob(e)
    <2> DEFINE row == [job[e] EXCEPT !.state = "FORGOTTEN", !.forgets = job[e].forgets + 1]
    <2>1. job[e].forgets + 1 \in 0..MaxForgets
        BY <1>1, <1>7, OutboxAssumption DEF OutboxAssumption, ForgetJob, Job
    <2>2. row \in Job /\ row.state = "FORGOTTEN"
        BY <1>1, <2>1 DEF Job
    <2>3. Ends(row)
        BY <1>7, <2>2 DEF ForgetJob, JobTo
    <2> QED BY <1>2, <2>3, <1>7 DEF ForgetJob, JobTo, TypeOK
<1> QED BY <1>3, <1>4, <1>5, <1>6, <1>7 DEF EndJob

(* Every step keeps the types.                                             *)
LEMMA TypesAndAttempts ==
    ASSUME TypeOK, AttemptsLeft, [Next]_vars
    PROVE  TypeOK' /\ AttemptsLeft'
<1>1. ASSUME NEW e \in Events, AddJob(e)
      PROVE  AttemptsLeft'
    BY <1>1, OutboxAssumption DEF OutboxAssumption, AddJob, AttemptsLeft, TypeOK, Job
<1>2. ASSUME UNCHANGED job
      PROVE  AttemptsLeft'
    BY <1>2 DEF AttemptsLeft
<1>3. CASE UNCHANGED vars
    BY <1>3, <1>2 DEF vars, TypeOK
<1>4. ASSUME NEW e \in Events, Emit(e) \/ BecomeDue(e) \/ GrowOld(e)
      PROVE  TypeOK' /\ AttemptsLeft'
    BY <1>4, <1>2, RowActionsType DEF Emit, BecomeDue, GrowOld
<1>5. ASSUME NEW e \in Events, StartJob(e) \/ EndJob(e) \/ ForgetJob(e)
      PROVE  TypeOK' /\ AttemptsLeft'
    BY <1>5, JobActionsType
<1>6. ASSUME NEW w \in Workers, Claim(w)
      PROVE  TypeOK' /\ AttemptsLeft'
    BY <1>6, <1>2, ClaimType DEF Claim
<1>7. ASSUME NEW w \in Workers, GiveUp(w)
      PROVE  TypeOK' /\ AttemptsLeft'
    BY <1>7, <1>2, GiveUpType DEF GiveUp
<1>8. ASSUME NEW w \in Workers, NEW e \in Events, Publish(w, e)
      PROVE  TypeOK' /\ AttemptsLeft'
    BY <1>8, <1>1, <1>2, HoldActionsType DEF Publish
<1>9. ASSUME NEW w \in Workers, NEW e \in Events,
             PublishFails(w, e) \/ MarkingFails(w, e)
      PROVE  TypeOK' /\ AttemptsLeft'
    BY <1>9, <1>2, HoldActionsType DEF PublishFails, MarkingFails
<1>10. ASSUME NEW w \in Workers, NEW e \in Events,
              MarkProcessed(w, e) \/ MarkFailed(w, e)
       PROVE  TypeOK' /\ AttemptsLeft'
    BY <1>10, <1>2, MarkType DEF MarkProcessed, MarkFailed
<1>11. CASE RecoverStuck
    BY <1>11, <1>2, RecoverStuckType DEF RecoverStuck
<1> QED
    BY <1>3, <1>4, <1>5, <1>6, <1>7, <1>8, <1>9, <1>10, <1>11 DEF Next, DispatchStep

(***************************************************************************)
(* One holder                                                              *)
(***************************************************************************)
(* A step that takes nothing up and leaves every row that is held alone.   *)
LEMMA FewerHolds ==
    ASSUME TypeOK, OneHolder,
           \A e \in Events \ contested' : e \in contested => \A w \in Workers : hold'[w][e].step = "NONE",
           \A w \in Workers, e \in Events : hold'[w][e].step # "NONE" => Holds(w, e),
           \A e \in Events \ contested' :
               (\E w \in Workers : hold'[w][e].step # "NONE") => event'[e].status = event[e].status
    PROVE  OneHolder'
<1> SUFFICES ASSUME NEW e \in Events \ contested'
             PROVE  /\ \A v, w \in Workers : Holds(v, e)' /\ Holds(w, e)' => v = w
                    /\ Held(e)' => event'[e].status = "PROCESSING"
    BY DEF OneHolder
<1>1. CASE e \in contested
    BY <1>1 DEF Holds, Held
<1>2. CASE e \notin contested
    BY <1>2 DEF OneHolder, Holds, Held
<1> QED BY <1>1, <1>2

(* What is claimed was due, and therefore held by nobody.                  *)
LEMMA ClaimKeepsOneHolder ==
    ASSUME TypeOK, OneHolder, NEW w \in Workers, Claim(w)
    PROVE  OneHolder'
<1>1. PICK batch \in SUBSET {e \in Events : Claimable(e)} :
          /\ event' = [e \in Events |->
                IF e \in batch THEN [event[e] EXCEPT !.status = "PROCESSING",
                                                     !.attempts = NextAttempt(e)]
                ELSE event[e]]
          /\ hold' = [hold EXCEPT ![w] = [e \in Events |->
                IF e \in batch THEN [step |-> "CLAIMED", attempts |-> Returned(e)]
                ELSE NoHold]]
    BY Zenon DEF Claim
<1>2. contested' = contested
    BY DEF Claim
<1> SUFFICES ASSUME NEW e \in Events \ contested
             PROVE  /\ \A u, v \in Workers : Holds(u, e)' /\ Holds(v, e)' => u = v
                    /\ Held(e)' => event'[e].status = "PROCESSING"
    BY <1>2 DEF OneHolder
<1>3. CASE e \in batch
    <2>1. ~Held(e)
        BY <1>3 DEF Claimable, OneHolder
    <2>2. \A v \in Workers : Holds(v, e)' => v = w
        BY <1>1, <2>1 DEF Holds, Held, TypeOK
    <2>3. event'[e].status = "PROCESSING"
        BY <1>1, <1>3 DEF TypeOK, Row
    <2> QED BY <2>2, <2>3
<1>4. CASE e \notin batch
    <2>1. event'[e] = event[e]
        BY <1>1, <1>4
    <2>2. \A v \in Workers : Holds(v, e)' => Holds(v, e)
        BY <1>1, <1>4 DEF Holds, TypeOK, NoHold
    <2> QED BY <2>1, <2>2 DEF OneHolder, Held
<1> QED BY <1>3, <1>4

(* Who marks an event that is not contested was its only holder.           *)
LEMMA MarkKeepsOneHolder ==
    ASSUME TypeOK, OneHolder, NEW w \in Workers, NEW e \in Events,
           MarkProcessed(w, e) \/ MarkFailed(w, e)
    PROVE  OneHolder'
<1>1. Holds(w, e) /\ LetGo(w, e)
    BY DEF MarkProcessed, MarkFailed, Holds
<1>2. \A v \in Workers, f \in Events : hold'[v][f].step # "NONE" =>
          Holds(v, f) /\ ~(v = w /\ f = e)
    BY <1>1 DEF LetGo, TypeOK, Holds, NoHold
<1>3. \A f \in Events \ contested' :
          f \in contested => \A v \in Workers : hold'[v][f].step = "NONE"
    BY <1>1 DEF LetGo, StillContested
<1>4. \A f \in Events : f # e => event'[f] = event[f]
    BY DEF MarkProcessed, MarkFailed, TypeOK
<1>5. \A f \in Events \ contested' :
          (\E v \in Workers : hold'[v][f].step # "NONE") => event'[f].status = event[f].status
    <2> SUFFICES ASSUME NEW f \in Events \ contested', NEW v \in Workers,
                        hold'[v][f].step # "NONE"
                 PROVE  event'[f].status = event[f].status
        OBVIOUS
    <2>1. f \notin contested
        BY <1>3
    <2>2. f # e
        BY <1>1, <1>2, <2>1 DEF OneHolder
    <2> QED BY <1>4, <2>2
<1> QED BY <1>2, <1>3, <1>5, FewerHolds

(* Every step keeps an uncontested event in one worker's hands.            *)
LEMMA OneHolderStep ==
    ASSUME TypeOK, OneHolder, [Next]_vars
    PROVE  OneHolder'
<1>1. CASE UNCHANGED vars
    BY <1>1 DEF vars, OneHolder, Holds, Held
<1>2. ASSUME NEW e \in Events, Emit(e) \/ BecomeDue(e) \/ GrowOld(e)
      PROVE  OneHolder'
    <2>1. \A f \in Events \ contested : Held(f) => event'[f].status = event[f].status
        BY <1>2, RowActionsStatus DEF OneHolder
    <2> QED BY <1>2, <2>1, FewerHolds DEF Emit, BecomeDue, GrowOld, Holds, Held
<1>3. ASSUME NEW e \in Events, StartJob(e) \/ EndJob(e) \/ ForgetJob(e)
      PROVE  OneHolder'
    BY <1>3, FewerHolds
       DEF StartJob, EndJob, CompleteJob, FailJob, StallJob, ForgetJob, JobTo, Holds
<1>4. ASSUME NEW w \in Workers, Claim(w)
      PROVE  OneHolder'
    BY <1>4, ClaimKeepsOneHolder
<1>5. ASSUME NEW w \in Workers, NEW e \in Events,
             Publish(w, e) \/ PublishFails(w, e) \/ MarkingFails(w, e)
      PROVE  OneHolder'
    <2>1. \A v \in Workers, f \in Events : hold'[v][f].step # "NONE" => Holds(v, f)
        BY <1>5 DEF Publish, PublishFails, MarkingFails, Turn, To, TypeOK, Holds
    <2> QED BY <1>5, <2>1, FewerHolds DEF Publish, PublishFails, MarkingFails
<1>6. ASSUME NEW w \in Workers, NEW e \in Events, MarkProcessed(w, e) \/ MarkFailed(w, e)
      PROVE  OneHolder'
    BY <1>6, MarkKeepsOneHolder
<1>7. ASSUME NEW w \in Workers, GiveUp(w)
      PROVE  OneHolder'
    <2>1. \A v \in Workers, f \in Events : hold'[v][f].step # "NONE" => Holds(v, f)
        BY <1>7 DEF GiveUp, TypeOK, Holds, NoHold
    <2>2. \A f \in Events \ contested' : f \in contested => \A v \in Workers : hold'[v][f].step = "NONE"
        BY <1>7 DEF GiveUp, StillContested
    <2> QED BY <1>7, <2>1, <2>2, FewerHolds DEF GiveUp
<1>8. CASE RecoverStuck
    <2>1. \A f \in Events \ contested' : Held(f) => event'[f].status = event[f].status
        BY <1>8 DEF RecoverStuck, TypeOK
    <2> QED BY <1>8, <2>1, FewerHolds DEF RecoverStuck, Holds, Held
<1> QED
    BY <1>1, <1>2, <1>3, <1>4, <1>5, <1>6, <1>7, <1>8 DEF Next, DispatchStep

(***************************************************************************)
(* Jobs                                                                    *)
(***************************************************************************)
JobFacts == AddedHasJob /\ ProcessedHasJob /\ JobsCounted /\ DeliveredOnce

(* An add leaves a job that BullMQ knows, counted once.                    *)
LEMMA AddJobFacts ==
    ASSUME TypeOK, JobsCounted, DeliveredOnce, NEW e \in Events, AddJob(e)
    PROVE  /\ job'[e].state # "NONE"
           /\ \A f \in Events : job[f].state # "NONE" => job'[f].state # "NONE"
           /\ JobsCounted' /\ DeliveredOnce'
<1>1. \A f \in Events : job[f] \in Job
    BY DEF TypeOK
<1>2. CASE Unknown(e)
    <2>1. \A f \in Events : f # e => job'[f] = job[f]
        BY <1>2 DEF AddJob, TypeOK
    <2>2. /\ job'[e].state = "WAITING"
          /\ job'[e].created = job[e].created + 1
          /\ job'[e].forgets = job[e].forgets
        BY <1>2 DEF AddJob, TypeOK
    <2>3. job[e].created <= job[e].forgets
        BY <1>2 DEF Unknown, JobsCounted
    <2>4. job[e].created \in Nat /\ job[e].forgets \in Int
        BY <1>1 DEF Job
    <2>5. job'[e].created <= 1 + job'[e].forgets
        BY <2>2, <2>3, <2>4
    <2> QED BY <2>1, <2>2, <2>5 DEF JobsCounted, DeliveredOnce
<1>3. CASE ~Unknown(e)
    BY <1>3 DEF AddJob, Unknown, JobsCounted, DeliveredOnce
<1> QED BY <1>2, <1>3

(* A job that is worked on never becomes one that was never made.          *)
LEMMA JobActionsFacts ==
    ASSUME TypeOK, JobFacts, NEW e \in Events, StartJob(e) \/ EndJob(e) \/ ForgetJob(e)
    PROVE  JobFacts'
<1>1. job[e] \in Job /\ UNCHANGED <<event, hold>>
    BY DEF TypeOK, StartJob, EndJob, CompleteJob, FailJob, StallJob, ForgetJob, JobTo
<1>2. \A f \in Events : f # e => job'[f] = job[f]
    BY DEF TypeOK, StartJob, EndJob, CompleteJob, FailJob, StallJob, ForgetJob, JobTo
<1> DEFINE Worked(row) == \/ \E state \in {"WAITING", "ACTIVE", "COMPLETED", "FAILED"} :
                                 row.state = state /\ row.forgets = job[e].forgets
                          \/ row.state = "FORGOTTEN" /\ row.forgets = job[e].forgets + 1
           Fine(row) == Worked(row) /\ row.created = job[e].created
<1>3. ASSUME StartJob(e) PROVE Fine(job'[e])
    <2>1. job'[e] = [job[e] EXCEPT !.state = "ACTIVE"]
        BY <1>3 DEF StartJob, JobTo, TypeOK
    <2> QED BY <1>1, <2>1 DEF Job
<1>4. ASSUME CompleteJob(e) PROVE Fine(job'[e])
    <2>1. job'[e] = [job[e] EXCEPT !.state = "COMPLETED"]
        BY <1>4 DEF CompleteJob, JobTo, TypeOK
    <2> QED BY <1>1, <2>1 DEF Job
<1>5. ASSUME FailJob(e) PROVE Fine(job'[e])
    <2>1. job'[e] = [job[e] EXCEPT !.tries = job[e].tries + 1,
              !.state = IF job[e].tries + 1 < JobAttempts THEN "WAITING" ELSE "FAILED"]
        BY <1>5 DEF FailJob, JobTo, TypeOK
    <2> QED BY <1>1, <2>1 DEF Job
<1>6. ASSUME StallJob(e) PROVE Fine(job'[e])
    <2>1. job'[e] = [job[e] EXCEPT !.stalled = TRUE,
              !.state = IF job[e].stalled THEN "FAILED" ELSE "WAITING"]
        BY <1>6 DEF StallJob, JobTo, TypeOK
    <2> QED BY <1>1, <2>1 DEF Job
<1>7. ASSUME ForgetJob(e) PROVE Fine(job'[e])
    <2>1. job'[e] = [job[e] EXCEPT !.state = "FORGOTTEN", !.forgets = job[e].forgets + 1]
        BY <1>7 DEF ForgetJob, JobTo, TypeOK
    <2> QED BY <1>1, <2>1 DEF Job
<1>8. Fine(job'[e])
    BY <1>3, <1>4, <1>5, <1>6, <1>7 DEF EndJob
<1>9. job'[e].state # "NONE" /\ job'[e].created = job[e].created
    BY <1>8
<1>10. \/ job'[e].state # "FORGOTTEN" /\ job'[e].forgets = job[e].forgets
      \/ job'[e].forgets = job[e].forgets + 1
    BY <1>8
<1>11. job[e].created \in Nat /\ job[e].forgets \in Int /\ job[e].created <= 1 + job[e].forgets
    BY <1>1, OutboxAssumption DEF OutboxAssumption, Job, JobFacts, DeliveredOnce
<1> DEFINE Counted(row) ==
               /\ row.created <= 1 + row.forgets
               /\ row.state \in {"NONE", "FORGOTTEN"} => row.created <= row.forgets
<1>12. Counted(job'[e])
    BY <1>9, <1>10, <1>11
<1>13. JobsCounted' /\ DeliveredOnce'
    <2>1. ASSUME NEW f \in Events PROVE Counted(job'[f])
        <3>1. CASE f = e
            <4> HIDE DEF Counted
            <4> QED BY <1>12, <3>1
        <3>2. CASE f # e
            <4>1. job'[f] = job[f]
                BY <1>2, <3>2
            <4> QED BY <4>1 DEF JobFacts, JobsCounted, DeliveredOnce
        <3> QED BY <3>1, <3>2
    <2> QED BY <2>1 DEF JobsCounted, DeliveredOnce
<1>14. AddedHasJob' /\ ProcessedHasJob'
    BY <1>1, <1>2, <1>9, OutboxAssumption
       DEF OutboxAssumption, JobFacts, AddedHasJob, ProcessedHasJob
<1> QED BY <1>13, <1>14 DEF JobFacts

(* What a step that touches no job must leave as it is.                    *)
LEMMA JobsUntouched ==
    ASSUME JobFacts, UNCHANGED job,
           \A w \in Workers, e \in Routed :
               hold'[w][e].step = "ADDED" => hold[w][e].step = "ADDED",
           \A e \in Routed : event'[e].status = "PROCESSED" =>
               \/ event[e].status = "PROCESSED"
               \/ \E w \in Workers : hold[w][e].step = "ADDED"
    PROVE  JobFacts'
BY DEF JobFacts, AddedHasJob, ProcessedHasJob, JobsCounted, DeliveredOnce

(* Every step keeps what is known of jobs.                                 *)
LEMMA JobFactsStep ==
    ASSUME TypeOK, JobFacts, [Next]_vars
    PROVE  JobFacts'
<1> USE OutboxAssumption DEF OutboxAssumption
<1>1. CASE UNCHANGED vars
    BY <1>1, JobsUntouched DEF vars
<1>2. ASSUME NEW e \in Events, Emit(e) \/ BecomeDue(e) \/ GrowOld(e)
      PROVE  JobFacts'
    <2>1. \A f \in Events : event'[f].status = "PROCESSED" => event[f].status = "PROCESSED"
        BY <1>2, RowActionsStatus
    <2> QED BY <1>2, <2>1, JobsUntouched DEF Emit, BecomeDue, GrowOld
<1>3. ASSUME NEW e \in Events, StartJob(e) \/ EndJob(e) \/ ForgetJob(e)
      PROVE  JobFacts'
    BY <1>3, JobActionsFacts
<1>4. ASSUME NEW w \in Workers, Claim(w)
      PROVE  JobFacts'
    <2>1. \A f \in Events : event'[f].status = "PROCESSED" => event[f].status = "PROCESSED"
        BY <1>4, ClaimEffect
    <2>2. \A v \in Workers, f \in Events : hold'[v][f].step = "ADDED" => hold[v][f].step = "ADDED"
        BY <1>4, ClaimEffect
    <2> QED BY <1>4, <2>1, <2>2, JobsUntouched DEF Claim
<1>5. ASSUME NEW w \in Workers, NEW e \in Events, Publish(w, e)
      PROVE  JobFacts'
    <2>1. \A v \in Workers, f \in Events :
              hold'[v][f].step = "ADDED" => hold[v][f].step = "ADDED" \/ (v = w /\ f = e)
        BY <1>5 DEF Publish, To, TypeOK
    <2>2. CASE e \in Routed
        <3>1. AddJob(e) /\ UNCHANGED event
            BY <1>5, <2>2 DEF Publish
        <3>2. /\ job'[e].state # "NONE"
              /\ \A f \in Events : job[f].state # "NONE" => job'[f].state # "NONE"
              /\ JobsCounted' /\ DeliveredOnce'
            BY <3>1, AddJobFacts DEF JobFacts
        <3> QED BY <2>1, <3>1, <3>2 DEF JobFacts, AddedHasJob, ProcessedHasJob
    <2>3. CASE e \notin Routed
        BY <1>5, <2>1, <2>3, JobsUntouched DEF Publish
    <2> QED BY <2>2, <2>3
<1>6. ASSUME NEW w \in Workers, NEW e \in Events,
             PublishFails(w, e) \/ MarkingFails(w, e)
      PROVE  JobFacts'
    <2>1. \A v \in Workers, f \in Events : hold'[v][f].step = "ADDED" => hold[v][f].step = "ADDED"
        BY <1>6, ToEffect DEF PublishFails, MarkingFails
    <2> QED BY <1>6, <2>1, JobsUntouched DEF PublishFails, MarkingFails
<1>7. ASSUME NEW w \in Workers, NEW e \in Events, MarkProcessed(w, e) \/ MarkFailed(w, e)
      PROVE  JobFacts'
    <2>1. \A v \in Workers, f \in Events : hold'[v][f].step = "ADDED" => hold[v][f].step = "ADDED"
        <3>1. LetGo(w, e)
            BY <1>7 DEF MarkProcessed, MarkFailed
        <3> QED BY <3>1, LetGoEffect DEF NoHold
    <2>2. \A f \in Events : event'[f].status = "PROCESSED" =>
              event[f].status = "PROCESSED" \/ hold[w][f].step = "ADDED"
        <3>0. event \in [Events -> Row]
            BY DEF TypeOK
        <3>1. CASE MarkProcessed(w, e)
            BY <3>0, <3>1 DEF MarkProcessed, Row
        <3>2. CASE MarkFailed(w, e)
            BY <3>0, <3>2 DEF MarkFailed, Row
        <3> QED BY <1>7, <3>1, <3>2
    <2> QED BY <1>7, <2>1, <2>2, JobsUntouched DEF MarkProcessed, MarkFailed
<1>8. ASSUME NEW w \in Workers, GiveUp(w)
      PROVE  JobFacts'
    <2>1. \A v \in Workers, f \in Events : hold'[v][f].step = "ADDED" => hold[v][f].step = "ADDED"
        BY <1>8 DEF GiveUp, TypeOK, NoHold
    <2> QED BY <1>8, <2>1, JobsUntouched DEF GiveUp
<1>9. CASE RecoverStuck
    <2>1. \A f \in Events : event'[f].status = "PROCESSED" => event[f].status = "PROCESSED"
        BY <1>9 DEF RecoverStuck, TypeOK, Row
    <2> QED BY <1>9, <2>1, JobsUntouched DEF RecoverStuck
<1> QED
    BY <1>1, <1>2, <1>3, <1>4, <1>5, <1>6, <1>7, <1>8, <1>9 DEF Next, DispatchStep

(***************************************************************************)
(* The theorems                                                            *)
(***************************************************************************)
(* The strengthened invariant holds of every reachable state.              *)
THEOREM InvariantHolds == Spec => []IInv
<1>1. IInv /\ [Next]_vars => IInv'
    BY TypesAndAttempts, OneHolderStep, JobFactsStep DEF IInv, JobFacts
<1> QED BY <1>1, InitIInv, PTL DEF Spec

(* Every variable holds a value of its kind; no job is tried more often    *)
(* than defaultJobOptions allow.                                           *)
THEOREM TypeCorrectness == Spec => []TypeOK
<1>1. IInv => TypeOK
    BY DEF IInv
<1> QED BY <1>1, InvariantHolds, PTL

(* claim(): no two dispatchers work on one event, unless recoverStuck()    *)
(* put it back while one of them held it.                                  *)
THEOREM ClaimsAreExclusive == Spec => []OneHolder
<1>1. IInv => OneHolder
    BY DEF IInv
<1> QED BY <1>1, InvariantHolds, PTL

(* dispatch(): whatever crashes, fails or is put back, no event is marked  *)
(* PROCESSED without a job for it.                                         *)
THEOREM NoEventIsLost == Spec => []ProcessedHasJob
<1>1. IInv => ProcessedHasJob
    BY DEF IInv
<1> QED BY <1>1, InvariantHolds, PTL

(* The job id: an event has one job, and one more each time BullMQ has     *)
(* forgotten the last.                                                     *)
THEOREM JobIdDeduplicates == Spec => []DeliveredOnce
<1>1. IInv => DeliveredOnce
    BY DEF IInv
<1> QED BY <1>1, InvariantHolds, PTL

(* A settled row of an event that is not contested is never written again. *)
THEOREM SettledRowsStay == Spec => SettledStaysSettled
<1> DEFINE Stays == \A e \in Events \ contested :
           event[e].status \in {"PROCESSED", "DEAD"} => event'[e].status = event[e].status
<1>1. IInv /\ [Next]_vars => [Stays]_vars
    <2> SUFFICES ASSUME IInv, Next, NEW e \in Events \ contested,
                        event[e].status \in {"PROCESSED", "DEAD"}
                 PROVE  event'[e].status = event[e].status
        OBVIOUS
    <2>1. ~Held(e) /\ event \in [Events -> Row] /\ hold \in [Workers -> [Events -> Hold]]
        BY DEF IInv, OneHolder, TypeOK
    <2>2. ASSUME NEW f \in Events, Emit(f) \/ BecomeDue(f) \/ GrowOld(f)
          PROVE  event'[e].status = event[e].status
        BY <2>2, RowActionsStatus DEF IInv
    <2>3. ASSUME NEW f \in Events, StartJob(f) \/ EndJob(f) \/ ForgetJob(f)
          PROVE  event'[e].status = event[e].status
        BY <2>3 DEF StartJob, EndJob, CompleteJob, FailJob, StallJob, ForgetJob, JobTo
    <2>4. ASSUME NEW w \in Workers, Claim(w)
          PROVE  event'[e].status = event[e].status
        BY <2>1, <2>4 DEF Claim, Claimable
    <2>5. ASSUME NEW w \in Workers, NEW f \in Events,
                 MarkProcessed(w, f) \/ MarkFailed(w, f)
          PROVE  event'[e].status = event[e].status
        <3>1. f # e
            BY <2>1, <2>5 DEF MarkProcessed, MarkFailed, Held, Holds
        <3> QED BY <2>1, <2>5, <3>1 DEF MarkProcessed, MarkFailed
    <2>6. CASE RecoverStuck
        BY <2>1, <2>6 DEF RecoverStuck, Stuck
    <2> QED BY <2>2, <2>3, <2>4, <2>5, <2>6
            DEF Next, DispatchStep, GiveUp, Publish, PublishFails, MarkingFails
<1> QED BY <1>1, InvariantHolds, PTL DEF Spec, SettledStaysSettled

(***************************************************************************)
(* Mail implements Outbox                                                  *)
(***************************************************************************)
(* A step of the handler is a step of its job or none of Outbox's.         *)
LEMMA HandlerStepIsJobStep ==
    ASSUME NEW e \in Events, HandlerStep(e)
    PROVE  \/ StartJob(e) \/ EndJob(e) \/ ForgetJob(e)
           \/ UNCHANGED vars
BY DEF HandlerStep, Handle, LogQueued, Send, SendFails, LogSent, LoggingFails,
       Rethrow, Throw, Return, EndJob

(* The jobs that EmailProcessor runs behave as Outbox says jobs do, and as *)
(* fairly.                                                                 *)
THEOREM MailIsOutbox == (MailSpec => Spec) /\ (MailFairSpec => FairSpec)
<1>1. MailInit => Init
    BY DEF MailInit
<1>2. [MailNext]_<<vars, mailVars>> => [Next]_vars
    BY HandlerStepIsJobStep DEF MailNext, Next
<1> QED BY <1>1, <1>2, PTL DEF MailSpec, MailFairSpec, Spec, FairSpec

(***************************************************************************)
(* What a run of the job has logged and sent                               *)
(***************************************************************************)
Active(e) == job[e].state = "ACTIVE"

(* Whom the run has reached, or may have.                                  *)
Reached(e, m) ==
    \/ m \in run[e].done
    \/ m = run[e].box /\ run[e].step \in {"SENT", "REFUSED"}

(* A run writes to recipients only, and to each of them once.              *)
BoxIsNext(e) ==
    run[e].step # "NEXT" => run[e].box \in Mailboxes /\ run[e].box \notin run[e].done

ReachedAreWritten(e) ==
    \A m \in Mailboxes :
        m \in run[e].done \/ (m = run[e].box /\ run[e].step = "SENT") => sent[e][m] > 0

(* The row of the recipient at hand is still QUEUED.                       *)
RowOfTheRun(e) ==
    Active(e) =>
        /\ run[e].step # "NEXT" => Rows(e).queued > 0
        /\ run[e].step = "LOGGED" =>
               sent[e][run[e].box] < Rows(e).queued + Rows(e).sent + Rows(e).failed
        /\ run[e].step = "SENT" => Rows(e).sent < sent[e][run[e].box]

(* All that n jobs of an event may send a recipient.                       *)
Allowance(n) == n * (JobAttempts + 1)

Spent(e) == job[e].tries + IF job[e].stalled THEN 1 ELSE 0

(* What was sent is paid for by attempts, a stall, and the run at hand.    *)
Paid(e, m) ==
    /\ job[e].state = "NONE" => sent[e][m] = 0
    /\ job[e].state = "WAITING" =>
           sent[e][m] + JobAttempts + 1 <= Allowance(job[e].created) + Spent(e)
    /\ Active(e) => sent[e][m] + JobAttempts + 1 <=
           Allowance(job[e].created) + Spent(e) + IF Reached(e, m) THEN 1 ELSE 0
    /\ job[e].state \in {"COMPLETED", "FAILED", "FORGOTTEN"} =>
           sent[e][m] <= Allowance(job[e].created)

Covered(e, m) ==
    /\ log[e][m].sent <= sent[e][m]
    /\ sent[e][m] <= log[e][m].queued + log[e][m].sent + log[e][m].failed

Told(e) == \A m \in Mailboxes : Ended(e) /\ m \in to[e] => sent[e][m] > 0

Fine(e) ==
    /\ BoxIsNext(e)
    /\ ReachedAreWritten(e)
    /\ RowOfTheRun(e)
    /\ Told(e)
    /\ \A m \in Mailboxes : Paid(e, m) /\ Covered(e, m)

MInv == MailTypeOK /\ \A e \in Events : Fine(e)

(* Another job allows as much again.                                       *)
LEMMA AllowanceGrows ==
    ASSUME NEW n \in Nat
    PROVE  Allowance(n) \in Nat /\ Allowance(n + 1) = Allowance(n) + JobAttempts + 1
BY OutboxAssumption DEF OutboxAssumption, Allowance

(* What a step leaves alone stays fine.                                    *)
LEMMA FineStays ==
    ASSUME NEW e \in Events, Fine(e), job'[e] = job[e], run'[e] = run[e],
           log'[e] = log[e], sent'[e] = sent[e], to'[e] = to[e]
    PROVE  Fine(e)'
BY DEF Fine, BoxIsNext, ReachedAreWritten, RowOfTheRun, Told, Paid, Covered,
       Ended, Active, Reached, Rows, Spent

(* An event that nobody has a job for has had nothing sent that its past   *)
(* jobs do not account for; the new one starts unspent.                    *)
LEMMA NewJobIsFine ==
    ASSUME TypeOK, MInv, NEW e \in Events, AddJob(e), Unknown(e), UNCHANGED mailVars
    PROVE  Fine(e)'
<1>1. job[e] \in Job /\ Fine(e)
    BY DEF TypeOK, MInv
<1>2. job'[e] = [state |-> "WAITING", tries |-> 0, stalled |-> FALSE,
                 created |-> job[e].created + 1, forgets |-> job[e].forgets]
    BY DEF AddJob, TypeOK
<1>3. ~Active(e)' /\ UNCHANGED <<to, run, log, sent>> /\ (Ended(e)' => Ended(e))
    BY <1>2 DEF mailVars, Active, Ended
<1>4. BoxIsNext(e)' /\ ReachedAreWritten(e)' /\ RowOfTheRun(e)' /\ Told(e)'
    BY <1>1, <1>3 DEF Fine, BoxIsNext, ReachedAreWritten, RowOfTheRun, Told
<1>5. ASSUME NEW m \in Mailboxes PROVE Paid(e, m)'
    <2>1. job[e].created \in Nat /\ sent[e][m] \in Nat /\ JobAttempts \in Nat
        BY <1>1, OutboxAssumption DEF OutboxAssumption, Job, MInv, MailTypeOK
    <2>2. sent[e][m] <= Allowance(job[e].created)
        <3>1. Allowance(job[e].created) \in Nat
            BY <2>1, AllowanceGrows
        <3>2. Paid(e, m)
            BY <1>1 DEF Fine
        <3>3. CASE job[e].state = "NONE"
            BY <2>1, <3>1, <3>2, <3>3 DEF Paid
        <3>4. CASE job[e].state = "FORGOTTEN"
            BY <3>2, <3>4 DEF Paid, Active
        <3> QED BY <3>3, <3>4 DEF Unknown
    <2>3. Allowance(job'[e].created) = Allowance(job[e].created) + JobAttempts + 1
        BY <1>2, <2>1, AllowanceGrows
    <2>4. Spent(e)' = 0
        BY <1>2 DEF Spent
    <2>5. sent'[e][m] + JobAttempts + 1 <= Allowance(job'[e].created) + Spent(e)'
        <3>1. sent'[e][m] = sent[e][m]
            BY <1>3
        <3>2. Allowance(job[e].created) \in Nat
            BY <2>1, AllowanceGrows
        <3> QED BY <2>1, <2>2, <2>3, <2>4, <3>1, <3>2
    <2>6. job'[e].state = "WAITING"
        BY <1>2
    <2> QED BY <2>5, <2>6 DEF Paid, Active, Allowance
<1>6. \A m \in Mailboxes : Covered(e, m)'
    BY <1>1, <1>3 DEF Fine, Covered
<1> QED BY <1>4, <1>5, <1>6 DEF Fine

(* The dispatcher adds jobs and does nothing else to them.                 *)
LEMMA DispatchKeepsFine ==
    ASSUME TypeOK, MInv, DispatchStep, UNCHANGED mailVars
    PROVE  MInv'
<1>1. MailTypeOK'
    BY DEF MInv, MailTypeOK, mailVars
<1>2. UNCHANGED job \/ \E f \in Events : AddJob(f)
    BY DEF DispatchStep, Emit, BecomeDue, GrowOld, Claim, GiveUp, Publish, PublishFails,
           MarkProcessed, MarkingFails, MarkFailed, RecoverStuck
<1>3. ASSUME NEW e \in Events PROVE Fine(e)'
    <2>1. Fine(e) /\ run'[e] = run[e] /\ log'[e] = log[e] /\ sent'[e] = sent[e] /\ to'[e] = to[e]
        BY DEF MInv, mailVars
    <2>2. CASE job'[e] = job[e]
        BY <2>1, <2>2, FineStays
    <2>3. CASE job'[e] # job[e]
        <3>1. PICK f \in Events : AddJob(f)
            BY <1>2, <2>3
        <3>2. f = e /\ Unknown(e)
            BY <2>3, <3>1 DEF AddJob, TypeOK
        <3> QED BY <3>1, <3>2, NewJobIsFine
    <2> QED BY <2>2, <2>3
<1> QED BY <1>1, <1>3 DEF MInv

(* The states a run may leave its job in.                                  *)
LEMMA EndStops ==
    ASSUME TypeOK, NEW e \in Events, EndJob(e) \/ ForgetJob(e)
    PROVE  ~Active(e)'
<1>1. job[e] \in Job
    BY DEF TypeOK
<1> DEFINE Over == {"WAITING", "COMPLETED", "FAILED", "FORGOTTEN"}
<1>2. job'[e].state \in Over
    <2>1. CASE CompleteJob(e)
        <3>1. job'[e] = [job[e] EXCEPT !.state = "COMPLETED"]
            BY <2>1 DEF CompleteJob, JobTo, TypeOK
        <3> QED BY <1>1, <3>1 DEF Job
    <2>2. CASE FailJob(e)
        <3>1. job'[e] = [job[e] EXCEPT !.tries = job[e].tries + 1,
                  !.state = IF job[e].tries + 1 < JobAttempts THEN "WAITING" ELSE "FAILED"]
            BY <2>2 DEF FailJob, JobTo, TypeOK
        <3> QED BY <1>1, <3>1 DEF Job
    <2>3. CASE StallJob(e)
        <3>1. job'[e] = [job[e] EXCEPT !.stalled = TRUE,
                  !.state = IF job[e].stalled THEN "FAILED" ELSE "WAITING"]
            BY <2>3 DEF StallJob, JobTo, TypeOK
        <3> QED BY <1>1, <3>1 DEF Job
    <2>4. CASE ForgetJob(e)
        <3>1. job'[e] = [job[e] EXCEPT !.state = "FORGOTTEN", !.forgets = job[e].forgets + 1]
            BY <2>4 DEF ForgetJob, JobTo, TypeOK
        <3> QED BY <1>1, <3>1 DEF Job
    <2> QED BY <2>1, <2>2, <2>3, <2>4 DEF EndJob
<1> QED BY <1>2 DEF Active

(* A run ends by using up an attempt, by stalling, or for good: whichever  *)
(* it is pays for what the run has sent.                                   *)
LEMMA EndPays ==
    ASSUME TypeOK, AttemptsLeft, MInv, NEW e \in Events, EndJob(e) \/ ForgetJob(e),
           run'[e] = run[e], sent'[e] = sent[e], NEW m \in Mailboxes
    PROVE  Paid(e, m)'
<1>1. job[e] \in Job /\ Paid(e, m) /\ sent[e][m] \in Nat
    BY DEF TypeOK, MInv, MailTypeOK, Fine
<1>2. /\ JobAttempts \in Nat /\ job[e].created \in Nat /\ job[e].tries \in Nat
      /\ job[e].stalled \in BOOLEAN
    BY <1>1, OutboxAssumption DEF OutboxAssumption, Job
<1> DEFINE most == Allowance(job[e].created)
<1>3. most \in Nat
    BY <1>2, AllowanceGrows
<1>4. ASSUME Active(e)
      PROVE  /\ sent[e][m] + JobAttempts <= most + job[e].tries + IF job[e].stalled THEN 1 ELSE 0
             /\ job[e].tries < JobAttempts
    <2>1. sent[e][m] + JobAttempts + 1 <= most + Spent(e) + IF Reached(e, m) THEN 1 ELSE 0
        BY <1>1, <1>4 DEF Paid
    <2>2. job[e].tries < JobAttempts
        BY <1>4 DEF AttemptsLeft, Active
    <2> QED BY <1>1, <1>2, <1>3, <2>1, <2>2 DEF Spent
<1>5. CASE CompleteJob(e)
    <2>1. Active(e) /\ job'[e] = [job[e] EXCEPT !.state = "COMPLETED"]
        BY <1>5 DEF CompleteJob, JobTo, TypeOK, Active
    <2>2. job'[e].state = "COMPLETED" /\ job'[e].created = job[e].created
        BY <1>1, <2>1 DEF Job
    <2>3. sent[e][m] <= most
        BY <1>1, <1>2, <1>3, <1>4, <2>1
    <2> QED BY <2>2, <2>3 DEF Paid, Active, Allowance
<1>6. CASE FailJob(e)
    <2>1. Active(e) /\ job'[e] = [job[e] EXCEPT !.tries = job[e].tries + 1,
              !.state = IF job[e].tries + 1 < JobAttempts THEN "WAITING" ELSE "FAILED"]
        BY <1>6 DEF FailJob, JobTo, TypeOK, Active
    <2>2. /\ job'[e].state \in {"WAITING", "FAILED"}
          /\ job'[e].created = job[e].created
          /\ job'[e].tries = job[e].tries + 1
          /\ job'[e].stalled = job[e].stalled
        BY <1>1, <2>1 DEF Job
    <2>3. sent[e][m] + JobAttempts + 1 <= most + Spent(e)'
        BY <1>1, <1>2, <1>3, <1>4, <2>1, <2>2 DEF Spent
    <2>4. sent[e][m] <= most
        BY <1>1, <1>2, <1>3, <1>4, <2>1
    <2> QED BY <2>2, <2>3, <2>4 DEF Paid, Active, Allowance
<1>7. CASE StallJob(e)
    <2>1. Active(e) /\ job'[e] = [job[e] EXCEPT !.stalled = TRUE,
              !.state = IF job[e].stalled THEN "FAILED" ELSE "WAITING"]
        BY <1>7 DEF StallJob, JobTo, TypeOK, Active
    <2>2. /\ job'[e].state = IF job[e].stalled THEN "FAILED" ELSE "WAITING"
          /\ job'[e].created = job[e].created
          /\ job'[e].tries = job[e].tries
          /\ job'[e].stalled
        BY <1>1, <2>1 DEF Job
    <2>3. CASE job[e].stalled
        <3>1. sent[e][m] <= most
            BY <1>1, <1>2, <1>3, <1>4, <2>1
        <3> QED BY <2>2, <2>3, <3>1 DEF Paid, Active, Allowance
    <2>4. CASE ~job[e].stalled
        <3>1. sent[e][m] + JobAttempts + 1 <= most + Spent(e)'
            BY <1>1, <1>2, <1>3, <1>4, <2>1, <2>2, <2>4 DEF Spent
        <3> QED BY <2>2, <2>4, <3>1 DEF Paid, Active, Allowance
    <2> QED BY <2>3, <2>4
<1>8. CASE ForgetJob(e)
    <2>1. /\ job[e].state = "COMPLETED"
          /\ job'[e] = [job[e] EXCEPT !.state = "FORGOTTEN", !.forgets = job[e].forgets + 1]
        BY <1>8 DEF ForgetJob, JobTo, TypeOK
    <2>2. job'[e].state = "FORGOTTEN" /\ job'[e].created = job[e].created
        BY <1>1, <2>1 DEF Job
    <2> QED BY <1>1, <2>1, <2>2 DEF Paid, Active, Allowance
<1> QED BY <1>5, <1>6, <1>7, <1>8 DEF EndJob

(* A cell of a table by event and mailbox is written alone.                *)
LEMMA CellWritten ==
    ASSUME NEW S, NEW F \in [Events -> [Mailboxes -> S]], NEW e \in Events,
           NEW m \in Mailboxes, NEW x \in S
    PROVE  LET G == [F EXCEPT ![e][m] = x] IN
               /\ G \in [Events -> [Mailboxes -> S]]
               /\ G[e][m] = x
               /\ \A n \in Mailboxes : n # m => G[e][n] = F[e][n]
               /\ \A f \in Events : f # e => G[f] = F[f]
<1>1. [F EXCEPT ![e][m] = x] = [F EXCEPT ![e] = [F[e] EXCEPT ![m] = x]]
    OBVIOUS
<1>2. F[e] \in [Mailboxes -> S] /\ [F[e] EXCEPT ![m] = x] \in [Mailboxes -> S]
    OBVIOUS
<1> QED BY <1>1, <1>2

(* A job is handed out: its run has written to nobody yet.                 *)
LEMMA HandleIsFine ==
    ASSUME TypeOK, MInv, NEW e \in Events, Handle(e)
    PROVE  MailTypeOK' /\ Fine(e)'
<1>1. job[e] \in Job /\ Fine(e)
    BY DEF TypeOK, MInv
<1>2. FirstOf \in Run
    BY DEF FirstOf, Run
<1>3. UNCHANGED <<to, log, sent>> /\ run'[e] = FirstOf /\ run' \in [Events -> Run]
    BY <1>2 DEF Handle, MInv, MailTypeOK
<1>4. job[e].state = "WAITING" /\ job'[e] = [job[e] EXCEPT !.state = "ACTIVE"]
    BY DEF Handle, StartJob, JobTo, TypeOK
<1>5. /\ job'[e].state = "ACTIVE"
      /\ job'[e].created = job[e].created /\ job'[e].forgets = job[e].forgets
      /\ job'[e].tries = job[e].tries /\ job'[e].stalled = job[e].stalled
    BY <1>1, <1>4 DEF Job
<1>6. BoxIsNext(e)' /\ ReachedAreWritten(e)' /\ RowOfTheRun(e)'
    BY <1>3 DEF FirstOf, BoxIsNext, ReachedAreWritten, RowOfTheRun
<1>7. Told(e)' /\ \A m \in Mailboxes : Covered(e, m)'
    BY <1>1, <1>3, <1>5 DEF Fine, Told, Ended, Covered
<1>8. ASSUME NEW m \in Mailboxes PROVE Paid(e, m)'
    <2>1. sent[e][m] + JobAttempts + 1 <= Allowance(job[e].created) + Spent(e)
        BY <1>1, <1>4 DEF Fine, Paid
    <2>2. ~Reached(e, m)' /\ Spent(e)' = Spent(e)
        BY <1>3, <1>5 DEF Reached, FirstOf, Spent
    <2>3. sent'[e][m] + JobAttempts + 1 <= Allowance(job[e].created) + Spent(e)'
        BY <1>3, <2>1, <2>2
    <2>4. Spent(e) \in Nat /\ Allowance(job[e].created) \in Nat
        BY <1>1, AllowanceGrows DEF Job, Spent
    <2> QED BY <1>5, <2>2, <2>3, <2>4 DEF Paid, Active, Allowance
<1> QED BY <1>3, <1>6, <1>7, <1>8 DEF Fine, MInv, MailTypeOK

(* LogQueued(), Send() and what may become of it: the steps of a run that  *)
(* leave its job running.                                                  *)
RunStep(e) ==
    \/ \E m \in Mailboxes : LogQueued(e, m)
    \/ Send(e) \/ SendFails(e) \/ LogSent(e) \/ LoggingFails(e)

(* Before the run has reached its mailbox nothing of it is counted, and    *)
(* from then on one mail is.                                               *)
LEMMA RunStepPays ==
    ASSUME TypeOK, MInv, NEW e \in Events, Active(e), NEW m \in Mailboxes,
           UNCHANGED job, sent'[e][m] \in Nat,
           \/ sent'[e][m] = sent[e][m] /\ (Reached(e, m) => Reached(e, m)')
           \/ sent'[e][m] <= sent[e][m] + 1 /\ ~Reached(e, m) /\ Reached(e, m)'
    PROVE  Paid(e, m)'
<1>1. job[e] \in Job /\ Paid(e, m) /\ sent[e][m] \in Nat
    BY DEF TypeOK, MInv, MailTypeOK, Fine
<1>2. JobAttempts \in Nat /\ Allowance(job[e].created) \in Nat /\ Spent(e) \in Nat
    BY <1>1, AllowanceGrows, OutboxAssumption DEF OutboxAssumption, Job, Spent
<1>3. Spent(e)' = Spent(e) /\ job'[e] = job[e]
    BY DEF Spent
<1>4. sent[e][m] + JobAttempts + 1 <=
          Allowance(job[e].created) + Spent(e) + IF Reached(e, m) THEN 1 ELSE 0
    BY <1>1 DEF Paid
<1>5. sent'[e][m] + JobAttempts + 1 <=
          Allowance(job[e].created) + Spent(e) + IF Reached(e, m)' THEN 1 ELSE 0
    BY <1>1, <1>2, <1>4
<1> QED BY <1>3, <1>5 DEF Paid, Active, Allowance

Counts == [queued : Nat, sent : Nat, failed : Nat]

(* Who is next has a row before there is a mail.                           *)
LEMMA LogQueuedIsFine ==
    ASSUME TypeOK, MInv, NEW e \in Events, NEW b \in Mailboxes, LogQueued(e, b)
    PROVE  MailTypeOK' /\ Fine(e)'
<1>1. /\ Fine(e) /\ Active(e) /\ run[e] \in Run /\ run[e].step = "NEXT"
      /\ b \notin run[e].done
    BY DEF MInv, MailTypeOK, LogQueued, Running, Active
<1>2. UNCHANGED <<job, to, sent>>
    BY DEF LogQueued, vars
<1>3. log[e][b] \in Counts /\ log \in [Events -> [Mailboxes -> Counts]]
    BY DEF MInv, MailTypeOK, Counts
<1> DEFINE row == [log[e][b] EXCEPT !.queued = @ + 1]
<1>4. /\ row \in Counts /\ row.queued = log[e][b].queued + 1
      /\ row.sent = log[e][b].sent /\ row.failed = log[e][b].failed
    BY <1>3 DEF Counts
<1>5. log' = [log EXCEPT ![e][b] = row]
    BY DEF LogQueued
<1> HIDE DEF row
<1>6. /\ log' \in [Events -> [Mailboxes -> Counts]] /\ log'[e][b] = row
      /\ \A n \in Mailboxes : n # b => log'[e][n] = log[e][n]
    BY <1>3, <1>4, <1>5, CellWritten
<1>7. run'[e] = [run[e] EXCEPT !.step = "LOGGED", !.box = b] /\ run' \in [Events -> Run]
    BY <1>1 DEF LogQueued, MInv, MailTypeOK, Run
<1>8. run'[e].step = "LOGGED" /\ run'[e].box = b /\ run'[e].done = run[e].done
    BY <1>1, <1>7 DEF Run
<1>9. \A n \in Mailboxes : Covered(e, n)'
    <2>1. \A n \in Mailboxes : Covered(e, n) /\ sent[e][n] \in Nat
        BY <1>1 DEF Fine, MInv, MailTypeOK
    <2>2. Covered(e, b)'
        BY <1>2, <1>3, <1>4, <1>6, <2>1 DEF Covered, Counts
    <2> QED BY <1>2, <1>6, <2>1, <2>2 DEF Covered
<1>10. RowOfTheRun(e)'
    <2>1. Covered(e, b) /\ sent[e][b] \in Nat
        BY <1>1 DEF Fine, MInv, MailTypeOK
    <2>2. row.queued > 0 /\ sent[e][b] < row.queued + row.sent + row.failed
        BY <1>3, <1>4, <2>1 DEF Covered, Counts
    <2> QED BY <1>2, <1>6, <1>8, <2>2 DEF RowOfTheRun, Rows
<1>11. BoxIsNext(e)' /\ ReachedAreWritten(e)' /\ Told(e)'
    BY <1>1, <1>2, <1>8 DEF Fine, BoxIsNext, ReachedAreWritten, Told, Ended
<1>12. \A m \in Mailboxes : Paid(e, m)'
    BY <1>1, <1>2, <1>8, RunStepPays DEF Reached, MInv, MailTypeOK
<1> QED BY <1>2, <1>6, <1>7, <1>9, <1>10, <1>11, <1>12 DEF Fine, MInv, MailTypeOK, Counts

(* The mail goes out, or the transport throws and it may have.             *)
LEMMA SendIsFine ==
    ASSUME TypeOK, MInv, NEW e \in Events, Send(e) \/ SendFails(e)
    PROVE  MailTypeOK' /\ Fine(e)'
<1>1. Fine(e) /\ Active(e) /\ run[e] \in Run /\ run[e].step = "LOGGED"
    BY DEF MInv, MailTypeOK, Send, SendFails, Running, Active
<1>2. UNCHANGED <<job, to, log>>
    BY DEF Send, SendFails, vars
<1>3. PICK b \in Mailboxes : b = run[e].box /\ b \notin run[e].done
    BY <1>1 DEF Fine, BoxIsNext
<1>4. sent \in [Events -> [Mailboxes -> Nat]] /\ sent[e][b] \in Nat /\ Rows(e) \in Counts
    BY <1>3 DEF MInv, MailTypeOK, Rows, Counts
<1>5. PICK accepted \in 0..1 :
          /\ sent' = [sent EXCEPT ![e][b] = sent[e][b] + accepted]
          /\ Send(e) => accepted = 1
    <2>1. CASE Send(e)
        <3> WITNESS 1 \in 0..1
        <3> QED BY <1>3, <2>1 DEF Send
    <2>2. CASE ~Send(e)
        <3>1. SendFails(e)
            BY <2>2
        <3> QED BY <1>3, <2>2, <3>1, Zenon DEF SendFails
    <2> QED BY <2>1, <2>2
<1>6. /\ sent' \in [Events -> [Mailboxes -> Nat]] /\ sent'[e][b] = sent[e][b] + accepted
      /\ \A n \in Mailboxes : n # b => sent'[e][n] = sent[e][n]
    BY <1>3, <1>4, <1>5, CellWritten
<1>7. PICK step \in {"SENT", "REFUSED"} : ToStep(e, step) /\ (step = "SENT" => Send(e))
    BY DEF Send, SendFails
<1>8. run'[e] = [run[e] EXCEPT !.step = step] /\ run' \in [Events -> Run]
    BY <1>1, <1>7 DEF ToStep, MInv, MailTypeOK, Run
<1>9. run'[e].step = step /\ run'[e].box = b /\ run'[e].done = run[e].done
    BY <1>1, <1>3, <1>8 DEF Run
<1>10. Rows(e)' = Rows(e) /\ Rows(e) = log[e][b]
    BY <1>2, <1>3, <1>9 DEF Rows
<1>11. /\ Rows(e).queued > 0
       /\ sent[e][b] < Rows(e).queued + Rows(e).sent + Rows(e).failed
       /\ Rows(e).sent <= sent[e][b]
    BY <1>1, <1>3, <1>10 DEF Fine, RowOfTheRun, Covered
<1>12. \A n \in Mailboxes : Covered(e, n)'
    <2>1. Covered(e, b)'
        BY <1>2, <1>4, <1>6, <1>10, <1>11 DEF Covered, Counts
    <2> QED BY <1>1, <1>2, <1>6, <2>1 DEF Fine, Covered
<1>13. RowOfTheRun(e)'
    <2>1. step = "SENT" => Rows(e).sent < sent'[e][b]
        BY <1>4, <1>5, <1>6, <1>7, <1>11 DEF Counts
    <2> QED BY <1>9, <1>10, <1>11, <2>1 DEF RowOfTheRun
<1>14. \A n \in Mailboxes : sent'[e][n] >= sent[e][n] /\ sent'[e][n] \in Nat /\ sent[e][n] \in Nat
    BY <1>3, <1>4, <1>6
<1>15. ReachedAreWritten(e)'
    <2>1. step = "SENT" => sent'[e][b] > 0
        BY <1>4, <1>5, <1>6, <1>7
    <2>2. \A m \in run[e].done \cap Mailboxes : sent'[e][m] > 0
        BY <1>1, <1>14 DEF Fine, ReachedAreWritten
    <2> QED BY <1>9, <2>1, <2>2 DEF ReachedAreWritten
<1>16. BoxIsNext(e)' /\ Told(e)'
    BY <1>1, <1>2, <1>3, <1>9, <1>14 DEF Fine, BoxIsNext, Told, Ended
<1>17. ASSUME NEW m \in Mailboxes PROVE Paid(e, m)'
    <2>1. CASE m = b
        <3>1. ~Reached(e, m) /\ Reached(e, m)'
            BY <1>1, <1>3, <1>9, <2>1 DEF Reached
        <3>2. sent'[e][m] <= sent[e][m] + 1
            BY <1>4, <1>6, <2>1
        <3> QED BY <1>1, <1>2, <1>14, <3>1, <3>2, RunStepPays
    <2>2. CASE m # b
        <3>1. sent'[e][m] = sent[e][m] /\ (Reached(e, m) => Reached(e, m)')
            BY <1>1, <1>6, <1>9, <2>2 DEF Reached
        <3> QED BY <1>1, <1>2, <1>14, <3>1, RunStepPays
    <2> QED BY <2>1, <2>2
<1> QED BY <1>2, <1>6, <1>8, <1>12, <1>13, <1>15, <1>16, <1>17 DEF Fine, MInv, MailTypeOK

(* The row turns SENT and the run goes on to the next recipient.           *)
LEMMA LogSentIsFine ==
    ASSUME TypeOK, MInv, NEW e \in Events, LogSent(e)
    PROVE  MailTypeOK' /\ Fine(e)'
<1>1. Fine(e) /\ Active(e) /\ run[e] \in Run /\ run[e].step = "SENT"
    BY DEF MInv, MailTypeOK, LogSent, Running, Active
<1>2. UNCHANGED <<job, to, sent>>
    BY DEF LogSent, vars
<1>3. PICK b \in Mailboxes : b = run[e].box
    BY <1>1 DEF Fine, BoxIsNext
<1>4. /\ log \in [Events -> [Mailboxes -> Counts]] /\ log[e][b] \in Counts
      /\ sent[e][b] \in Nat
    BY DEF MInv, MailTypeOK, Counts
<1>5. log[e][b].queued > 0 /\ log[e][b].sent < sent[e][b] /\ Covered(e, b) /\ sent[e][b] > 0
    BY <1>1, <1>3 DEF Fine, RowOfTheRun, Rows, ReachedAreWritten
<1> DEFINE row == [log[e][b] EXCEPT !.queued = @ - 1, !.sent = @ + 1]
<1>6. /\ row \in Counts /\ row.queued = log[e][b].queued - 1
      /\ row.sent = log[e][b].sent + 1 /\ row.failed = log[e][b].failed
    <2>1. log[e][b].queued - 1 \in Nat /\ log[e][b].sent + 1 \in Nat
        BY <1>4, <1>5 DEF Counts
    <2> QED BY <1>4, <2>1 DEF Counts
<1>7. log' = [log EXCEPT ![e][b] = row]
    BY <1>3 DEF LogSent, Answered, Rows
<1> HIDE DEF row
<1>8. /\ log' \in [Events -> [Mailboxes -> Counts]] /\ log'[e][b] = row
      /\ \A n \in Mailboxes : n # b => log'[e][n] = log[e][n]
    BY <1>4, <1>6, <1>7, CellWritten
<1>9. run'[e] = [FirstOf EXCEPT !.done = run[e].done \cup {b}] /\ run' \in [Events -> Run]
    <2>1. [FirstOf EXCEPT !.done = run[e].done \cup {b}] \in Run
        BY <1>1 DEF FirstOf, Run
    <2> QED BY <1>3, <2>1 DEF LogSent, MInv, MailTypeOK
<1>10. run'[e].step = "NEXT" /\ run'[e].done = run[e].done \cup {b}
    BY <1>9 DEF FirstOf
<1>11. \A n \in Mailboxes : Covered(e, n)'
    <2>1. Covered(e, b)'
        BY <1>2, <1>4, <1>5, <1>6, <1>8 DEF Covered, Counts
    <2> QED BY <1>1, <1>2, <1>8, <2>1 DEF Fine, Covered
<1>12. BoxIsNext(e)' /\ RowOfTheRun(e)' /\ Told(e)'
    BY <1>1, <1>2, <1>10 DEF Fine, BoxIsNext, RowOfTheRun, Told, Ended
<1>13. ReachedAreWritten(e)'
    BY <1>1, <1>2, <1>5, <1>10 DEF Fine, ReachedAreWritten
<1>14. ASSUME NEW m \in Mailboxes PROVE Paid(e, m)'
    <2>1. Reached(e, m) => Reached(e, m)'
        BY <1>1, <1>3, <1>10 DEF Reached
    <2>2. sent'[e][m] = sent[e][m] /\ sent'[e][m] \in Nat
        BY <1>2 DEF MInv, MailTypeOK
    <2> QED BY <1>1, <1>2, <2>1, <2>2, RunStepPays
<1> QED BY <1>2, <1>8, <1>9, <1>11, <1>12, <1>13, <1>14 DEF Fine, MInv, MailTypeOK, Counts

LEMMA LoggingFailsIsFine ==
    ASSUME TypeOK, MInv, NEW e \in Events, LoggingFails(e)
    PROVE  MailTypeOK' /\ Fine(e)'
<1>1. Fine(e) /\ Active(e) /\ run[e] \in Run /\ run[e].step = "SENT"
    BY DEF MInv, MailTypeOK, LoggingFails, Running, Active
<1>2. UNCHANGED <<job, to, log, sent>>
    BY DEF LoggingFails, vars
<1>3. run'[e] = [run[e] EXCEPT !.step = "REFUSED"] /\ run' \in [Events -> Run]
    BY <1>1 DEF LoggingFails, ToStep, MInv, MailTypeOK, Run
<1>4. run'[e].step = "REFUSED" /\ run'[e].box = run[e].box /\ run'[e].done = run[e].done
    BY <1>1, <1>3 DEF Run
<1>5. BoxIsNext(e)' /\ ReachedAreWritten(e)' /\ RowOfTheRun(e)' /\ Told(e)'
    BY <1>1, <1>2, <1>4
       DEF Fine, BoxIsNext, ReachedAreWritten, RowOfTheRun, Rows, Active, Told, Ended
<1>6. \A m \in Mailboxes : Covered(e, m)'
    BY <1>1, <1>2 DEF Fine, Covered
<1>7. \A m \in Mailboxes : Paid(e, m)'
    BY <1>1, <1>2, <1>4, RunStepPays DEF Reached, MInv, MailTypeOK
<1> QED BY <1>2, <1>3, <1>5, <1>6, <1>7 DEF Fine, MInv, MailTypeOK

(* The run is over, one way or another, or its job has been forgotten.     *)
LEMMA EndIsFine ==
    ASSUME TypeOK, AttemptsLeft, MInv, NEW e \in Events,
           \/ Rethrow(e) \/ Throw(e) \/ Return(e)
           \/ (StallJob(e) \/ ForgetJob(e)) /\ UNCHANGED mailVars
    PROVE  MailTypeOK' /\ Fine(e)'
<1>1. Fine(e) /\ job[e] \in Job /\ UNCHANGED <<to, run, sent>>
    BY DEF MInv, TypeOK, Rethrow, Throw, Return, mailVars
<1>2. EndJob(e) \/ ForgetJob(e)
    BY DEF Rethrow, Throw, Return, EndJob
<1>3. ~Active(e)' /\ \A m \in Mailboxes : Paid(e, m)'
    <2>1. ~Active(e)'
        BY <1>1, <1>2, EndStops
    <2>2. \A m \in Mailboxes : Paid(e, m)'
        BY <1>1, <1>2, EndPays
    <2> QED BY <2>1, <2>2
<1>4. BoxIsNext(e)' /\ ReachedAreWritten(e)' /\ RowOfTheRun(e)'
    BY <1>1, <1>3 DEF Fine, BoxIsNext, ReachedAreWritten, RowOfTheRun
<1>5. Told(e)'
    <2>1. CASE Return(e)
        <3>1. \A m \in to[e] : sent[e][m] > 0
            BY <1>1, <2>1 DEF Return, Fine, ReachedAreWritten, MInv, MailTypeOK
        <3> QED BY <1>1, <3>1 DEF Told
    <2>2. CASE ~Return(e)
        <3>1. Ended(e)' => Ended(e)
            <4>1. CASE FailJob(e)
                <5>1. job'[e] = [job[e] EXCEPT !.tries = job[e].tries + 1,
                          !.state = IF job[e].tries + 1 < JobAttempts THEN "WAITING" ELSE "FAILED"]
                    BY <4>1 DEF FailJob, JobTo, TypeOK
                <5>2. job'[e].state # "COMPLETED" /\ job'[e].forgets = job[e].forgets
                    BY <1>1, <5>1 DEF Job
                <5> QED BY <5>2 DEF Ended
            <4>2. CASE StallJob(e)
                <5>1. job'[e] = [job[e] EXCEPT !.stalled = TRUE,
                          !.state = IF job[e].stalled THEN "FAILED" ELSE "WAITING"]
                    BY <4>2 DEF StallJob, JobTo, TypeOK
                <5>2. job'[e].state # "COMPLETED" /\ job'[e].forgets = job[e].forgets
                    BY <1>1, <5>1 DEF Job
                <5> QED BY <5>2 DEF Ended
            <4>3. CASE ForgetJob(e)
                BY <4>3 DEF ForgetJob, JobTo, Ended
            <4> QED BY <2>2, <4>1, <4>2, <4>3 DEF Rethrow, Throw
        <3> QED BY <1>1, <3>1 DEF Fine, Told
    <2> QED BY <2>1, <2>2
<1>6. MailTypeOK' /\ \A m \in Mailboxes : Covered(e, m)'
    <2>1. CASE UNCHANGED log
        BY <1>1, <2>1 DEF Fine, Covered, MInv, MailTypeOK
    <2>2. CASE Rethrow(e) /\ ~UNCHANGED log
        <3>1. Active(e) /\ run[e].step = "REFUSED"
            BY <2>2 DEF Rethrow, Running, Active
        <3>2. PICK b \in Mailboxes : b = run[e].box
            BY <1>1, <3>1 DEF Fine, BoxIsNext
        <3>3. /\ log \in [Events -> [Mailboxes -> Counts]] /\ log[e][b] \in Counts
              /\ sent[e][b] \in Nat /\ log[e][b].queued > 0 /\ Covered(e, b)
            BY <1>1, <3>1, <3>2 DEF Fine, RowOfTheRun, Rows, MInv, MailTypeOK, Counts
        <3> DEFINE row == [log[e][b] EXCEPT !.queued = @ - 1, !.failed = @ + 1]
        <3>4. /\ row \in Counts /\ row.queued = log[e][b].queued - 1
              /\ row.sent = log[e][b].sent /\ row.failed = log[e][b].failed + 1
            <4>1. log[e][b].queued - 1 \in Nat /\ log[e][b].failed + 1 \in Nat
                BY <3>3 DEF Counts
            <4> QED BY <3>3, <4>1 DEF Counts
        <3>5. log' = [log EXCEPT ![e][b] = row]
            BY <2>2, <3>2 DEF Rethrow, Answered, Rows
        <3> HIDE DEF row
        <3>6. /\ log' \in [Events -> [Mailboxes -> Counts]] /\ log'[e][b] = row
              /\ \A n \in Mailboxes : n # b => log'[e][n] = log[e][n]
            BY <3>3, <3>4, <3>5, CellWritten
        <3>7. Covered(e, b)'
            BY <1>1, <3>3, <3>4, <3>6 DEF Covered, Counts
        <3>8. \A m \in Mailboxes : Covered(e, m)'
            BY <1>1, <3>6, <3>7 DEF Fine, Covered
        <3> QED BY <1>1, <3>6, <3>8 DEF MInv, MailTypeOK, Counts
    <2> QED BY <2>1, <2>2 DEF Throw, Return, mailVars
<1> QED BY <1>3, <1>4, <1>5, <1>6 DEF Fine

(* A step of one event's handler is no other event's business.             *)
LEMMA HandlerKeepsFine ==
    ASSUME TypeOK, AttemptsLeft, MInv, NEW e \in Events, HandlerStep(e)
    PROVE  MInv'
<1>1. MailTypeOK' /\ Fine(e)'
    BY HandleIsFine, LogQueuedIsFine, SendIsFine, LogSentIsFine, LoggingFailsIsFine, EndIsFine
       DEF HandlerStep
<1>2. ASSUME NEW f \in Events, f # e PROVE Fine(f)'
    <2>1. job'[f] = job[f]
        BY <1>2 DEF HandlerStep, Handle, LogQueued, Send, SendFails, LogSent, LoggingFails,
               Rethrow, Throw, Return, StartJob, FailJob, CompleteJob, StallJob, ForgetJob,
               JobTo, TypeOK, vars
    <2>2. to'[f] = to[f] /\ run'[f] = run[f]
        BY <1>2 DEF HandlerStep, Handle, LogQueued, Send, SendFails, LogSent, LoggingFails,
               Rethrow, Throw, Return, ToStep, mailVars, MInv, MailTypeOK
    <2>3. log'[f] = log[f] /\ sent'[f] = sent[f]
        BY <1>2 DEF HandlerStep, Handle, LogQueued, Send, SendFails, LogSent, LoggingFails,
               Rethrow, Throw, Return, Answered, mailVars, MInv, MailTypeOK
    <2>4. Fine(f)
        BY DEF MInv
    <2> QED BY <2>1, <2>2, <2>3, <2>4, FineStays
<1> QED BY <1>1, <1>2 DEF MInv

(* "Losing a password reset is not" acceptable: whatever fails or dies     *)
(* between the steps of a run, nobody is left out of a job that is done,   *)
(* nobody is written to more often than its attempts and one stall allow,  *)
(* and the log covers all that went out.                                   *)
THEOREM MailAccounts == MailSpec => []MailIsAccountedFor
<1>1. MailInit => MInv
    <2> SUFFICES ASSUME MailInit PROVE MInv
        OBVIOUS
    <2>1. MailTypeOK
        BY DEF MailInit, MailTypeOK, FirstOf, Run, NoRows
    <2>2. ASSUME NEW e \in Events PROVE Fine(e)
        BY DEF MailInit, Init, Fine, BoxIsNext, ReachedAreWritten, RowOfTheRun, Told, Paid,
               Covered, Active, Ended, FirstOf, NoRows
    <2> QED BY <2>1, <2>2 DEF MInv
<1>2. IInv /\ MInv /\ [MailNext]_<<vars, mailVars>> => MInv'
    <2> SUFFICES ASSUME IInv, MInv, [MailNext]_<<vars, mailVars>>
                 PROVE  MInv'
        OBVIOUS
    <2>1. CASE UNCHANGED <<vars, mailVars>>
        BY <2>1, FineStays DEF MInv, MailTypeOK, vars, mailVars
    <2>2. CASE MailNext
        BY <2>2, DispatchKeepsFine, HandlerKeepsFine DEF MailNext, IInv
    <2> QED BY <2>1, <2>2
<1>3. MInv /\ IInv => MailIsAccountedFor
    <2> SUFFICES ASSUME MInv, IInv PROVE MailIsAccountedFor
        OBVIOUS
    <2>1. MailTypeOK /\ EverybodyIsWrittenTo
        BY DEF MInv, Fine, Told, EverybodyIsWrittenTo
    <2>2. ASSUME NEW e \in Events, NEW m \in Mailboxes
          PROVE  sent[e][m] <= job[e].created * (JobAttempts + 1)
        <3>1. Paid(e, m) /\ job[e] \in Job /\ sent[e][m] \in Nat
            BY DEF MInv, Fine, IInv, TypeOK, MailTypeOK
        <3>2. /\ job[e].created \in Nat /\ job[e].tries \in Nat /\ JobAttempts \in Nat
              /\ Allowance(job[e].created) \in Nat
            BY <3>1, AllowanceGrows, OutboxAssumption DEF OutboxAssumption, Job
        <3>3. job[e].state \in {"WAITING", "ACTIVE"} => Spent(e) <= JobAttempts
            BY <3>1, <3>2 DEF IInv, AttemptsLeft, Spent, Job
        <3>4. Spent(e) \in Nat
            BY <3>1, <3>2 DEF Spent, Job
        <3>5. sent[e][m] <= Allowance(job[e].created)
            BY <3>1, <3>2, <3>3, <3>4 DEF Paid, Active, Job
        <3> QED BY <3>5 DEF Allowance
    <2>3. LogCoversTheMail
        BY DEF MInv, Fine, Covered, LogCoversTheMail
    <2> QED BY <2>1, <2>2, <2>3 DEF MailIsAccountedFor, RepeatsAreBounded
<1> QED BY <1>1, <1>2, <1>3, MailIsOutbox, InvariantHolds, PTL DEF MailSpec
=============================================================================
