------------------------------- MODULE Outbox -------------------------------
(***************************************************************************)
(* The transactional outbox (infrastructure/outbox) and the BullMQ jobs it *)
(* becomes (infrastructure/queue, jobs).                                   *)
(*                                                                         *)
(* A business transaction writes an event row; a dispatcher in each worker *)
(* process claims due rows in batches, adds a job for each and marks the   *)
(* row; a cron puts rows that look abandoned back to PENDING.  The cron    *)
(* goes by the age of the row, not by how long ago it was claimed, so it   *)
(* can put back a row that a live worker still holds: such an event is     *)
(* contested until nobody holds it.                                        *)
(***************************************************************************)
EXTENDS Integers, FiniteSets, FiniteSetsExt

CONSTANTS Events, Workers,
          Routed,        \* events whose type has a queue; the others end here
          BatchSize,     \* OUTBOX_BATCH_SIZE
          MaxAttempts,   \* MAX_ATTEMPTS
          JobAttempts,   \* defaultJobOptions.attempts
          MaxForgets     \* bound on how often BullMQ forgets a completed job

ASSUME OutboxAssumption ==
    /\ Routed \subseteq Events
    /\ BatchSize \in Nat \ {0}
    /\ MaxAttempts \in Nat \ {0}
    /\ JobAttempts \in Nat \ {0}
    /\ MaxForgets \in Nat

VARIABLES event,      \* the outbox row: status, attempts, and whether it is due and old
          hold,       \* what each worker's dispatch loop holds of each event
          job,        \* the BullMQ job of each event
          contested   \* history: events put back while a worker held them

vars == <<event, hold, job, contested>>

EventStatuses == {"NONE", "PENDING", "PROCESSING", "PROCESSED", "FAILED", "DEAD"}
Row  == [status : EventStatuses, attempts : 0..MaxAttempts, due : BOOLEAN, old : BOOLEAN]
Hold == [step : {"NONE"}, attempts : {0}]
            \cup [step : {"CLAIMED", "ADDED", "REFUSED"}, attempts : 1..MaxAttempts]
Job  == [state : {"NONE", "WAITING", "ACTIVE", "COMPLETED", "FAILED", "FORGOTTEN"},
         tries : 0..JobAttempts, stalled : BOOLEAN, created : Nat, forgets : 0..MaxForgets]

NoHold == [step |-> "NONE", attempts |-> 0]

Init ==
    /\ event = [e \in Events |-> [status |-> "NONE", attempts |-> 0, due |-> FALSE, old |-> FALSE]]
    /\ hold = [w \in Workers |-> [e \in Events |-> NoHold]]
    /\ job = [e \in Events |-> [state |-> "NONE", tries |-> 0, stalled |-> FALSE,
                                created |-> 0, forgets |-> 0]]
    /\ contested = {}

(***************************************************************************)
(* The row                                                                 *)
(***************************************************************************)
(* OutboxService.emit(), in the business transaction that causes it.       *)
Emit(e) ==
    /\ event[e].status = "NONE"
    /\ event' = [event EXCEPT ![e].status = "PENDING", ![e].due = TRUE]
    /\ UNCHANGED <<hold, job, contested>>

(* available_at passes.                                                    *)
BecomeDue(e) ==
    /\ event[e].status = "FAILED"
    /\ ~event[e].due
    /\ event' = [event EXCEPT ![e].due = TRUE]
    /\ UNCHANGED <<hold, job, contested>>

(* created_at becomes more than five minutes old.                          *)
GrowOld(e) ==
    /\ event[e].status # "NONE"
    /\ ~event[e].old
    /\ event' = [event EXCEPT ![e].old = TRUE]
    /\ UNCHANGED <<hold, job, contested>>

(***************************************************************************)
(* The dispatcher                                                          *)
(***************************************************************************)
Holds(w, e) == hold[w][e].step # "NONE"
Idle(w)     == \A e \in Events : ~Holds(w, e)
Held(e)     == \E w \in Workers : Holds(w, e)

(* An event stays contested for as long as somebody holds it.              *)
StillContested == {e \in contested : \E w \in Workers : hold'[w][e].step # "NONE"}

(* The count is only ever compared with MAX_ATTEMPTS, so it may stop there.*)
NextAttempt(e) == IF event[e].attempts < MaxAttempts THEN event[e].attempts + 1 ELSE MaxAttempts

(* RETURNING o.attempts: what the worker knows of the event's attempts.    *)
Returned(e) == NextAttempt(e)

(* Mutant: PROCESSING rows are picked up by the next poll as well.         *)
ClaimableAnytime(e) == event[e].status \in {"PENDING", "PROCESSING", "FAILED"} /\ event[e].due

Claimable(e) == event[e].status \in {"PENDING", "FAILED"} /\ event[e].due

(* claim(): one statement, FOR UPDATE SKIP LOCKED.  The running flag keeps *)
(* a worker from claiming before its batch is through.                     *)
Claim(w) ==
    LET due == {e \in Events : Claimable(e)} IN
        /\ Idle(w)
        /\ due # {}
        /\ \E batch \in SUBSET due :
               /\ Cardinality(batch) = Min({BatchSize, Cardinality(due)})
               /\ event' = [e \in Events |->
                     IF e \in batch THEN [event[e] EXCEPT !.status = "PROCESSING",
                                                          !.attempts = NextAttempt(e)]
                     ELSE event[e]]
               /\ hold' = [hold EXCEPT ![w] = [e \in Events |->
                     IF e \in batch THEN [step |-> "CLAIMED", attempts |-> Returned(e)]
                     ELSE NoHold]]
        /\ UNCHANGED <<job, contested>>

(* The batch is dispatched one event after another.                        *)
Turn(w, e) ==
    /\ hold[w][e].step = "CLAIMED"
    /\ \A f \in Events : hold[w][f].step \in {"NONE", "CLAIMED"}

To(w, e, step) == hold' = [hold EXCEPT ![w][e].step = step]

(* Mutant: no jobId, every add makes a job.                                *)
AlwaysNew(e) == TRUE

(* The job id is the event id: BullMQ ignores an id it still knows.        *)
Unknown(e) == job[e].state \in {"NONE", "FORGOTTEN"}

AddJob(e) ==
    IF Unknown(e)
    THEN job' = [job EXCEPT ![e] = [state |-> "WAITING", tries |-> 0, stalled |-> FALSE,
                                    created |-> @.created + 1, forgets |-> @.forgets]]
    ELSE UNCHANGED job

(* dispatch(): a job for an event that has a queue, none for another.      *)
Publish(w, e) ==
    /\ Turn(w, e)
    /\ IF e \in Routed THEN AddJob(e) ELSE UNCHANGED job
    /\ To(w, e, "ADDED")
    /\ UNCHANGED <<event, contested>>

(* Mutant: a failed add is logged and the event is marked all the same.    *)
FailureSwallowed(w, e) ==
    /\ Turn(w, e)
    /\ e \in Routed
    /\ To(w, e, "ADDED")
    /\ UNCHANGED <<event, job, contested>>

(* Redis does not answer.                                                  *)
PublishFails(w, e) ==
    /\ Turn(w, e)
    /\ e \in Routed
    /\ To(w, e, "REFUSED")
    /\ UNCHANGED <<event, job, contested>>

(* markProcessed() throws inside the try of a routed event, which then is  *)
(* marked as failed although its job exists.                               *)
MarkingFails(w, e) ==
    /\ hold[w][e].step = "ADDED"
    /\ e \in Routed
    /\ To(w, e, "REFUSED")
    /\ UNCHANGED <<event, job, contested>>

LetGo(w, e) ==
    /\ hold' = [hold EXCEPT ![w][e] = NoHold]
    /\ contested' = StillContested

(* markProcessed() updates by id, whatever the row's status is by now.     *)
MarkProcessed(w, e) ==
    /\ hold[w][e].step = "ADDED"
    /\ event' = [event EXCEPT ![e].status = "PROCESSED"]
    /\ LetGo(w, e)
    /\ UNCHANGED job

IsExhausted(attempts) == attempts >= MaxAttempts

(* markFailed(): DEAD once the attempts are used up, or due again later.   *)
MarkFailed(w, e) ==
    /\ hold[w][e].step = "REFUSED"
    /\ event' = IF IsExhausted(hold[w][e].attempts)
                THEN [event EXCEPT ![e].status = "DEAD"]
                ELSE [event EXCEPT ![e].status = "FAILED", ![e].due = FALSE]
    /\ LetGo(w, e)
    /\ UNCHANGED job

(* The worker process dies, or the database fails it outside the try and   *)
(* tick() gives the rest of the batch up: the rows stay PROCESSING.        *)
GiveUp(w) ==
    /\ ~Idle(w)
    /\ hold' = [hold EXCEPT ![w] = [e \in Events |-> NoHold]]
    /\ contested' = StillContested
    /\ UNCHANGED <<event, job>>

(***************************************************************************)
(* Recovery                                                                *)
(***************************************************************************)
(* Mutant: recovery looks for FAILED rows.                                 *)
NeverStuck(e) == event[e].status = "FAILED" /\ event[e].old

(* Mutant: recovery forgets to ask for PROCESSING.                         *)
AnyOld(e) == event[e].status # "NONE" /\ event[e].old

(* recoverStuck(): five minutes since the row was created.                 *)
Stuck(e) == event[e].status = "PROCESSING" /\ event[e].old

RecoverStuck ==
    LET stuck == {e \in Events : Stuck(e)} IN
        /\ stuck # {}
        /\ event' = [e \in Events |->
              IF e \in stuck THEN [event[e] EXCEPT !.status = "PENDING", !.due = TRUE]
              ELSE event[e]]
        /\ contested' = contested \cup {e \in stuck : Held(e)}
        /\ UNCHANGED <<hold, job>>

(***************************************************************************)
(* The job: BullMQ and the consumers                                       *)
(***************************************************************************)
JobTo(e, from, row) ==
    /\ job[e].state = from
    /\ job' = [job EXCEPT ![e] = row]
    /\ UNCHANGED <<event, hold, contested>>

StartJob(e) == JobTo(e, "WAITING", [job[e] EXCEPT !.state = "ACTIVE"])

CompleteJob(e) == JobTo(e, "ACTIVE", [job[e] EXCEPT !.state = "COMPLETED"])

(* A processor that throws is tried again until its attempts are used up.  *)
FailJob(e) ==
    JobTo(e, "ACTIVE", [job[e] EXCEPT
        !.tries = job[e].tries + 1,
        !.state = IF job[e].tries + 1 < JobAttempts THEN "WAITING" ELSE "FAILED"])

(* A worker that dies with the job: BullMQ hands it out once more.         *)
StallJob(e) ==
    JobTo(e, "ACTIVE", [job[e] EXCEPT !.stalled = TRUE,
        !.state = IF job[e].stalled THEN "FAILED" ELSE "WAITING"])

(* removeOnComplete: a day, or a thousand younger ones.                    *)
ForgetJob(e) ==
    /\ job[e].forgets < MaxForgets
    /\ JobTo(e, "COMPLETED", [job[e] EXCEPT !.state = "FORGOTTEN",
                                              !.forgets = job[e].forgets + 1])

EndJob(e) == CompleteJob(e) \/ FailJob(e) \/ StallJob(e)

DispatchStep ==
    \/ \E e \in Events : Emit(e) \/ BecomeDue(e) \/ GrowOld(e)
    \/ \E w \in Workers :
           \/ Claim(w)
           \/ GiveUp(w)
           \/ \E e \in Events : \/ Publish(w, e) \/ PublishFails(w, e)
                                \/ MarkProcessed(w, e) \/ MarkingFails(w, e)
                                \/ MarkFailed(w, e)
    \/ RecoverStuck

Next ==
    \/ DispatchStep
    \/ \E e \in Events : StartJob(e) \/ EndJob(e) \/ ForgetJob(e)

Spec == Init /\ [][Next]_vars

(* Time passes, crons and polls go on for ever, and BullMQ hands out what  *)
(* is waiting; a worker may be killed again and again, but not each time   *)
(* it has come to the same event's turn, or to marking it.                 *)
Fairness ==
    /\ WF_vars(\E w \in Workers : Claim(w))
    /\ WF_vars(RecoverStuck)
    /\ \A e \in Events :
           /\ WF_vars(BecomeDue(e))
           /\ WF_vars(GrowOld(e))
           /\ SF_vars(\E w \in Workers : Publish(w, e) \/ PublishFails(w, e))
           /\ SF_vars(\E w \in Workers : MarkProcessed(w, e) \/ MarkFailed(w, e))
           /\ WF_vars(StartJob(e))
           /\ WF_vars(EndJob(e))

FairSpec == Spec /\ Fairness

(***************************************************************************)
(* Properties                                                              *)
(***************************************************************************)
(* Every variable holds a value of its kind.                               *)
TypeOK ==
    /\ event \in [Events -> Row]
    /\ hold \in [Workers -> [Events -> Hold]]
    /\ job \in [Events -> Job]
    /\ contested \subseteq Events

(* SKIP LOCKED: "concurrent workers [...] never process the same event     *)
(* twice" at once, unless recovery put it back under a worker's hands.     *)
OneHolder ==
    \A e \in Events \ contested :
        /\ \A v, w \in Workers : Holds(v, e) /\ Holds(w, e) => v = w
        /\ Held(e) => event[e].status = "PROCESSING"

(* No event is lost on the way to its queue: one that is marked PROCESSED  *)
(* has a job, or had one that BullMQ completed and forgot.                 *)
ProcessedHasJob ==
    \A e \in Routed : event[e].status = "PROCESSED" => job[e].state # "NONE"

(* An event that is claimed anew after a crash between the add and the     *)
(* mark is not delivered twice, unless BullMQ has forgotten its first job. *)
DeliveredOnce == \A e \in Events : job[e].created <= 1 + job[e].forgets

(* A row that is PROCESSED or DEAD stays so: only a worker that holds a    *)
(* contested event can overwrite it.                                       *)
SettledStaysSettled ==
    [][\A e \in Events \ contested :
           event[e].status \in {"PROCESSED", "DEAD"} => event'[e].status = event[e].status]_vars

Handled(e) == job[e].forgets > 0 \/ job[e].state = "COMPLETED"
Parked(e)  == event[e].status = "DEAD" \/ job[e].state = "FAILED"

(* Whatever fails, every event is in the end handled, or parked where it   *)
(* is seen: DEAD in the outbox or FAILED in its queue.                     *)
HandledOrParked ==
    \A e \in Events :
        event[e].status # "NONE" ~>
            IF e \in Routed THEN Handled(e) \/ Parked(e) ELSE event[e].status = "PROCESSED"
=============================================================================
