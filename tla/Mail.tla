-------------------------------- MODULE Mail --------------------------------
(***************************************************************************)
(* What becomes of a job of the e-mail queue: EmailProcessor               *)
(* (jobs/email.processor.ts) writes to each of an event's recipients by    *)
(* MailService.dispatch() (infrastructure/mail/mail.service.ts), which     *)
(* logs a row, sends, and writes the outcome into the row.                 *)
(*                                                                         *)
(* A run of the job always begins with the first recipient and remembers   *)
(* nothing of an earlier run: where one recipient's mail fails, or the     *)
(* worker dies, those before it are written to again.  This module runs    *)
(* the jobs of Outbox; its steps are steps of Outbox or leave it alone.    *)
(***************************************************************************)
EXTENDS Outbox

CONSTANTS Mailboxes,   \* the addresses an event may be mailed to
          NoMailbox

ASSUME MailAssumption == NoMailbox \notin Mailboxes

VARIABLES to,      \* whom the handler finds to write to, for each event
          run,     \* where the run of each event's job has got
          log,     \* how many rows of email_log each mailbox has in each status
          sent     \* external: how often each mailbox has received the mail

mailVars == <<to, run, log, sent>>

Run == [step : {"NEXT", "LOGGED", "SENT", "REFUSED"},
        box : Mailboxes \cup {NoMailbox}, done : SUBSET Mailboxes]

FirstOf == [step |-> "NEXT", box |-> NoMailbox, done |-> {}]

NoRows == [queued |-> 0, sent |-> 0, failed |-> 0]

MailInit ==
    /\ Init
    /\ to \in [Events -> SUBSET Mailboxes]
    /\ run = [e \in Events |-> FirstOf]
    /\ log = [e \in Events |-> [m \in Mailboxes |-> NoRows]]
    /\ sent = [e \in Events |-> [m \in Mailboxes |-> 0]]

Running(e, step) == job[e].state = "ACTIVE" /\ run[e].step = step

ToStep(e, step) == run' = [run EXCEPT ![e].step = step]

(* The handler begins, with nobody written to yet.                         *)
Handle(e) ==
    /\ StartJob(e)
    /\ run' = [run EXCEPT ![e] = FirstOf]
    /\ UNCHANGED <<to, log, sent>>

(* "Logged before sending, so a message that fails mid-flight still leaves *)
(* a trace."                                                               *)
LogQueued(e, m) ==
    /\ Running(e, "NEXT")
    /\ m \in to[e] \ run[e].done
    /\ log' = [log EXCEPT ![e][m].queued = @ + 1]
    /\ run' = [run EXCEPT ![e].step = "LOGGED", ![e].box = m]
    /\ UNCHANGED <<vars, to, sent>>

Send(e) ==
    /\ Running(e, "LOGGED")
    /\ ToStep(e, "SENT")
    /\ sent' = [sent EXCEPT ![e][run[e].box] = @ + 1]
    /\ UNCHANGED <<vars, to, log>>

(* The transport throws: nothing went out, or only the answer was lost.    *)
SendFails(e) ==
    /\ Running(e, "LOGGED")
    /\ ToStep(e, "REFUSED")
    /\ \E accepted \in 0..1 : sent' = [sent EXCEPT ![e][run[e].box] = @ + accepted]
    /\ UNCHANGED <<vars, to, log>>

Answered(e, rows) == log' = [log EXCEPT ![e][run[e].box] = rows]

Rows(e) == log[e][run[e].box]

LogSent(e) ==
    /\ Running(e, "SENT")
    /\ Answered(e, [Rows(e) EXCEPT !.queued = @ - 1, !.sent = @ + 1])
    /\ run' = [run EXCEPT ![e] = [FirstOf EXCEPT !.done = run[e].done \cup {run[e].box}]]
    /\ UNCHANGED <<vars, to, sent>>

(* The update to SENT throws inside the try: the mail counts as failed.    *)
LoggingFails(e) ==
    /\ Running(e, "SENT")
    /\ ToStep(e, "REFUSED")
    /\ UNCHANGED <<vars, to, log, sent>>

(* Mutant: the failure is logged and not thrown on.                        *)
Swallowed(e) ==
    /\ Running(e, "REFUSED")
    /\ Answered(e, [Rows(e) EXCEPT !.queued = @ - 1, !.failed = @ + 1])
    /\ run' = [run EXCEPT ![e] = [FirstOf EXCEPT !.done = run[e].done \cup {run[e].box}]]
    /\ UNCHANGED <<vars, to, sent>>

(* The row becomes FAILED, unless the database fails that as well, and the *)
(* error is "rethrown so BullMQ retries".                                  *)
Rethrow(e) ==
    /\ Running(e, "REFUSED")
    /\ FailJob(e)
    /\ \/ Answered(e, [Rows(e) EXCEPT !.queued = @ - 1, !.failed = @ + 1])
       \/ UNCHANGED log
    /\ UNCHANGED <<to, run, sent>>

(* What fails before there is a row: a read, the PDF, the row itself.      *)
Throw(e) ==
    /\ Running(e, "NEXT")
    /\ FailJob(e)
    /\ UNCHANGED mailVars

Return(e) ==
    /\ Running(e, "NEXT")
    /\ run[e].done = to[e]
    /\ CompleteJob(e)
    /\ UNCHANGED mailVars

HandlerStep(e) ==
    \/ Handle(e)
    \/ \E m \in Mailboxes : LogQueued(e, m)
    \/ Send(e) \/ SendFails(e) \/ LogSent(e) \/ LoggingFails(e)
    \/ Rethrow(e) \/ Throw(e) \/ Return(e)
    \/ (StallJob(e) \/ ForgetJob(e)) /\ UNCHANGED mailVars

MailNext ==
    \/ DispatchStep /\ UNCHANGED mailVars
    \/ \E e \in Events : HandlerStep(e)

MailSpec == MailInit /\ [][MailNext]_<<vars, mailVars>>

(* A run that was started ends: Outbox's fairness says so of every job.    *)
MailFairSpec == MailSpec /\ Fairness

(***************************************************************************)
(* Properties                                                              *)
(***************************************************************************)
(* Every variable holds a value of its kind.                               *)
MailTypeOK ==
    /\ to \in [Events -> SUBSET Mailboxes]
    /\ run \in [Events -> Run]
    /\ log \in [Events -> [Mailboxes -> [queued : Nat, sent : Nat, failed : Nat]]]
    /\ sent \in [Events -> [Mailboxes -> Nat]]

Ended(e) == job[e].state = "COMPLETED" \/ job[e].forgets > 0

(* "Losing a password reset is not" an acceptable outcome: of an event     *)
(* whose job is done, every recipient has been written to.                 *)
EverybodyIsWrittenTo ==
    \A e \in Events, m \in Mailboxes : Ended(e) /\ m \in to[e] => sent[e][m] > 0

(* Nobody is written to more often than the job may run: its attempts, one *)
(* more if a worker died with it, and all of that again if BullMQ forgot   *)
(* the job and the event came back.                                        *)
RepeatsAreBounded ==
    \A e \in Events, m \in Mailboxes :
        sent[e][m] <= job[e].created * (JobAttempts + 1)

(* The log knows of every mail that went out, and SENT rows tell of mails  *)
(* that did: a row that stays QUEUED or turned FAILED may be of either.    *)
LogCoversTheMail ==
    \A e \in Events, m \in Mailboxes :
        LET rows == log[e][m] IN
            /\ rows.sent <= sent[e][m]
            /\ sent[e][m] <= rows.queued + rows.sent + rows.failed

(* At-least-once, and how much more than once, whatever fails between the  *)
(* steps of a run.                                                         *)
MailIsAccountedFor ==
    /\ MailTypeOK
    /\ EverybodyIsWrittenTo
    /\ RepeatsAreBounded
    /\ LogCoversTheMail
=============================================================================
