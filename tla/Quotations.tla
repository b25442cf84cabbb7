----------------------------- MODULE Quotations -----------------------------
(***************************************************************************)
(* The revisions of one quotation (apps/api/src/modules/sales/             *)
(* quotations.service.ts): editing, sending, acceptance, rejection and     *)
(* revision.  Each operation checks the status it loaded and updates the   *)
(* row by id.  Whether the quotation has lapsed only makes accept() refuse *)
(* and is left out; expireLapsed() is called by nothing.                   *)
(***************************************************************************)
EXTENDS Naturals, FiniteSets

CONSTANTS Users,         \* concurrent requests
          MaxRevisions,  \* bound: revisions of the quotation
          MaxEdits,      \* bound: how often the lines of a revision are replaced
          NoRequest      \* a user with nothing in flight

ASSUME QuotationsAssumption == MaxRevisions \in Nat \ {0} /\ MaxEdits \in Nat

Revisions == 1..MaxRevisions

VARIABLES quotation,  \* one row per revision
          request,    \* what each request has read and is about to commit
          raced       \* history: two requests were at once at work on a revision

quoteVars == <<quotation, request, raced>>

QuotationStatuses == {"NONE", "DRAFT", "SENT", "ACCEPTED", "REJECTED", "CONVERTED"}
Live == {"DRAFT", "SENT", "ACCEPTED", "CONVERTED"}

(* lines and sent are versions of the lines: those of the row, and those   *)
(* of the document the customer was sent, 0 for none.                      *)
Quotation == [status : QuotationStatuses, lines : 1..(MaxEdits + 1),
              sent : 0..(MaxEdits + 1)]

Operations == {"UPDATE", "SEND", "ACCEPT", "REJECT", "REVISE"}
Request    == [kind : Operations, revision : Revisions]

(* The statuses each operation's check lets through.                       *)
From(kind) == CASE kind = "UPDATE" -> {"DRAFT"}
                [] kind = "SEND"   -> {"DRAFT", "SENT"}
                [] kind = "ACCEPT" -> {"SENT"}
                [] kind = "REJECT" -> {"DRAFT", "SENT", "ACCEPTED"}
                [] kind = "REVISE" -> {"DRAFT", "SENT", "ACCEPTED", "REJECTED"}

(* create(): the first revision.                                           *)
QuoteInit ==
    /\ quotation = [r \in Revisions |->
           [status |-> IF r = 1 THEN "DRAFT" ELSE "NONE", lines |-> 1, sent |-> 0]]
    /\ request = [u \in Users |-> NoRequest]
    /\ raced = FALSE

Waiting(u)   == request[u] = NoRequest
InFlight(rev) == \E u \in Users : ~Waiting(u) /\ request[u].revision = rev

Checked(kind, rev) == quotation[rev].status \in From(kind)

LoadQuotation(u, kind, rev) ==
    /\ Waiting(u)
    /\ Checked(kind, rev)
    /\ request' = [request EXCEPT ![u] = [kind |-> kind, revision |-> rev]]
    /\ UNCHANGED quotation

Committing(u, kind) ==
    /\ ~Waiting(u)
    /\ request[u].kind = kind
    /\ request' = [request EXCEPT ![u] = NoRequest]
    /\ UNCHANGED raced

CommitEdit(u) ==
    LET rev == request[u].revision IN
        /\ Committing(u, "UPDATE")
        /\ quotation[rev].lines <= MaxEdits
        /\ quotation' = [quotation EXCEPT ![rev].lines = @ + 1]

(* The document is rendered from the row as it is when it is sent.         *)
CommitSend(u) ==
    LET rev == request[u].revision IN
        /\ Committing(u, "SEND")
        /\ quotation' = [quotation EXCEPT ![rev].status = "SENT",
                                          ![rev].sent = quotation[rev].lines]

CommitTransition(u, kind, status) ==
    /\ Committing(u, kind)
    /\ quotation' = [quotation EXCEPT ![request[u].revision].status = status]

(* revise(): a new revision, whose number a unique index protects; the old *)
(* one is superseded.                                                      *)
(* Mutant: the old revision is left as it was.                             *)
LeftStanding(rev) == quotation[rev].status

Superseded(rev) == "REJECTED"

CommitRevise(u) ==
    LET rev == request[u].revision IN
        /\ Committing(u, "REVISE")
        /\ rev < MaxRevisions
        /\ quotation[rev + 1].status = "NONE"
        /\ quotation' = [quotation EXCEPT ![rev + 1].status = "DRAFT",
                                          ![rev].status = Superseded(rev)]

RollBack(u) ==
    /\ ~Waiting(u)
    /\ request' = [request EXCEPT ![u] = NoRequest]
    /\ UNCHANGED <<quotation, raced>>

QuoteCommit(u) ==
    \/ CommitEdit(u)
    \/ CommitSend(u)
    \/ CommitTransition(u, "ACCEPT", "ACCEPTED")
    \/ CommitTransition(u, "REJECT", "REJECTED")
    \/ CommitRevise(u)
    \/ RollBack(u)

(***************************************************************************)
(* Properties                                                              *)
(***************************************************************************)
QuoteTypeOK ==
    /\ quotation \in [Revisions -> Quotation]
    /\ request \in [Users -> Request \cup {NoRequest}]
    /\ raced \in BOOLEAN

(* At most one revision of a quotation can still be acted upon, and what   *)
(* the customer holds is what the row says, unless two requests overlapped.*)
OneLiveRevision ==
    Cardinality({rev \in Revisions : quotation[rev].status \in Live}) <= 1

CustomerHoldsTheRow ==
    \A rev \in Revisions : quotation[rev].status \in {"SENT", "ACCEPTED"}
        => quotation[rev].sent = quotation[rev].lines
=============================================================================
