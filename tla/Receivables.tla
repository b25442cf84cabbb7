----------------------------- MODULE Receivables -----------------------------
(***************************************************************************)
(* Invoices, payments, their allocations, tax notes and the party ledger   *)
(* (apps/api/src/modules/finance).  All documents belong to one party.     *)
(*                                                                         *)
(* Every operation loads its document and checks it before its transaction *)
(* begins, and updates it by id alone.  Three things stand behind such a   *)
(* check, and a step is cut where they matter:                             *)
(*   - allocate() and removeAllocation() hold the payment's row lock from  *)
(*     the moment they read what is unallocated;                           *)
(*   - refreshSettlement() recomputes an invoice's columns from rows it    *)
(*     reads without a lock, and then overwrites the columns;              *)
(*   - triggers and CHECKs of migrations 0010 and 0011 refuse some writes. *)
(* A request is therefore: loaded, locked, summed, committed.              *)
(***************************************************************************)
EXTENDS Integers, FiniteSets, Functions

CONSTANTS Invoices, Payments, Notes,  \* identities of the documents
          Requests,                   \* concurrent API requests
          Kinds,                      \* the operations that requests perform
          GrandTotal,                 \* what every invoice is for
          MaxAmount,                  \* bound on a payment and an allocation
          NoteTotals,                 \* what a tax note may be for
          MaxCredit,                  \* bound on what an invoice's own entries may credit
          NoRequest, NoInvoice

Documents == Invoices \cup Payments \cup Notes
AllKinds  == {"UPDATE", "VERIFY", "ALLOCATE", "REMOVE", "BOUNCE",
              "ISSUE", "CANCEL", "ISSUE_NOTE"}

ASSUME ReceivablesAssumption ==
    /\ Kinds \subseteq AllKinds
    /\ GrandTotal \in Nat \ {0}
    /\ MaxAmount \in Nat \ {0}
    /\ NoteTotals \subseteq Nat \ {0}
    /\ MaxCredit \in Nat
    /\ IsFiniteSet(Invoices) /\ IsFiniteSet(Payments) /\ IsFiniteSet(Notes)
    /\ Invoices \cap Payments = {} /\ Notes \cap (Invoices \cup Payments) = {}

VARIABLES invoice,     \* status, amount_paid and amount_credited
          payment,     \* status, amount + tds_amount, and unallocated_amount
          allocation,  \* payment_allocation.amount per payment and invoice, 0 for no row
          note,        \* tax_note: type, status, original invoice and total
          entries,     \* per document, SUM(debit - credit) of its own ledger entries
          contras,     \* per document, the same of the entries that reverse others
          request,     \* what each request has read and is about to commit
          raced        \* history: per document, what sort of operations overlapped on it

vars == <<invoice, payment, allocation, note, entries, contras, request, raced>>

Amount     == 0..MaxAmount
InvoiceStatuses == {"DRAFT", "ISSUED", "PARTIALLY_PAID", "PAID", "CANCELLED"}
Settlement == [status : InvoiceStatuses, paid : Nat, credited : Int]
Payment    == [status : {"NONE", "RECORDED", "VERIFIED", "BOUNCED"},
               value : Amount, unallocated : Amount]
Note       == [type : {"CREDIT", "DEBIT"}, status : {"NONE", "DRAFT", "ISSUED", "REMOVED"},
               invoice : Invoices \cup {NoInvoice}, total : NoteTotals \cup {0}]

Init ==
    /\ invoice = [i \in Invoices |-> [status |-> "DRAFT", paid |-> 0, credited |-> 0]]
    /\ payment = [p \in Payments |-> [status |-> "NONE", value |-> 0, unallocated |-> 0]]
    /\ allocation = [p \in Payments |-> [i \in Invoices |-> 0]]
    /\ note = [n \in Notes |-> [type |-> "CREDIT", status |-> "NONE",
                                invoice |-> NoInvoice, total |-> 0]]
    /\ entries = [d \in Documents |-> 0]
    /\ contras = [d \in Documents |-> 0]
    /\ request = [r \in Requests |-> NoRequest]
    /\ raced = [d \in Documents |-> {}]

(***************************************************************************)
(* What documents add up to                                                *)
(***************************************************************************)
Signed(n) == IF note[n].type = "CREDIT" THEN note[n].total ELSE -note[n].total

IssuedNotes(i) == {n \in Notes : note[n].status = "ISSUED" /\ note[n].invoice = i}

Applied(allocs, i) == SumFunction([p \in Payments |-> allocs[p][i]])
Credited(notes)    == SumFunction([n \in notes |-> Signed(n)])
Spent(p)           == SumFunction(allocation[p])

Outstanding(i) == GrandTotal - invoice[i].paid - invoice[i].credited

(* Mutant: only receipts settle an invoice, notes are forgotten.           *)
SettledByReceipts(i, allocs, notes) ==
    LET paid == Applied(allocs, i) IN
    [invoice[i] EXCEPT !.paid = paid,
        !.status = IF paid >= GrandTotal THEN "PAID" ELSE @]

(* refreshSettlement(): the columns, from the rows that cause them.        *)
Settled(i, allocs, notes) ==
    LET paid == Applied(allocs, i)
        credited == Credited(notes)
        status == invoice[i].status
    IN  [paid |-> paid, credited |-> credited,
         status |-> CASE status \in {"DRAFT", "CANCELLED"}   -> status
                      [] OTHER -> IF paid + credited >= GrandTotal THEN "PAID"
                                  ELSE IF paid + credited > 0 THEN "PARTIALLY_PAID"
                                  ELSE "ISSUED"]

(* CHECK invoice_not_over_settled and payment_unallocated_within_total.    *)
NotOverSettled(s) == s.paid + s.credited <= GrandTotal
PaymentRowOk(row) == 0 <= row.unallocated /\ row.unallocated <= row.value

(***************************************************************************)
(* Documents that appear: drafts without any effect on the ledger          *)
(***************************************************************************)
(* PaymentsService.create(): a memo, nothing of it allocated.              *)
RecordPayment(p, value) ==
    /\ payment[p].status = "NONE"
    /\ value > 0
    /\ payment' = [payment EXCEPT ![p] = [status |-> "RECORDED", value |-> value,
                                          unallocated |-> value]]
    /\ UNCHANGED <<invoice, allocation, note, entries, contras, request, raced>>

(* TaxNotesService.create(): a credit note within what remains, judged now *)
(* and never again.                                                        *)
DraftNote(n, type, i, total) ==
    /\ note[n].status = "NONE"
    /\ invoice[i].status \notin {"DRAFT", "CANCELLED"}
    /\ type = "CREDIT" =>
           total <= GrandTotal - Applied(allocation, i) - Credited(IssuedNotes(i))
    /\ note' = [note EXCEPT ![n] = [type |-> type, status |-> "DRAFT",
                                    invoice |-> i, total |-> total]]
    /\ UNCHANGED <<invoice, payment, allocation, entries, contras, request, raced>>

(* TaxNotesService.remove(): only a draft; migration 0011 refuses to       *)
(* delete an issued one, so the early check does no harm.                  *)
RemoveDraftNote(n) ==
    /\ note[n].status = "DRAFT"
    /\ note' = [note EXCEPT ![n].status = "REMOVED"]
    /\ UNCHANGED <<invoice, payment, allocation, entries, contras, request, raced>>

(***************************************************************************)
(* Loading: the check that is made before the transaction                  *)
(***************************************************************************)
Busy(r)  == request[r] # NoRequest
Others(r) == {q \in Requests \ {r} : Busy(q)}

(* The documents a request works on.                                       *)
Touches(req) == {req.doc} \cup ({req.invoice} \cap Invoices) \cup DOMAIN req.settled

(* Two requests that work on one document at once, noted as a request is   *)
(* loaded and again as it learns which invoices it will settle: ANY two,   *)
(* one of them changing its STATUS, or one of them an UPDATE.              *)
Sorts == [ANY    |-> AllKinds,
          STATUS |-> {"VERIFY", "BOUNCE", "CANCEL"},
          UPDATE |-> {"UPDATE"}]

Met(r, req, d) ==
    LET others == {q \in Others(r) : d \in Touches(request[q])}
        kinds  == {req.kind} \cup {request[q].kind : q \in others}
    IN  IF d \in Touches(req) /\ others # {}
        THEN {sort \in DOMAIN Sorts : Sorts[sort] \cap kinds # {}}
        ELSE {}

Proceed(r, req) ==
    /\ request' = [request EXCEPT ![r] = req]
    /\ raced' = [d \in Documents |-> raced[d] \cup Met(r, req, d)]

NothingRead == [i \in Invoices |-> 0]

Load(r, kind, doc, i, amount) ==
    /\ ~Busy(r)
    /\ kind \in Kinds
    /\ Proceed(r, [kind |-> kind, doc |-> doc, invoice |-> i, amount |-> amount,
                   stage |-> "LOADED", available |-> 0, seen |-> NothingRead,
                   settled |-> <<>>])
    /\ UNCHANGED <<invoice, payment, allocation, note, entries, contras>>

(* Mutant: verification does not look at the status.                       *)
LoadForVerifyUnchecked(r, p) ==
    payment[p].status # "NONE" /\ Load(r, "VERIFY", p, NoInvoice, payment[p].value)

(* What is read of the payment here is what the ledger will be credited.   *)
LoadForVerify(r, p) ==
    payment[p].status = "RECORDED" /\ Load(r, "VERIFY", p, NoInvoice, payment[p].value)

(* amount is the new value; 0 leaves it as it was read.                    *)
LoadForUpdate(r, p, amount) ==
    /\ payment[p].status = "RECORDED"
    /\ Load(r, "UPDATE", p, NoInvoice, IF amount = 0 THEN payment[p].value ELSE amount)

LoadForAllocate(r, p, i, amount) ==
    payment[p].status = "VERIFIED" /\ amount > 0 /\ Load(r, "ALLOCATE", p, i, amount)

(* removeAllocation() asks nothing of the payment's status.                *)
LoadForRemove(r, p, i) ==
    payment[p].status # "NONE" /\ Load(r, "REMOVE", p, i, 0)

LoadForBounce(r, p) ==
    payment[p].status = "VERIFIED" /\ Load(r, "BOUNCE", p, NoInvoice, 0)

LoadForIssue(r, i) ==
    invoice[i].status = "DRAFT" /\ Load(r, "ISSUE", i, NoInvoice, 0)

LoadForCancel(r, i) ==
    /\ invoice[i].status = "ISSUED"
    /\ \A p \in Payments : allocation[p][i] = 0
    /\ IssuedNotes(i) = {}
    /\ Load(r, "CANCEL", i, NoInvoice, 0)

LoadForIssueNote(r, n) ==
    note[n].status = "DRAFT" /\ Load(r, "ISSUE_NOTE", n, note[n].invoice, 0)

(***************************************************************************)
(* Locking                                                                 *)
(***************************************************************************)
Holding(q) == Busy(q) /\ request[q].stage \in {"LOCKED", "SUMMED"}

LocksPayment(q, p) ==
    Holding(q) /\ request[q].kind \in {"ALLOCATE", "REMOVE"} /\ request[q].doc = p

(* The series' row in number_sequence, taken before anything is written.   *)
LocksSeries(q, type) ==
    Holding(q) /\ request[q].kind = "ISSUE_NOTE" /\ note[request[q].doc].type = type

PaymentFree(r, p)   == \A q \in Others(r) : ~LocksPayment(q, p)
SeriesFree(r, type) == \A q \in Others(r) : ~LocksSeries(q, type)

(* Mutant: unallocated_amount is read without FOR UPDATE.                  *)
ReadWithoutForUpdate(r, p) == TRUE

Lockable(r, p) == PaymentFree(r, p)

(* What is checked once the lock is held.                                  *)
MayAllocate(p, i, amount) ==
    /\ amount <= payment[p].unallocated
    /\ invoice[i].status \notin {"DRAFT", "CANCELLED"}
    /\ amount <= Outstanding(i)

Lock(r) ==
    LET req == request[r] IN
        /\ Busy(r)
        /\ req.stage = "LOADED"
        /\ \/ /\ req.kind = "ALLOCATE"
              /\ Lockable(r, req.doc)
              /\ MayAllocate(req.doc, req.invoice, req.amount)
           \/ /\ req.kind = "REMOVE"
              /\ Lockable(r, req.doc)
              /\ allocation[req.doc][req.invoice] > 0
           \/ /\ req.kind = "ISSUE_NOTE"
              /\ SeriesFree(r, note[req.doc].type)
              /\ note[req.doc].status = "DRAFT"
        /\ request' = [request EXCEPT ![r].stage = "LOCKED",
               ![r].available = IF req.doc \in Payments
                                THEN payment[req.doc].unallocated ELSE 0]
        /\ UNCHANGED <<invoice, payment, allocation, note, entries, contras, raced>>

(***************************************************************************)
(* Summing: refreshSettlement() inside the transaction, with its own       *)
(* uncommitted rows and the committed rows of everybody else               *)
(***************************************************************************)
(* The allocation rows as the transaction sees them.                       *)
OwnView(req) ==
    CASE req.kind = "ALLOCATE" -> [allocation EXCEPT ![req.doc][req.invoice] = @ + req.amount]
      [] req.kind = "REMOVE"   -> [allocation EXCEPT ![req.doc][req.invoice] = 0]
      [] req.kind = "BOUNCE"   -> [allocation EXCEPT ![req.doc] = NothingRead]
      [] OTHER                 -> allocation

OwnNotes(req, i) ==
    IssuedNotes(i) \cup IF req.kind = "ISSUE_NOTE" THEN {req.doc} ELSE {}

ToSettle(req) ==
    IF req.kind = "BOUNCE" THEN {i \in Invoices : allocation[req.doc][i] > 0}
                           ELSE {req.invoice}

ReadyToSum(req) ==
    \/ req.kind \in {"ALLOCATE", "REMOVE", "ISSUE_NOTE"} /\ req.stage = "LOCKED"
    \/ req.kind = "BOUNCE" /\ req.stage = "LOADED"

(* A bounce also reads here the ledger entries it will reverse.            *)
Sum(r) ==
    LET req == request[r] IN
        /\ Busy(r)
        /\ ReadyToSum(req)
        /\ Proceed(r, [req EXCEPT
               !.stage   = "SUMMED",
               !.amount  = IF req.kind = "BOUNCE" THEN -entries[req.doc] ELSE @,
               !.seen    = IF req.doc \in Payments THEN allocation[req.doc] ELSE @,
               !.settled = [i \in ToSettle(req) |->
                               Settled(i, OwnView(req), OwnNotes(req, i))]])
        /\ UNCHANGED <<invoice, payment, allocation, note, entries, contras>>

(***************************************************************************)
(* Committing                                                              *)
(***************************************************************************)
Done(r) == request' = [request EXCEPT ![r] = NoRequest]

AtCommit(r, kind, stage) ==
    Busy(r) /\ request[r].kind = kind /\ request[r].stage = stage

(* The invoices' columns are overwritten with what was summed.             *)
WriteSettlement(req) ==
    /\ \A i \in DOMAIN req.settled : NotOverSettled(req.settled[i])
    /\ invoice' = [i \in Invoices |->
                      IF i \in DOMAIN req.settled THEN req.settled[i] ELSE invoice[i]]

WritePayment(p, row) == PaymentRowOk(row) /\ payment' = [payment EXCEPT ![p] = row]

(* verify(): the status, and the credit of the value that was loaded.      *)
Verify(r) ==
    LET req == request[r] IN
        /\ AtCommit(r, "VERIFY", "LOADED")
        /\ PaymentFree(r, req.doc)
        /\ WritePayment(req.doc, [payment[req.doc] EXCEPT !.status = "VERIFIED"])
        /\ entries' = [entries EXCEPT ![req.doc] = @ - req.amount]
        /\ Done(r)
        /\ UNCHANGED <<invoice, allocation, note, contras, raced>>

(* update(): the trigger payment_frozen_once_verified refuses a changed    *)
(* value; unallocated_amount is reset to the whole value all the same.     *)
Update(r) ==
    LET req == request[r]
        row == payment[req.doc]
    IN  /\ AtCommit(r, "UPDATE", "LOADED")
        /\ PaymentFree(r, req.doc)
        /\ row.status = "RECORDED" \/ req.amount = row.value
        /\ WritePayment(req.doc, [row EXCEPT !.value = req.amount,
                                             !.unallocated = req.amount])
        /\ Done(r)
        /\ UNCHANGED <<invoice, allocation, note, entries, contras, raced>>

(* The unique (payment, invoice) pair refuses a second row, and a row that *)
(* was read must still be there; sums of what was read are written.  A row *)
(* removed and written anew counts as the same row: the code, which knows  *)
(* rows by id, refuses a little more than the model.                       *)
StillThere(req, i) == (allocation[req.doc][i] > 0) = (req.seen[i] > 0)

Allocate(r) ==
    LET req == request[r]
        p == req.doc
        i == req.invoice
    IN  /\ AtCommit(r, "ALLOCATE", "SUMMED")
        /\ StillThere(req, i)
        /\ allocation' = [allocation EXCEPT ![p][i] = req.seen[i] + req.amount]
        /\ WriteSettlement(req)
        /\ WritePayment(p, [payment[p] EXCEPT !.unallocated = req.available - req.amount])
        /\ Done(r)
        /\ UNCHANGED <<note, entries, contras, raced>>

RemoveAllocation(r) ==
    LET req == request[r]
        p == req.doc
        i == req.invoice
    IN  /\ AtCommit(r, "REMOVE", "SUMMED")
        /\ StillThere(req, i)
        /\ allocation' = [allocation EXCEPT ![p][i] = 0]
        /\ WriteSettlement(req)
        /\ WritePayment(p, [payment[p] EXCEPT !.unallocated = req.available + req.seen[i]])
        /\ Done(r)
        /\ UNCHANGED <<note, entries, contras, raced>>

(* Mutant: the allocations go, the ledger keeps its credit.                *)
BounceWithoutContra(r) ==
    LET req == request[r]
        p == req.doc
    IN  /\ AtCommit(r, "BOUNCE", "SUMMED")
        /\ PaymentFree(r, p)
        /\ allocation' = [allocation EXCEPT ![p] = NothingRead]
        /\ WriteSettlement(req)
        /\ payment' = [payment EXCEPT ![p].status = "BOUNCED", ![p].unallocated = 0]
        /\ Done(r)
        /\ UNCHANGED <<note, entries, contras, raced>>

(* bounce(): a contra for every entry that was read, and the allocations   *)
(* that were read are deleted; one that is gone fails the delete.          *)
Bounce(r) ==
    LET req == request[r]
        p == req.doc
    IN  /\ AtCommit(r, "BOUNCE", "SUMMED")
        /\ PaymentFree(r, p)
        /\ \A i \in Invoices : req.seen[i] > 0 => allocation[p][i] > 0
        /\ contras' = [contras EXCEPT ![p] = @ + req.amount]
        /\ allocation' = [allocation EXCEPT ![p] =
               [i \in Invoices |-> IF req.seen[i] > 0 THEN 0 ELSE @[i]]]
        /\ WriteSettlement(req)
        /\ payment' = [payment EXCEPT ![p].status = "BOUNCED", ![p].unallocated = 0]
        /\ Done(r)
        /\ UNCHANGED <<note, entries, raced>>

(* issue(): the trigger refuses a second number.                           *)
Issue(r) ==
    LET i == request[r].doc IN
        /\ AtCommit(r, "ISSUE", "LOADED")
        /\ invoice[i].status = "DRAFT"
        /\ invoice' = [invoice EXCEPT ![i].status = "ISSUED"]
        /\ entries' = [entries EXCEPT ![i] = @ + GrandTotal]
        /\ Done(r)
        /\ UNCHANGED <<payment, allocation, note, contras, raced>>

Cancel(r) ==
    LET i == request[r].doc IN
        /\ AtCommit(r, "CANCEL", "LOADED")
        /\ entries[i] - GrandTotal >= -MaxCredit
        /\ invoice' = [invoice EXCEPT ![i].status = "CANCELLED"]
        /\ entries' = [entries EXCEPT ![i] = @ - GrandTotal]
        /\ Done(r)
        /\ UNCHANGED <<payment, allocation, note, contras, raced>>

(* TaxNotesService.issue(): the one place the sign lives.                  *)
IssueNote(r) ==
    LET req == request[r]
        n == req.doc
    IN  /\ AtCommit(r, "ISSUE_NOTE", "SUMMED")
        /\ note[n].status = "DRAFT"
        /\ note' = [note EXCEPT ![n].status = "ISSUED"]
        /\ entries' = [entries EXCEPT ![n] = @ - Signed(n)]
        /\ WriteSettlement(req)
        /\ Done(r)
        /\ UNCHANGED <<payment, allocation, contras, raced>>

(* A check under the lock, a trigger or a CHECK refuses, PostgreSQL ends a *)
(* deadlock, or the process dies: nothing of the transaction remains.      *)
GiveUp(r) ==
    /\ Busy(r)
    /\ Done(r)
    /\ UNCHANGED <<invoice, payment, allocation, note, entries, contras, raced>>

LoadSome(r) ==
    \/ \E p \in Payments :
           \/ LoadForVerify(r, p)
           \/ \E amount \in Amount : LoadForUpdate(r, p, amount)
           \/ \E i \in Invoices, amount \in Amount : LoadForAllocate(r, p, i, amount)
           \/ \E i \in Invoices : LoadForRemove(r, p, i)
           \/ LoadForBounce(r, p)
    \/ \E i \in Invoices : LoadForIssue(r, i) \/ LoadForCancel(r, i)
    \/ \E n \in Notes : LoadForIssueNote(r, n)

CommitSome(r) ==
    \/ Verify(r)
    \/ Update(r)
    \/ Allocate(r)
    \/ RemoveAllocation(r)
    \/ Bounce(r)
    \/ Issue(r)
    \/ Cancel(r)
    \/ IssueNote(r)

Next ==
    \/ \E p \in Payments, value \in Amount : RecordPayment(p, value)
    \/ \E n \in Notes, type \in {"CREDIT", "DEBIT"}, i \in Invoices, total \in NoteTotals :
           DraftNote(n, type, i, total)
    \/ \E n \in Notes : RemoveDraftNote(n)
    \/ \E r \in Requests : LoadSome(r) \/ Lock(r) \/ Sum(r) \/ CommitSome(r) \/ GiveUp(r)

Spec == Init /\ [][Next]_vars

(***************************************************************************)
(* Properties                                                              *)
(***************************************************************************)
Request == [kind : Kinds, doc : Documents, invoice : Invoices \cup {NoInvoice},
            amount : Nat, stage : {"LOADED", "LOCKED", "SUMMED"},
            available : Nat, seen : [Invoices -> Nat],
            settled : UNION {[S -> Settlement] : S \in SUBSET Invoices}]

(* Every variable holds a value of its kind.                               *)
TypeOK ==
    /\ invoice \in [Invoices -> Settlement]
    /\ payment \in [Payments -> Payment]
    /\ allocation \in [Payments -> [Invoices -> Nat]]
    /\ note \in [Notes -> Note]
    /\ entries \in [Documents -> Int]
    /\ contras \in [Documents -> Int]
    /\ \A r \in Requests : Busy(r) =>
           /\ DOMAIN request[r] = {"kind", "doc", "invoice", "amount", "stage", "available", "seen", "settled"}
           /\ request[r].doc \in Documents /\ request[r].amount \in Nat
    /\ raced \in [Documents -> SUBSET DOMAIN Sorts]

(* No receipt is stranded on a cancelled invoice, and a bounced one        *)
(* settles nothing.                                                        *)
NothingIsStranded ==
    /\ \A i \in Invoices : invoice[i].status = "CANCELLED" /\ "STATUS" \notin raced[i] =>
           Applied(allocation, i) = 0
    /\ \A p \in Payments : payment[p].status = "BOUNCED" /\ "STATUS" \notin raced[p] =>
           Spent(p) = 0

(* An invoice's settlement columns say what its allocations and issued     *)
(* notes add up to, unless two requests overlap on that invoice, and       *)
(* nothing is stranded; whatever overlaps, every variable holds a value of *)
(* its kind.                                                               *)
SettlementFollowsRows ==
    /\ TypeOK
    /\ NothingIsStranded
    /\ \A i \in Invoices : raced[i] = {} =>
           /\ invoice[i].paid = Applied(allocation, i)
           /\ invoice[i].credited = Credited(IssuedNotes(i))

(* "The lock is the control": however allocations, removals, bounces and   *)
(* verifications race, no receipt is spent beyond its value - only an      *)
(* update() that overlaps escapes the lock - and what of a verified        *)
(* receipt is not spent is what it says is unallocated.                    *)
ReceiptsAddUp ==
    \A p \in Payments :
        /\ "UPDATE" \notin raced[p] => Spent(p) <= payment[p].value
        /\ payment[p].status = "VERIFIED" /\ raced[p] = {} =>
               Spent(p) + payment[p].unallocated = payment[p].value

(* The party ledger is credited exactly once for a verified receipt, not   *)
(* at all for one that is not verified or has bounced, and debited exactly *)
(* once for an invoice unless it is cancelled.                             *)
LedgerFollowsDocuments ==
    /\ \A p \in Payments : "STATUS" \notin raced[p] =>
           entries[p] + contras[p] =
               IF payment[p].status = "VERIFIED" THEN -payment[p].value ELSE 0
    /\ \A i \in Invoices : "STATUS" \notin raced[i] =>
           entries[i] = IF invoice[i].status \in {"DRAFT", "CANCELLED"} THEN 0
                        ELSE GrandTotal

(* "An invoice cannot be over-settled": what migration 0010 says of its    *)
(* CHECK, overlapping allocations of different receipts included.          *)
NeverOverSettled ==
    \A i \in Invoices :
        Applied(allocation, i) + Credited(IssuedNotes(i)) <= GrandTotal
=============================================================================
