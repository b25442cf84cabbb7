-------------------------- MODULE ReceivablesProofs --------------------------
(***************************************************************************)
(* The party ledger follows the documents, for any number of invoices,     *)
(* receipts, notes and requests.  What RInv adds: two requests that meet   *)
(* on a document, one of them to change its status, are noted; so where    *)
(* nothing is noted, what a request has read of the status, the value and  *)
(* the entries of its document still holds when it commits.  An invoice    *)
(* that has left DRAFT never comes back to it, whatever overlaps: nothing  *)
(* is allocated to a draft, and what is summed of another is no draft.     *)
(*                                                                         *)
(* QInv, the second layer, is about what adds up.  A request that writes   *)
(* the settlement columns of an invoice has read, under the lock of its    *)
(* receipt, rows from which these columns follow; they still follow when   *)
(* it commits, or its meeting with whoever changed them in between is      *)
(* noted on the invoice.                                                   *)
(***************************************************************************)
EXTENDS Receivables, Sums

Unraced(d) == "STATUS" \notin raced[d]
NoDraft(i) == invoice[i].status # "DRAFT"

Fields == {"kind", "doc", "invoice", "amount", "stage", "available", "seen", "settled"}

Rows ==
    /\ payment = [p \in Payments |-> payment[p]]
    /\ \A p \in Payments :
           /\ {"status", "value", "unallocated"} \subseteq DOMAIN payment[p]
           /\ payment[p].status \in {"NONE", "RECORDED", "VERIFIED", "BOUNCED"}
           /\ payment[p].value \in Int
    /\ invoice = [i \in Invoices |-> invoice[i]]
    /\ \A i \in Invoices : /\ "status" \in DOMAIN invoice[i]
                           /\ invoice[i].status \in InvoiceStatuses
    /\ allocation \in [Payments -> [Invoices -> Int]]
    /\ note \in [Notes -> Note]
    /\ entries \in [Documents -> Int] /\ contras \in [Documents -> Int]
    /\ raced = [d \in Documents |-> raced[d]]
    /\ request = [r \in Requests |-> request[r]]

RequestTyped(req) ==
    /\ Fields \subseteq DOMAIN req
    /\ req.kind \in AllKinds /\ req.stage \in {"LOADED", "LOCKED", "SUMMED"}
    /\ req.amount \in Int /\ req.seen \in [Invoices -> Int]
    /\ req.kind \in {"VERIFY", "UPDATE", "ALLOCATE", "REMOVE", "BOUNCE"} => req.doc \in Payments
    /\ req.kind \in {"ISSUE", "CANCEL"} => req.doc \in Invoices
    /\ req.kind = "ISSUE_NOTE" => req.doc \in Notes
    /\ req.kind \in {"ALLOCATE", "REMOVE", "ISSUE_NOTE"} => req.invoice \in Invoices
    /\ req.stage = "SUMMED" =>
           /\ DOMAIN req.settled \subseteq Invoices
           /\ \A i \in DOMAIN req.settled :
                  /\ "status" \in DOMAIN req.settled[i]
                  /\ req.settled[i].status \in InvoiceStatuses \ {"DRAFT"}

(* Nothing is allocated to a draft or noted of one.                        *)
DraftsAreBare ==
    /\ \A p \in Payments, i \in Invoices : allocation[p][i] > 0 => NoDraft(i)
    /\ \A n \in Notes : note[n].status # "NONE" =>
           note[n].invoice \in Invoices /\ NoDraft(note[n].invoice)

(* What a request has read of an invoice.                                  *)
InvoicesAsRead(req) ==
    /\ req.kind \in {"ALLOCATE", "REMOVE"} /\ req.stage \in {"LOCKED", "SUMMED"} => NoDraft(req.invoice)
    /\ req.kind = "ISSUE_NOTE" => NoDraft(req.invoice)
    /\ req.stage = "SUMMED" => \A i \in DOMAIN req.settled :
           /\ NoDraft(i)
           /\ Unraced(i) => (req.settled[i].status = "CANCELLED" <=> invoice[i].status = "CANCELLED")
    /\ req.kind = "CANCEL" /\ Unraced(req.doc) =>
           invoice[req.doc].status \notin {"DRAFT", "CANCELLED"}

(* What a request has read of a receipt.                                   *)
PaymentAsRead(req) ==
    /\ req.kind = "VERIFY" /\ Unraced(req.doc) =>
           payment[req.doc].status = "RECORDED" /\ req.amount = payment[req.doc].value
    /\ req.kind = "BOUNCE" /\ Unraced(req.doc) =>
           /\ payment[req.doc].status = "VERIFIED"
           /\ req.stage = "SUMMED" => req.amount = -entries[req.doc]

Meet(r, q, d) ==
    /\ Busy(r) /\ Busy(q) /\ d \in Touches(request[r]) /\ d \in Touches(request[q])
    /\ request[r].kind \in Sorts["STATUS"]

MeetingsAreNoted ==
    \A r, q \in Requests, d \in Documents : r # q /\ Meet(r, q, d) => ~Unraced(d)

PaymentPosted(p) ==
    /\ payment[p].status \in {"NONE", "RECORDED"} => entries[p] = 0 /\ contras[p] = 0
    /\ payment[p].status = "VERIFIED" => entries[p] = -payment[p].value /\ contras[p] = 0
    /\ payment[p].status = "BOUNCED" => entries[p] + contras[p] = 0

InvoicePosted(i) ==
    entries[i] = IF invoice[i].status \in {"DRAFT", "CANCELLED"} THEN 0 ELSE GrandTotal

Posted ==
    /\ \A p \in Payments : Unraced(p) => PaymentPosted(p)
    /\ \A i \in Invoices : Unraced(i) => InvoicePosted(i)

RInv ==
    /\ Rows
    /\ \A r \in Requests : Busy(r) => /\ RequestTyped(request[r])
                                      /\ InvoicesAsRead(request[r])
                                      /\ PaymentAsRead(request[r])
    /\ DraftsAreBare
    /\ MeetingsAreNoted
    /\ Posted

LEMMA PostedFollows == RInv => LedgerFollowsDocuments
<1> SUFFICES ASSUME RInv PROVE LedgerFollowsDocuments
  OBVIOUS
<1>1. ASSUME NEW p \in Payments, Unraced(p)
      PROVE  entries[p] + contras[p] = IF payment[p].status = "VERIFIED" THEN -payment[p].value ELSE 0
  <2>1. /\ PaymentPosted(p) /\ payment[p].status \in {"NONE", "RECORDED", "VERIFIED", "BOUNCED"}
        /\ payment[p].value \in Int /\ entries[p] \in Int /\ contras[p] \in Int
    BY <1>1 DEF RInv, Posted, Rows, Documents
  <2>2. CASE payment[p].status \in {"NONE", "RECORDED"}
    BY <2>1, <2>2 DEF PaymentPosted
  <2>3. CASE payment[p].status = "VERIFIED"
    BY <2>1, <2>3 DEF PaymentPosted
  <2>4. CASE payment[p].status = "BOUNCED"
    BY <2>1, <2>4 DEF PaymentPosted
  <2> QED
    BY <2>1, <2>2, <2>3, <2>4
<1> QED
  BY <1>1 DEF RInv, Posted, InvoicePosted, Unraced, LedgerFollowsDocuments

LEMMA InitiallyPosted == Init => RInv
<1> SUFFICES ASSUME Init PROVE RInv
  OBVIOUS
<1>1. Rows
  BY DEF Init, Rows, InvoiceStatuses, Note
<1>2. \A r \in Requests : ~Busy(r)
  BY DEF Init, Busy
<1>3. DraftsAreBare
  BY DEF Init, DraftsAreBare
<1>4. MeetingsAreNoted
  BY <1>2 DEF MeetingsAreNoted, Meet
<1>5. Posted
  BY DEF Init, Posted, PaymentPosted, InvoicePosted, Documents
<1> QED
  BY <1>1, <1>2, <1>3, <1>4, <1>5 DEF RInv

(***************************************************************************)
(* Requests that meet                                                      *)
(***************************************************************************)
(* What is noted stays noted.                                              *)
LEMMA NotedStays ==
    ASSUME RInv, NEW r \in Requests, NEW req, Proceed(r, req), NEW d \in Documents
    PROVE  Unraced(d)' => Unraced(d)
BY DEF Proceed, Unraced, RInv, Rows

LEMMA ProceedNotes ==
    ASSUME RInv, NEW r \in Requests, NEW req, Proceed(r, req)
    PROVE  MeetingsAreNoted'
<1> SUFFICES ASSUME NEW s \in Requests, NEW q \in Requests, NEW d \in Documents,
                    s # q, Meet(s, q, d)'
             PROVE  ~Unraced(d)'
  BY DEF MeetingsAreNoted
<1>1. /\ request'[r] = req /\ \A t \in Requests \ {r} : request'[t] = request[t]
      /\ raced'[d] = raced[d] \cup Met(r, req, d)
  BY DEF Proceed, RInv, Rows
<1>2. /\ Busy(s)' /\ Busy(q)' /\ d \in Touches(request'[s]) /\ d \in Touches(request'[q])
      /\ request'[s].kind \in Sorts["STATUS"]
  BY DEF Meet, Touches
<1>3. CASE s # r /\ q # r
  <2>1. Meet(s, q, d)
    BY <1>1, <1>2, <1>3 DEF Meet, Busy
  <2> QED
    BY <2>1, NotedStays DEF RInv, MeetingsAreNoted
<1>4. CASE s = r \/ q = r
  <2>1. PICK o \in Requests : o # r /\ o \in {s, q}
    BY <1>4
  <2>2. o \in {x \in Others(r) : d \in Touches(request[x])}
    BY <1>1, <1>2, <2>1 DEF Others, Busy
  <2>3. d \in Touches(req)
    BY <1>1, <1>2, <1>4
  <2>4. \E k \in {req.kind} \cup {request[x].kind : x \in {y \in Others(r) : d \in Touches(request[y])}} :
            k \in Sorts["STATUS"]
    BY <1>1, <1>2, <1>4, <2>1, <2>2
  <2>5. "STATUS" \in Met(r, req, d)
    BY <2>2, <2>3, <2>4 DEF Met, Sorts
  <2> QED
    BY <1>1, <2>5 DEF Unraced
<1> QED
  BY <1>3, <1>4

(* A request that ends, or keeps what it works on, meets nobody anew.      *)
LEMMA EndNotes ==
    ASSUME RInv, UNCHANGED raced, NEW r \in Requests,
           \A q \in Requests \ {r} : request'[q] = request[q],
           Busy(r)' => /\ Busy(r) /\ Touches(request[r])' = Touches(request[r])
                       /\ request'[r].kind = request[r].kind
    PROVE  MeetingsAreNoted'
<1> SUFFICES ASSUME NEW s \in Requests, NEW q \in Requests, NEW d \in Documents,
                    s # q, Meet(s, q, d)'
             PROVE  Meet(s, q, d)
  BY DEF RInv, MeetingsAreNoted, Unraced
<1>1. \A t \in Requests : Busy(t)' => /\ Busy(t) /\ Touches(request[t])' = Touches(request[t])
                                      /\ request'[t].kind = request[t].kind
  BY DEF Busy, Touches
<1> QED
  BY <1>1 DEF Meet

(***************************************************************************)
(* Requests that are loaded, locked and summed                             *)
(***************************************************************************)
(* While the rows stand, a request that proceeds needs only to have read   *)
(* them well itself.                                                       *)
LEMMA ReadKeepsInvariant ==
    ASSUME RInv, UNCHANGED <<invoice, payment, allocation, note, entries, contras>>,
           NEW r \in Requests, MeetingsAreNoted',
           request' = [q \in Requests |-> request'[q]], raced' = [d \in Documents |-> raced'[d]],
           \A d \in Documents : Unraced(d)' => Unraced(d),
           \A q \in Requests \ {r} : request'[q] = request[q],
           Busy(r)' => /\ RequestTyped(request'[r])
                       /\ InvoicesAsRead(request'[r])
                       /\ PaymentAsRead(request'[r])
    PROVE  RInv'
<1>1. Rows' /\ DraftsAreBare'
  BY DEF RInv, Rows, DraftsAreBare, NoDraft
<1>2. Posted'
  BY DEF RInv, Posted, PaymentPosted, InvoicePosted, Documents
<1>3. ASSUME NEW req, RequestTyped(req), InvoicesAsRead(req), PaymentAsRead(req)
      PROVE  InvoicesAsRead(req)' /\ PaymentAsRead(req)'
  <2>1. req.kind \in {"CANCEL", "VERIFY", "BOUNCE"} => req.doc \in Documents
    BY <1>3 DEF RequestTyped, Documents
  <2>2. req.stage = "SUMMED" => \A i \in DOMAIN req.settled : i \in Documents
    BY <1>3 DEF RequestTyped, Documents
  <2>3. \A i : NoDraft(i)' = NoDraft(i)
    BY DEF NoDraft
  <2> QED
    BY <1>3, <2>1, <2>2, <2>3 DEF InvoicesAsRead, PaymentAsRead
<1>4. ASSUME NEW q \in Requests, Busy(q)'
      PROVE  /\ RequestTyped(request[q])'
             /\ InvoicesAsRead(request[q])'
             /\ PaymentAsRead(request[q])'
  <2>0. PICK req : req = request'[q]
    OBVIOUS
  <2>1. RequestTyped(req) /\ InvoicesAsRead(req) /\ PaymentAsRead(req)
    <3>1. CASE q = r
      BY <1>4, <2>0, <3>1
    <3>2. CASE q # r
      BY <1>4, <2>0, <3>2 DEF RInv, Busy
    <3> QED
      BY <3>1, <3>2
  <2>2. InvoicesAsRead(req)' /\ PaymentAsRead(req)'
    BY <1>3, <2>1
  <2> QED
    BY <2>0, <2>1, <2>2 DEF RequestTyped, InvoicesAsRead, PaymentAsRead
<1> QED
  BY <1>1, <1>2, <1>4 DEF RInv

LEMMA ProceedKeeps ==
    ASSUME RInv, NEW r \in Requests, NEW req, Proceed(r, req),
           UNCHANGED <<invoice, payment, allocation, note, entries, contras>>,
           RequestTyped(req), InvoicesAsRead(req), PaymentAsRead(req)
    PROVE  RInv'
<1>1. MeetingsAreNoted' /\ \A d \in Documents : Unraced(d)' => Unraced(d)
  BY ProceedNotes, NotedStays
<1>2. /\ request' = [q \in Requests |-> request'[q]]
      /\ raced' = [d \in Documents |-> raced'[d]]
      /\ request'[r] = req /\ \A q \in Requests \ {r} : request'[q] = request[q]
  BY DEF Proceed, RInv, Rows
<1>3. /\ RequestTyped(request'[r])
      /\ InvoicesAsRead(request'[r])
      /\ PaymentAsRead(request'[r])
  BY <1>2
<1> QED
  BY <1>1, <1>2, <1>3, ReadKeepsInvariant

LEMMA LoadKeeps ==
    ASSUME RInv, NEW r \in Requests, LoadSome(r)
    PROVE  RInv'
<1> DEFINE Fresh(kind, doc, i, amount) ==
        [kind |-> kind, doc |-> doc, invoice |-> i, amount |-> amount,
         stage |-> "LOADED", available |-> 0, seen |-> NothingRead, settled |-> <<>>]
<1>1. ASSUME NEW kind \in AllKinds, NEW doc, NEW i, NEW amount \in Int,
             Load(r, kind, doc, i, amount),
             kind \in {"VERIFY", "UPDATE", "ALLOCATE", "REMOVE", "BOUNCE"} => doc \in Payments,
             kind \in {"ISSUE", "CANCEL"} => doc \in Invoices,
             kind = "ISSUE_NOTE" => doc \in Notes /\ NoDraft(i),
             kind \in {"ALLOCATE", "REMOVE", "ISSUE_NOTE"} => i \in Invoices,
             kind = "CANCEL" => invoice[doc].status \notin {"DRAFT", "CANCELLED"},
             kind = "VERIFY" => payment[doc].status = "RECORDED" /\ amount = payment[doc].value,
             kind = "BOUNCE" => payment[doc].status = "VERIFIED"
      PROVE  RInv'
  <2>1. PICK req : req = Fresh(kind, doc, i, amount)
    OBVIOUS
  <2>2. RequestTyped(req)
    BY <1>1, <2>1 DEF RequestTyped, Fields, NothingRead
  <2>3. InvoicesAsRead(req) /\ PaymentAsRead(req)
    BY <1>1, <2>1 DEF InvoicesAsRead, PaymentAsRead
  <2> QED
    BY <1>1, <2>1, <2>2, <2>3, ProceedKeeps DEF Load
<1>2. ASSUME NEW p \in Payments,
             \/ LoadForVerify(r, p)
             \/ \E amount \in Amount : LoadForUpdate(r, p, amount)
             \/ \E i \in Invoices, amount \in Amount : LoadForAllocate(r, p, i, amount)
             \/ \E i \in Invoices : LoadForRemove(r, p, i)
             \/ LoadForBounce(r, p)
      PROVE  RInv'
  <2>1. payment[p].value \in Int /\ 0 \in Int /\ Amount \subseteq Int
    BY ReceivablesAssumption DEF RInv, Rows, Amount
  <2>2. CASE LoadForVerify(r, p)
    BY <1>1, <2>1, <2>2 DEF LoadForVerify, AllKinds
  <2>3. CASE \E amount \in Amount : LoadForUpdate(r, p, amount)
    <3>1. PICK amount \in Int : Load(r, "UPDATE", p, NoInvoice, amount)
      BY <2>1, <2>3 DEF LoadForUpdate
    <3> QED
      BY <1>1, <3>1 DEF AllKinds
  <2>4. CASE \E i \in Invoices, amount \in Amount : LoadForAllocate(r, p, i, amount)
    <3>1. PICK i \in Invoices, amount \in Int : Load(r, "ALLOCATE", p, i, amount)
      BY <2>1, <2>4 DEF LoadForAllocate
    <3> QED
      BY <1>1, <3>1 DEF AllKinds
  <2>5. CASE \E i \in Invoices : LoadForRemove(r, p, i)
    BY <1>1, <2>5 DEF LoadForRemove, AllKinds
  <2>6. CASE LoadForBounce(r, p)
    BY <1>1, <2>6 DEF LoadForBounce, AllKinds
  <2> QED
    BY <1>2, <2>2, <2>3, <2>4, <2>5, <2>6
<1>3. ASSUME NEW i \in Invoices, LoadForIssue(r, i) \/ LoadForCancel(r, i)
      PROVE  RInv'
  <2>1. CASE LoadForIssue(r, i)
    BY <1>1, <2>1 DEF LoadForIssue, AllKinds
  <2>2. CASE LoadForCancel(r, i)
    BY <1>1, <2>2 DEF LoadForCancel, AllKinds
  <2> QED
    BY <1>3, <2>1, <2>2
<1>4. ASSUME NEW n \in Notes, LoadForIssueNote(r, n)
      PROVE  RInv'
  <2>1. note[n].invoice \in Invoices /\ NoDraft(note[n].invoice)
    BY <1>4 DEF RInv, DraftsAreBare, LoadForIssueNote
  <2> QED
    BY <1>1, <1>4, <2>1 DEF LoadForIssueNote, AllKinds
<1> QED
  BY <1>2, <1>3, <1>4 DEF LoadSome

LEMMA LockKeeps ==
    ASSUME RInv, NEW r \in Requests, Lock(r)
    PROVE  RInv'
<1>1. PICK req : req = request[r]
  OBVIOUS
<1>2. /\ Busy(r) /\ RequestTyped(req) /\ InvoicesAsRead(req)
      /\ req.kind \in {"ALLOCATE", "REMOVE", "ISSUE_NOTE"} /\ req.stage = "LOADED"
      /\ req.kind = "ALLOCATE" => invoice[req.invoice].status # "DRAFT"
      /\ req.kind = "REMOVE" => allocation[req.doc][req.invoice] > 0
  BY <1>1 DEF Lock, RInv, MayAllocate
<1>3. NoDraft(req.invoice)
  BY <1>2 DEF RInv, DraftsAreBare, RequestTyped, InvoicesAsRead, NoDraft
<1>4. PICK available : request' = [request EXCEPT ![r] =
          [req EXCEPT !.stage = "LOCKED", !.available = available]]
  <2>1. request' = [request EXCEPT ![r].stage = "LOCKED",
            ![r].available = IF req.doc \in Payments THEN payment[req.doc].unallocated ELSE 0]
    BY <1>1 DEF Lock
  <2> QED
    BY <1>1, <2>1 DEF RInv, Rows
<1>5. PICK req2 : req2 = [req EXCEPT !.stage = "LOCKED", !.available = available]
  OBVIOUS
<1>6. /\ request' = [q \in Requests |-> request'[q]]
      /\ request'[r] = req2 /\ \A q \in Requests \ {r} : request'[q] = request[q]
  BY <1>4, <1>5 DEF RInv, Rows
<1>7. /\ req2.stage = "LOCKED" /\ req2.kind = req.kind /\ req2.doc = req.doc
      /\ req2.invoice = req.invoice /\ req2.settled = req.settled /\ req2.seen = req.seen
      /\ req2.amount = req.amount /\ DOMAIN req2 = DOMAIN req
  BY <1>2, <1>5 DEF RequestTyped, Fields
<1>8. RequestTyped(req2)
  BY <1>2, <1>7 DEF RequestTyped
<1>9. InvoicesAsRead(req2) /\ PaymentAsRead(req2)
  BY <1>2, <1>3, <1>7 DEF InvoicesAsRead, PaymentAsRead
<1>10. MeetingsAreNoted'
  <2>1. Touches(request'[r]) = Touches(request[r]) /\ request'[r].kind = request[r].kind
    BY <1>1, <1>6, <1>7 DEF Touches
  <2>2. Touches(request[r])' = Touches(request[r])
    BY <2>1 DEF Touches
  <2>3. UNCHANGED raced
    BY DEF Lock
  <2> QED
    BY <1>2, <1>6, <2>1, <2>2, <2>3, EndNotes
<1>11. UNCHANGED <<invoice, payment, allocation, note, entries, contras, raced>>
  BY DEF Lock
<1>12. raced' = [d \in Documents |-> raced'[d]] /\ \A d \in Documents : Unraced(d)' => Unraced(d)
  BY <1>11 DEF RInv, Rows, Unraced
<1> QED
  BY <1>6, <1>8, <1>9, <1>10, <1>11, <1>12, ReadKeepsInvariant

LEMMA SumKeeps ==
    ASSUME RInv, NEW r \in Requests, Sum(r)
    PROVE  RInv'
<1>1. PICK req : req = request[r]
  OBVIOUS
<1>2. PICK settled : settled = [i \in ToSettle(req) |-> Settled(i, OwnView(req), OwnNotes(req, i))]
  OBVIOUS
<1>3. PICK req2 : req2 = [req EXCEPT
          !.stage   = "SUMMED",
          !.amount  = IF req.kind = "BOUNCE" THEN -entries[req.doc] ELSE @,
          !.seen    = IF req.doc \in Payments THEN allocation[req.doc] ELSE @,
          !.settled = settled]
  OBVIOUS
<1>4. /\ Busy(r) /\ ReadyToSum(req) /\ Proceed(r, req2)
      /\ RequestTyped(req) /\ InvoicesAsRead(req) /\ PaymentAsRead(req)
      /\ UNCHANGED <<invoice, payment, allocation, note, entries, contras>>
  BY <1>1, <1>2, <1>3 DEF Sum, RInv
<1>5. /\ req2.stage = "SUMMED" /\ req2.kind = req.kind /\ req2.doc = req.doc
      /\ req2.invoice = req.invoice /\ req2.settled = settled
      /\ req2.seen = (IF req.doc \in Payments THEN allocation[req.doc] ELSE req.seen)
      /\ req2.amount = (IF req.kind = "BOUNCE" THEN -entries[req.doc] ELSE req.amount)
      /\ DOMAIN req2 = DOMAIN req
  BY <1>3, <1>4 DEF RequestTyped, Fields
<1>6. ToSettle(req) \subseteq Invoices /\ \A i \in ToSettle(req) : NoDraft(i)
  BY <1>4 DEF ToSettle, ReadyToSum, RequestTyped, InvoicesAsRead, RInv, DraftsAreBare
<1>7. ASSUME NEW i \in Invoices, NEW allocs, NEW notes, NoDraft(i)
      PROVE  LET s == Settled(i, allocs, notes)
             IN  /\ "status" \in DOMAIN s /\ s.status \in InvoiceStatuses \ {"DRAFT"}
                 /\ s.status = "CANCELLED" <=> invoice[i].status = "CANCELLED"
  BY <1>7 DEF Settled, NoDraft, InvoiceStatuses, RInv, Rows
<1>8. /\ DOMAIN settled = ToSettle(req)
      /\ \A i \in DOMAIN settled :
             /\ "status" \in DOMAIN settled[i] /\ settled[i].status \in InvoiceStatuses \ {"DRAFT"}
             /\ settled[i].status = "CANCELLED" <=> invoice[i].status = "CANCELLED"
  BY <1>2, <1>6, <1>7
<1>9. req2.amount \in Int /\ req2.seen \in [Invoices -> Int]
  BY <1>4, <1>5 DEF RequestTyped, RInv, Rows, Documents
<1>10. RequestTyped(req2)
  BY <1>4, <1>5, <1>6, <1>8, <1>9 DEF RequestTyped
<1>11. InvoicesAsRead(req2)
  BY <1>4, <1>5, <1>6, <1>8 DEF InvoicesAsRead, ReadyToSum
<1>12. PaymentAsRead(req2)
  BY <1>4, <1>5, <1>8 DEF PaymentAsRead
<1> QED
  BY <1>4, <1>10, <1>11, <1>12, ProceedKeeps

(***************************************************************************)
(* Requests that commit or give up                                         *)
(***************************************************************************)
(* A commit leaves what the others have read standing, where it met none   *)
(* of them: it writes to its own receipt, and to invoices of which it      *)
(* keeps whether they are drafts or cancelled, unless it is there for that *)
(* change.                                                                 *)
LEMMA EndKeeps ==
    ASSUME RInv, NEW r \in Requests, Busy(r), Done(r), UNCHANGED raced,
           Rows', DraftsAreBare',
           \A p \in Payments : p # request[r].doc =>
               payment'[p] = payment[p] /\ entries'[p] = entries[p] /\ contras'[p] = contras[p],
           \A p \in Payments : Unraced(p) /\ p = request[r].doc => PaymentPosted(p)',
           \A i \in Invoices : Unraced(i) => InvoicePosted(i)',
           \A i \in Invoices : NoDraft(i) => NoDraft(i)',
           \A i \in Invoices : Unraced(i) /\ NoDraft(i) =>
               \/ invoice'[i].status = "CANCELLED" <=> invoice[i].status = "CANCELLED"
               \/ i = request[r].doc /\ request[r].kind \in Sorts["STATUS"]
    PROVE  RInv'
<1>1. \A d : Unraced(d)' = Unraced(d)
  BY DEF Unraced
<1>2. \A q \in Requests : Busy(q)' => q # r /\ Busy(q) /\ request'[q] = request[q]
  BY DEF Done, Busy, RInv, Rows
<1>3. MeetingsAreNoted'
  <2>1. Busy(r)' => /\ Busy(r) /\ Touches(request[r])' = Touches(request[r])
                    /\ request'[r].kind = request[r].kind
    BY <1>2
  <2>2. \A q \in Requests \ {r} : request'[q] = request[q]
    BY DEF Done, RInv, Rows
  <2> QED
    BY <2>1, <2>2, EndNotes
<1>4. Posted'
  <2>1. ASSUME NEW p \in Payments, Unraced(p), p # request[r].doc
        PROVE  PaymentPosted(p)'
    BY <2>1 DEF RInv, Posted, PaymentPosted
  <2> QED
    BY <1>1, <2>1 DEF Posted
<1>5. ASSUME NEW q \in Requests, Busy(q)'
      PROVE  /\ RequestTyped(request[q])'
             /\ InvoicesAsRead(request[q])'
             /\ PaymentAsRead(request[q])'
  <2>0. PICK req : req = request[q]
    OBVIOUS
  <2>1. /\ q # r /\ Busy(q) /\ request'[q] = req
        /\ RequestTyped(req) /\ InvoicesAsRead(req) /\ PaymentAsRead(req)
    BY <1>2, <1>5, <2>0 DEF RInv
  <2>2. ASSUME NEW d \in Documents, Unraced(d), d \in Touches(req), d = request[r].doc
        PROVE  request[r].kind \notin Sorts["STATUS"] /\ req.kind \notin Sorts["STATUS"]
    BY <2>0, <2>1, <2>2 DEF RInv, MeetingsAreNoted, Meet, Touches
  <2>3. PaymentAsRead(req)'
    <3>1. ASSUME req.kind \in {"VERIFY", "BOUNCE"}, Unraced(req.doc)
          PROVE  /\ req.doc \in Payments
                 /\ payment'[req.doc] = payment[req.doc] /\ entries'[req.doc] = entries[req.doc]
      <4>1. req.doc \in Payments /\ req.doc \in Documents /\ req.doc \in Touches(req)
        BY <2>1, <3>1 DEF RequestTyped, Documents, Touches
      <4> QED
        BY <2>2, <3>1, <4>1 DEF Sorts
    <3> QED
      BY <1>1, <2>1, <3>1 DEF PaymentAsRead
  <2>4. ASSUME req.kind \in {"ALLOCATE", "REMOVE"}, req.stage \in {"LOCKED", "SUMMED"}
        PROVE  NoDraft(req.invoice)'
    BY <2>1, <2>4 DEF InvoicesAsRead, RequestTyped
  <2>5. ASSUME req.kind = "ISSUE_NOTE"
        PROVE  NoDraft(req.invoice)'
    BY <2>1, <2>5 DEF InvoicesAsRead, RequestTyped
  <2>6. ASSUME req.stage = "SUMMED", NEW i \in DOMAIN req.settled
        PROVE  /\ NoDraft(i)'
               /\ Unraced(i) =>
                      (req.settled[i].status = "CANCELLED" <=> invoice'[i].status = "CANCELLED")
    <3>1. i \in Invoices /\ i \in Documents /\ i \in Touches(req)
      BY <2>1, <2>6 DEF RequestTyped, Documents, Touches
    <3>2. /\ NoDraft(i)
          /\ Unraced(i) => (req.settled[i].status = "CANCELLED" <=> invoice[i].status = "CANCELLED")
      BY <2>1, <2>6 DEF InvoicesAsRead
    <3> QED
      BY <2>2, <3>1, <3>2
  <2>7. ASSUME req.kind = "CANCEL", Unraced(req.doc)
        PROVE  invoice'[req.doc].status \notin {"DRAFT", "CANCELLED"}
    <3>1. req.doc \in Invoices /\ req.doc \in Documents /\ req.doc \in Touches(req)
      BY <2>1, <2>7 DEF RequestTyped, Documents, Touches
    <3>2. invoice[req.doc].status \notin {"DRAFT", "CANCELLED"}
      BY <2>1, <2>7 DEF InvoicesAsRead
    <3>3. req.doc # request[r].doc
      BY <2>2, <2>7, <3>1 DEF Sorts
    <3> QED
      BY <2>7, <3>1, <3>2, <3>3 DEF NoDraft
  <2>8. InvoicesAsRead(req)'
    BY <1>1, <2>4, <2>5, <2>6, <2>7 DEF InvoicesAsRead
  <2> QED
    BY <2>1, <2>3, <2>8 DEF RequestTyped, InvoicesAsRead, PaymentAsRead
<1> QED
  BY <1>3, <1>4, <1>5 DEF RInv

LEMMA GiveUpKeeps ==
    ASSUME RInv, NEW r \in Requests, GiveUp(r)
    PROVE  RInv'
<1>1. Rows'
  BY DEF GiveUp, Done, RInv, Rows
<1>2. DraftsAreBare'
  BY DEF GiveUp, RInv, DraftsAreBare, NoDraft
<1>3. /\ \A p \in Payments : Unraced(p) => PaymentPosted(p)'
      /\ \A i \in Invoices : Unraced(i) => InvoicePosted(i)'
  BY DEF GiveUp, RInv, Posted, PaymentPosted, InvoicePosted
<1> QED
  BY <1>1, <1>2, <1>3, EndKeeps DEF GiveUp, NoDraft

(* What was summed keeps drafts drafts, and the cancelled cancelled.       *)
LEMMA SettlementKeeps ==
    ASSUME RInv, NEW r \in Requests, Busy(r), request[r].stage = "SUMMED",
           WriteSettlement(request[r])
    PROVE  /\ invoice' = [i \in Invoices |-> invoice'[i]]
           /\ \A i \in Invoices :
                  /\ "status" \in DOMAIN invoice'[i] /\ invoice'[i].status \in InvoiceStatuses
                  /\ NoDraft(i) => NoDraft(i)'
                  /\ Unraced(i) =>
                         /\ invoice'[i].status = "CANCELLED" <=> invoice[i].status = "CANCELLED"
                         /\ entries'[i] = entries[i] => InvoicePosted(i)'
<1>1. PICK req : req = request[r]
  OBVIOUS
<1>2. /\ RequestTyped(req) /\ InvoicesAsRead(req) /\ req.stage = "SUMMED"
      /\ invoice' = [i \in Invoices |->
             IF i \in DOMAIN req.settled THEN req.settled[i] ELSE invoice[i]]
  BY <1>1 DEF RInv, WriteSettlement
<1>3. ASSUME NEW i \in Invoices
      PROVE  /\ "status" \in DOMAIN invoice'[i] /\ invoice'[i].status \in InvoiceStatuses
             /\ invoice'[i].status = "DRAFT" <=> invoice[i].status = "DRAFT"
             /\ Unraced(i) => (invoice'[i].status = "CANCELLED" <=> invoice[i].status = "CANCELLED")
  <2>1. CASE i \in DOMAIN req.settled
    BY <1>2, <2>1 DEF RequestTyped, InvoicesAsRead, NoDraft
  <2>2. CASE i \notin DOMAIN req.settled
    BY <1>2, <2>2 DEF RInv, Rows
  <2> QED
    BY <2>1, <2>2
<1>4. ASSUME NEW i \in Invoices, Unraced(i), entries'[i] = entries[i]
      PROVE  InvoicePosted(i)'
  BY <1>3, <1>4 DEF RInv, Posted, InvoicePosted
<1> QED
  BY <1>2, <1>3, <1>4 DEF NoDraft

(* Documents are of one sort, and a request works on one of its kind.      *)
LEMMA RequestRead ==
    ASSUME RInv, NEW r \in Requests, Busy(r)
    PROVE  /\ RequestTyped(request[r]) /\ InvoicesAsRead(request[r]) /\ PaymentAsRead(request[r])
           /\ \A p \in Payments : p \notin Invoices /\ p \notin Notes /\ p \in Documents
           /\ \A i \in Invoices : i \notin Notes /\ i \in Documents
BY ReceivablesAssumption DEF RInv, Documents

LEMMA VerifyKeeps ==
    ASSUME RInv, NEW r \in Requests, Verify(r)
    PROVE  RInv'
<1>1. PICK p \in Payments : p = request[r].doc
  BY RequestRead DEF Verify, AtCommit, RequestTyped
<1>2. /\ Busy(r) /\ Done(r) /\ request[r].kind = "VERIFY" /\ request[r].amount \in Int
      /\ payment' = [payment EXCEPT ![p] = [payment[p] EXCEPT !.status = "VERIFIED"]]
      /\ entries' = [entries EXCEPT ![p] = @ - request[r].amount]
      /\ UNCHANGED <<invoice, allocation, note, contras, raced>>
  BY <1>1, RequestRead DEF Verify, AtCommit, WritePayment, RequestTyped
<1>3. Rows'
  <2>1. entries' \in [Documents -> Int]
    <3>1. entries \in [Documents -> Int] /\ entries[p] - request[r].amount \in Int
      BY <1>2 DEF RInv, Rows, Documents
    <3>2. entries' = [entries EXCEPT ![p] = entries[p] - request[r].amount]
      BY <1>2
    <3> QED
      BY <3>1, <3>2
  <2>2. /\ payment' = [q \in Payments |-> payment'[q]]
        /\ \A q \in Payments :
               /\ {"status", "value", "unallocated"} \subseteq DOMAIN payment'[q]
               /\ payment'[q].status \in {"NONE", "RECORDED", "VERIFIED", "BOUNCED"}
               /\ payment'[q].value \in Int
    BY <1>1, <1>2 DEF RInv, Rows
  <2> QED
    BY <1>2, <2>1, <2>2 DEF RInv, Rows, Done
<1>4. DraftsAreBare'
  BY <1>2 DEF RInv, DraftsAreBare, NoDraft
<1>5. \A q \in Payments : q # p =>
          payment'[q] = payment[q] /\ entries'[q] = entries[q] /\ contras'[q] = contras[q]
  BY <1>2, RequestRead DEF RInv, Rows
<1>6. ASSUME Unraced(p) PROVE PaymentPosted(p)'
  <2>1. /\ payment[p].status = "RECORDED" /\ request[r].amount = payment[p].value
        /\ payment[p].value \in Int /\ entries[p] = 0 /\ contras[p] = 0
    BY <1>1, <1>2, <1>6, RequestRead DEF PaymentAsRead, RInv, Rows, Posted, PaymentPosted
  <2>2. /\ payment'[p].status = "VERIFIED" /\ payment'[p].value = payment[p].value
        /\ entries'[p] = entries[p] - request[r].amount /\ contras'[p] = contras[p]
    BY <1>2, RequestRead DEF RInv, Rows
  <2> QED
    BY <2>1, <2>2 DEF PaymentPosted
<1>7. \A i \in Invoices : Unraced(i) => InvoicePosted(i)'
  <2>1. \A i \in Invoices : entries'[i] = entries[i]
    BY <1>1, <1>2, RequestRead DEF RInv, Rows
  <2> QED
    BY <1>2, <2>1 DEF RInv, Posted, InvoicePosted
<1> QED
  BY <1>1, <1>2, <1>3, <1>4, <1>5, <1>6, <1>7, EndKeeps DEF NoDraft

LEMMA UpdateKeeps ==
    ASSUME RInv, NEW r \in Requests, Update(r)
    PROVE  RInv'
<1>1. PICK p \in Payments : p = request[r].doc
  BY RequestRead DEF Update, AtCommit, RequestTyped
<1>2. PICK amount \in Int :
      /\ Busy(r) /\ Done(r)
      /\ (payment[p].status = "RECORDED" \/ amount = payment[p].value)
      /\ payment' = [payment EXCEPT ![p] =
                        [payment[p] EXCEPT !.value = amount, !.unallocated = amount]]
      /\ UNCHANGED <<invoice, allocation, note, entries, contras, raced>>
  BY <1>1, RequestRead DEF Update, AtCommit, WritePayment, RequestTyped
<1>3. Rows'
  <2>1. /\ payment' = [q \in Payments |-> payment'[q]]
        /\ \A q \in Payments :
               /\ {"status", "value", "unallocated"} \subseteq DOMAIN payment'[q]
               /\ payment'[q].status \in {"NONE", "RECORDED", "VERIFIED", "BOUNCED"}
               /\ payment'[q].value \in Int
    BY <1>1, <1>2 DEF RInv, Rows
  <2> QED
    BY <1>2, <2>1 DEF RInv, Rows, Done
<1>4. DraftsAreBare'
  BY <1>2 DEF RInv, DraftsAreBare, NoDraft
<1>5. \A q \in Payments : q # p =>
          payment'[q] = payment[q] /\ entries'[q] = entries[q] /\ contras'[q] = contras[q]
  BY <1>2 DEF RInv, Rows
<1>6. ASSUME Unraced(p) PROVE PaymentPosted(p)'
  <2>1. /\ payment'[p].status = payment[p].status /\ payment'[p].value = amount
        /\ entries'[p] = entries[p] /\ contras'[p] = contras[p] /\ PaymentPosted(p)
    BY <1>2, <1>6 DEF RInv, Rows, Posted
  <2> QED
    BY <1>2, <2>1 DEF PaymentPosted
<1>7. \A i \in Invoices : Unraced(i) => InvoicePosted(i)'
  BY <1>2 DEF RInv, Posted, InvoicePosted
<1> QED
  BY <1>1, <1>2, <1>3, <1>4, <1>5, <1>6, <1>7, EndKeeps DEF NoDraft

(* An allocation or its removal changes one row, of an invoice that is not *)
(* a draft, and nothing of the receipt but what is unallocated.            *)
LEMMA AllocationKeeps ==
    ASSUME RInv, NEW r \in Requests, Allocate(r) \/ RemoveAllocation(r)
    PROVE  RInv'
<1>1. PICK req : req = request[r]
  OBVIOUS
<1>2. /\ Busy(r) /\ Done(r) /\ req.kind \in {"ALLOCATE", "REMOVE"} /\ req.stage = "SUMMED"
      /\ WriteSettlement(req) /\ UNCHANGED <<note, entries, contras, raced>>
  BY <1>1 DEF Allocate, RemoveAllocation, AtCommit
<1>3. PICK p \in Payments, i \in Invoices : p = req.doc /\ i = req.invoice /\ NoDraft(i)
  BY <1>1, <1>2, RequestRead DEF RequestTyped, InvoicesAsRead
<1>4. PICK n \in Int : allocation' = [allocation EXCEPT ![p][i] = n]
  <2>1. req.seen[i] + req.amount \in Int /\ 0 \in Int
    BY <1>1, <1>2, RequestRead DEF RequestTyped
  <2>2. \/ allocation' = [allocation EXCEPT ![p][i] = req.seen[i] + req.amount]
        \/ allocation' = [allocation EXCEPT ![p][i] = 0]
    BY <1>1, <1>3 DEF Allocate, RemoveAllocation
  <2> QED
    BY <2>1, <2>2
<1>5. PICK free : payment' = [payment EXCEPT ![p] = [payment[p] EXCEPT !.unallocated = free]]
  BY <1>1, <1>3 DEF Allocate, RemoveAllocation, WritePayment
<1>6. /\ payment' = [q \in Payments |-> payment'[q]]
      /\ \A q \in Payments :
             /\ DOMAIN payment'[q] = DOMAIN payment[q]
             /\ payment'[q].status = payment[q].status /\ payment'[q].value = payment[q].value
             /\ q # p => payment'[q] = payment[q]
  BY <1>5 DEF RInv, Rows
<1>7. allocation' \in [Payments -> [Invoices -> Int]]
  BY <1>4 DEF RInv, Rows
<1>8. Rows'
  BY <1>1, <1>2, <1>6, <1>7, SettlementKeeps DEF RInv, Rows, Done
<1>9. DraftsAreBare'
  <2>1. \A q \in Payments, j \in Invoices : allocation'[q][j] > 0 => NoDraft(j)
    BY <1>3, <1>4 DEF RInv, Rows, DraftsAreBare
  <2> QED
    BY <1>1, <1>2, <2>1, SettlementKeeps DEF RInv, DraftsAreBare
<1>10. \A q \in Payments : Unraced(q) => PaymentPosted(q)'
  BY <1>2, <1>6 DEF RInv, Posted, PaymentPosted
<1> QED
  BY <1>1, <1>2, <1>3, <1>6, <1>8, <1>9, <1>10, SettlementKeeps, EndKeeps

LEMMA BounceKeeps ==
    ASSUME RInv, NEW r \in Requests, Bounce(r)
    PROVE  RInv'
<1>1. PICK req : req = request[r]
  OBVIOUS
<1>2. /\ Busy(r) /\ Done(r) /\ req.kind = "BOUNCE" /\ req.stage = "SUMMED"
      /\ WriteSettlement(req) /\ UNCHANGED <<note, entries, raced>>
  BY <1>1 DEF Bounce, AtCommit
<1>3. PICK p \in Payments : p = req.doc
  BY <1>1, <1>2, RequestRead DEF RequestTyped
<1>4. PICK amount \in Int : amount = req.amount
  BY <1>1, RequestRead, <1>2 DEF RequestTyped
<1>5. contras' = [contras EXCEPT ![p] = contras[p] + amount]
  BY <1>1, <1>3, <1>4 DEF Bounce
<1>6. PICK left \in [Invoices -> Int] :
          /\ allocation' = [allocation EXCEPT ![p] = left]
          /\ \A i \in Invoices : left[i] > 0 => allocation[p][i] > 0
  <2>1. PICK left : left = [i \in Invoices |-> IF req.seen[i] > 0 THEN 0 ELSE allocation[p][i]]
    OBVIOUS
  <2>2. left \in [Invoices -> Int] /\ \A i \in Invoices : left[i] > 0 => allocation[p][i] > 0
    BY <2>1 DEF RInv, Rows
  <2>3. allocation' = [allocation EXCEPT ![p] = left]
    BY <1>1, <1>3, <2>1 DEF Bounce, RInv, Rows
  <2> QED
    BY <2>2, <2>3
<1>7. payment' = [payment EXCEPT ![p].status = "BOUNCED", ![p].unallocated = 0]
  BY <1>1, <1>3 DEF Bounce
<1>8. /\ payment' = [q \in Payments |-> payment'[q]]
      /\ \A q \in Payments :
             /\ DOMAIN payment'[q] = DOMAIN payment[q]
             /\ payment'[q].value = payment[q].value
             /\ q # p => payment'[q] = payment[q] /\ contras'[q] = contras[q]
      /\ payment'[p].status = "BOUNCED"
  <2>1. payment' = [payment EXCEPT ![p] = [payment[p] EXCEPT !.status = "BOUNCED", !.unallocated = 0]]
    BY <1>7 DEF RInv, Rows
  <2>2. PICK row : row = [payment[p] EXCEPT !.status = "BOUNCED", !.unallocated = 0]
    OBVIOUS
  <2>3. DOMAIN row = DOMAIN payment[p] /\ row.value = payment[p].value /\ row.status = "BOUNCED"
    BY <2>2 DEF RInv, Rows
  <2>4. \A q \in Payments : q # p => contras'[q] = contras[q]
    BY <1>5 DEF RInv, Rows
  <2>5. payment' = [payment EXCEPT ![p] = row]
    BY <2>1, <2>2
  <2> QED
    BY <2>3, <2>4, <2>5 DEF RInv, Rows
<1>9. Rows'
  <2>1. contras' \in [Documents -> Int]
    <3>1. contras \in [Documents -> Int] /\ contras[p] + amount \in Int
      BY DEF RInv, Rows, Documents
    <3> QED
      BY <1>5, <3>1
  <2>2. allocation' \in [Payments -> [Invoices -> Int]]
    BY <1>6 DEF RInv, Rows
  <2> QED
    BY <1>1, <1>2, <1>8, <2>1, <2>2, SettlementKeeps DEF RInv, Rows, Done
<1>10. DraftsAreBare'
  <2>1. \A q \in Payments, j \in Invoices : allocation'[q][j] > 0 => NoDraft(j)
    BY <1>6 DEF RInv, Rows, DraftsAreBare
  <2> QED
    BY <1>1, <1>2, <2>1, SettlementKeeps DEF RInv, DraftsAreBare
<1>11. ASSUME Unraced(p) PROVE PaymentPosted(p)'
  <2>1. contras[p] \in Int /\ entries[p] \in Int /\ contras'[p] = contras[p] + amount
    BY <1>5 DEF RInv, Rows, Documents
  <2>2. payment[p].status = "VERIFIED" /\ amount = -entries[p]
    BY <1>1, <1>2, <1>3, <1>4, <1>11, RequestRead DEF PaymentAsRead
  <2>3. contras[p] = 0
    BY <1>11, <2>2 DEF RInv, Posted, PaymentPosted
  <2> QED
    BY <1>2, <1>8, <2>1, <2>2, <2>3 DEF PaymentPosted
<1> QED
  BY <1>1, <1>2, <1>3, <1>8, <1>9, <1>10, <1>11, SettlementKeeps, EndKeeps

(* An invoice is issued from DRAFT only, and nobody has read one that is.  *)
LEMMA IssueKeeps ==
    ASSUME RInv, NEW r \in Requests, Issue(r)
    PROVE  RInv'
<1>1. PICK i \in Invoices : i = request[r].doc
  BY RequestRead DEF Issue, AtCommit, RequestTyped
<1>2. /\ Busy(r) /\ Done(r) /\ invoice[i].status = "DRAFT"
      /\ invoice' = [invoice EXCEPT ![i].status = "ISSUED"]
      /\ entries' = [entries EXCEPT ![i] = entries[i] + GrandTotal]
      /\ UNCHANGED <<payment, allocation, note, contras, raced>>
  BY <1>1 DEF Issue, AtCommit
<1>3. /\ i \in Documents /\ entries[i] + GrandTotal \in Int
      /\ entries'[i] = entries[i] + GrandTotal
      /\ entries' \in [Documents -> Int]
  <2>1. entries \in [Documents -> Int] /\ i \in Documents /\ GrandTotal \in Int
    BY ReceivablesAssumption DEF RInv, Rows, Documents
  <2> QED
    BY <1>2, <2>1
<1>4. /\ invoice' = [j \in Invoices |-> invoice'[j]]
      /\ \A j \in Invoices : /\ DOMAIN invoice'[j] = DOMAIN invoice[j]
                             /\ j # i => invoice'[j] = invoice[j] /\ entries'[j] = entries[j]
      /\ invoice'[i].status = "ISSUED"
  BY <1>2 DEF RInv, Rows, Documents
<1>5. Rows'
  BY <1>2, <1>3, <1>4 DEF RInv, Rows, Done, InvoiceStatuses
<1>6. \A j \in Invoices : NoDraft(j) => NoDraft(j)'
  BY <1>4 DEF NoDraft
<1>7. DraftsAreBare'
  BY <1>2, <1>6 DEF RInv, DraftsAreBare
<1>8. \A p \in Payments : payment'[p] = payment[p] /\ entries'[p] = entries[p] /\ contras'[p] = contras[p]
  BY <1>2, <1>3, RequestRead DEF RInv, Rows
<1>9. \A p \in Payments : Unraced(p) => PaymentPosted(p)'
  BY <1>8 DEF RInv, Posted, PaymentPosted
<1>10. \A j \in Invoices : Unraced(j) => InvoicePosted(j)'
  <2>1. ASSUME Unraced(i) PROVE InvoicePosted(i)'
    BY <1>2, <1>3, <1>4, <2>1, ReceivablesAssumption DEF RInv, Posted, InvoicePosted
  <2>2. ASSUME NEW j \in Invoices, j # i, Unraced(j) PROVE InvoicePosted(j)'
    BY <1>4, <2>2 DEF RInv, Posted, InvoicePosted
  <2> QED
    BY <2>1, <2>2
<1>11. \A j \in Invoices : Unraced(j) /\ NoDraft(j) =>
           (invoice'[j].status = "CANCELLED" <=> invoice[j].status = "CANCELLED")
  BY <1>2, <1>4 DEF NoDraft
<1> QED
  BY <1>2, <1>5, <1>6, <1>7, <1>8, <1>9, <1>10, <1>11, EndKeeps

(* What is cancelled was issued, where nobody met the cancellation.        *)
LEMMA CancelKeeps ==
    ASSUME RInv, NEW r \in Requests, Cancel(r)
    PROVE  RInv'
<1>1. PICK i \in Invoices : i = request[r].doc
  BY RequestRead DEF Cancel, AtCommit, RequestTyped
<1>2. /\ Busy(r) /\ Done(r) /\ request[r].kind = "CANCEL"
      /\ invoice' = [invoice EXCEPT ![i].status = "CANCELLED"]
      /\ entries' = [entries EXCEPT ![i] = entries[i] - GrandTotal]
      /\ UNCHANGED <<payment, allocation, note, contras, raced>>
  BY <1>1 DEF Cancel, AtCommit
<1>3. /\ i \in Documents /\ entries[i] \in Int /\ GrandTotal \in Int
      /\ entries'[i] = entries[i] - GrandTotal
      /\ entries' \in [Documents -> Int]
  <2>1. entries \in [Documents -> Int] /\ i \in Documents /\ GrandTotal \in Int
    BY ReceivablesAssumption DEF RInv, Rows, Documents
  <2> QED
    BY <1>2, <2>1
<1>4. /\ invoice' = [j \in Invoices |-> invoice'[j]]
      /\ \A j \in Invoices : /\ DOMAIN invoice'[j] = DOMAIN invoice[j]
                             /\ j # i => invoice'[j] = invoice[j] /\ entries'[j] = entries[j]
      /\ invoice'[i].status = "CANCELLED"
  BY <1>2 DEF RInv, Rows, Documents
<1>5. Rows'
  BY <1>2, <1>3, <1>4 DEF RInv, Rows, Done, InvoiceStatuses
<1>6. \A j \in Invoices : NoDraft(j) => NoDraft(j)'
  BY <1>4 DEF NoDraft
<1>7. DraftsAreBare'
  BY <1>2, <1>6 DEF RInv, DraftsAreBare
<1>8. \A p \in Payments : payment'[p] = payment[p] /\ entries'[p] = entries[p] /\ contras'[p] = contras[p]
  BY <1>2, <1>3, RequestRead DEF RInv, Rows
<1>9. \A p \in Payments : Unraced(p) => PaymentPosted(p)'
  BY <1>8 DEF RInv, Posted, PaymentPosted
<1>10. \A j \in Invoices : Unraced(j) => InvoicePosted(j)'
  <2>1. ASSUME Unraced(i) PROVE InvoicePosted(i)'
    <3>1. entries[i] = GrandTotal
      BY <1>1, <1>2, <2>1, RequestRead DEF InvoicesAsRead, RInv, Posted, InvoicePosted
    <3> QED
      BY <1>3, <1>4, <3>1 DEF InvoicePosted
  <2>2. ASSUME NEW j \in Invoices, j # i, Unraced(j) PROVE InvoicePosted(j)'
    BY <1>4, <2>2 DEF RInv, Posted, InvoicePosted
  <2> QED
    BY <2>1, <2>2
<1>11. \A j \in Invoices : Unraced(j) /\ NoDraft(j) =>
           \/ invoice'[j].status = "CANCELLED" <=> invoice[j].status = "CANCELLED"
           \/ j = request[r].doc /\ request[r].kind \in Sorts["STATUS"]
  BY <1>1, <1>2, <1>4 DEF Sorts
<1> QED
  BY <1>2, <1>5, <1>6, <1>7, <1>8, <1>9, <1>10, <1>11, EndKeeps

LEMMA IssueNoteKeeps ==
    ASSUME RInv, NEW r \in Requests, IssueNote(r)
    PROVE  RInv'
<1>1. PICK req : req = request[r]
  OBVIOUS
<1>2. /\ Busy(r) /\ Done(r) /\ req.kind = "ISSUE_NOTE" /\ req.stage = "SUMMED"
      /\ WriteSettlement(req) /\ UNCHANGED <<payment, allocation, contras, raced>>
  BY <1>1 DEF IssueNote, AtCommit
<1>3. PICK n \in Notes : n = req.doc
  BY <1>1, <1>2, RequestRead DEF RequestTyped
<1>4. /\ note[n].status = "DRAFT"
      /\ note' = [note EXCEPT ![n].status = "ISSUED"]
      /\ entries' = [entries EXCEPT ![n] = entries[n] - Signed(n)]
  BY <1>1, <1>3 DEF IssueNote
<1>5. /\ note' \in [Notes -> Note]
      /\ \A m \in Notes : /\ note'[m].invoice = note[m].invoice
                          /\ note'[m].status # "NONE" => note[m].status # "NONE"
  <2>1. note \in [Notes -> Note]
    BY DEF RInv, Rows
  <2>2. PICK x : x = [note[n] EXCEPT !.status = "ISSUED"]
    OBVIOUS
  <2>3. x \in Note /\ x.invoice = note[n].invoice
    BY <2>1, <2>2 DEF Note
  <2>4. note' = [note EXCEPT ![n] = x]
    BY <1>4, <2>1, <2>2
  <2> QED
    BY <1>4, <2>1, <2>3, <2>4
<1>6. entries' \in [Documents -> Int]
  <2>1. note[n].total \in Int /\ Signed(n) \in Int
    BY ReceivablesAssumption DEF RInv, Rows, Note, Signed
  <2>2. entries \in [Documents -> Int] /\ entries[n] - Signed(n) \in Int
    BY <2>1 DEF RInv, Rows, Documents
  <2> QED
    BY <1>4, <2>2
<1>7. Rows'
  BY <1>1, <1>2, <1>5, <1>6, SettlementKeeps DEF RInv, Rows, Done
<1>8. DraftsAreBare'
  BY <1>1, <1>2, <1>5, SettlementKeeps DEF RInv, DraftsAreBare
<1>9. /\ \A p \in Payments : payment'[p] = payment[p] /\ entries'[p] = entries[p] /\ contras'[p] = contras[p]
      /\ \A i \in Invoices : entries'[i] = entries[i]
  BY <1>1, <1>2, <1>4, RequestRead DEF RInv, Rows
<1>10. \A p \in Payments : Unraced(p) => PaymentPosted(p)'
  BY <1>9 DEF RInv, Posted, PaymentPosted
<1> QED
  BY <1>1, <1>2, <1>7, <1>8, <1>9, <1>10, SettlementKeeps, EndKeeps

(***************************************************************************)
(* Documents that appear or are withdrawn                                  *)
(***************************************************************************)
LEMMA DraftsKeep ==
    ASSUME RInv, Rows', DraftsAreBare',
           UNCHANGED <<invoice, allocation, entries, contras, request, raced>>,
           \A p \in Payments : \/ payment'[p] = payment[p]
                               \/ payment[p].status = "NONE" /\ payment'[p].status = "RECORDED"
    PROVE  RInv'
<1>1. MeetingsAreNoted'
  BY DEF RInv, MeetingsAreNoted, Meet, Unraced, Busy, Touches
<1>2. Posted'
  <2>1. ASSUME NEW p \in Payments, Unraced(p) PROVE PaymentPosted(p)'
    <3>1. PaymentPosted(p)
      BY <2>1 DEF RInv, Posted
    <3> QED
      BY <3>1 DEF PaymentPosted
  <2> QED
    BY <2>1 DEF RInv, Posted, InvoicePosted, Unraced
<1>3. ASSUME NEW q \in Requests, Busy(q)'
      PROVE  /\ RequestTyped(request[q])'
             /\ InvoicesAsRead(request[q])'
             /\ PaymentAsRead(request[q])'
  <2>1. PICK req : req = request[q]
    OBVIOUS
  <2>2. RequestTyped(req) /\ InvoicesAsRead(req) /\ PaymentAsRead(req)
    BY <1>3, <2>1 DEF RInv, Busy
  <2>3. PaymentAsRead(req)'
    BY <2>2 DEF PaymentAsRead, RequestTyped, Unraced
  <2>4. RequestTyped(req)' /\ InvoicesAsRead(req)'
    BY <2>2 DEF RequestTyped, InvoicesAsRead, NoDraft, Unraced
  <2> QED
    BY <2>1, <2>3, <2>4 DEF RequestTyped, InvoicesAsRead, PaymentAsRead
<1> QED
  BY <1>1, <1>2, <1>3 DEF RInv

LEMMA RecordPaymentKeeps ==
    ASSUME RInv, NEW p \in Payments, NEW value \in Amount, RecordPayment(p, value)
    PROVE  RInv'
<1>1. value \in Int
  BY ReceivablesAssumption DEF Amount
<1>2. Rows'
  BY <1>1 DEF RecordPayment, RInv, Rows
<1>3. DraftsAreBare'
  BY DEF RecordPayment, RInv, DraftsAreBare, NoDraft
<1>4. \A q \in Payments : \/ payment'[q] = payment[q]
                          \/ payment[q].status = "NONE" /\ payment'[q].status = "RECORDED"
  BY DEF RecordPayment, RInv, Rows
<1> QED
  BY <1>2, <1>3, <1>4, DraftsKeep DEF RecordPayment

LEMMA NotesKeep ==
    ASSUME RInv, NEW n \in Notes,
           \/ \E type \in {"CREDIT", "DEBIT"}, i \in Invoices, total \in NoteTotals :
                  DraftNote(n, type, i, total)
           \/ RemoveDraftNote(n)
    PROVE  RInv'
<1>1. PICK row \in Note :
          /\ note' = [note EXCEPT ![n] = row]
          /\ row.status # "NONE" /\ row.invoice \in Invoices /\ NoDraft(row.invoice)
  <2>1. CASE \E type \in {"CREDIT", "DEBIT"}, i \in Invoices, total \in NoteTotals :
                 DraftNote(n, type, i, total)
    <3>1. PICK type \in {"CREDIT", "DEBIT"}, i \in Invoices, total \in NoteTotals :
              DraftNote(n, type, i, total)
      BY <2>1
    <3>2. PICK row : row = [type |-> type, status |-> "DRAFT", invoice |-> i, total |-> total]
      OBVIOUS
    <3>3. row \in Note /\ row.status = "DRAFT" /\ row.invoice = i
      BY <3>2 DEF Note
    <3> QED
      BY <3>1, <3>2, <3>3 DEF DraftNote, NoDraft
  <2>2. CASE RemoveDraftNote(n)
    <3>1. note' = [note EXCEPT ![n] = [note[n] EXCEPT !.status = "REMOVED"]]
      BY <2>2 DEF RemoveDraftNote, RInv, Rows
    <3>0. note[n] \in Note
      BY DEF RInv, Rows
    <3>2. [note[n] EXCEPT !.status = "REMOVED"] \in Note
      BY <3>0 DEF Note
    <3>3. /\ [note[n] EXCEPT !.status = "REMOVED"].status # "NONE"
          /\ [note[n] EXCEPT !.status = "REMOVED"].invoice = note[n].invoice
      BY <3>0 DEF Note
    <3>4. note[n].invoice \in Invoices /\ NoDraft(note[n].invoice)
      BY <2>2 DEF RemoveDraftNote, RInv, DraftsAreBare
    <3> QED
      BY <3>1, <3>2, <3>3, <3>4
  <2> QED
    BY <2>1, <2>2
<1>2. UNCHANGED <<invoice, payment, allocation, entries, contras, request, raced>>
  BY DEF DraftNote, RemoveDraftNote
<1>3. Rows'
  BY <1>1, <1>2 DEF RInv, Rows
<1>4. DraftsAreBare'
  BY <1>1, <1>2 DEF RInv, Rows, DraftsAreBare, NoDraft
<1> QED
  BY <1>2, <1>3, <1>4, DraftsKeep

LEMMA RInvInductive == RInv /\ [Next]_vars => RInv'
<1> SUFFICES ASSUME RInv, [Next]_vars PROVE RInv'
  OBVIOUS
<1>1. CASE \E p \in Payments, value \in Amount : RecordPayment(p, value)
  BY <1>1, RecordPaymentKeeps
<1>2. CASE \/ \E n \in Notes, type \in {"CREDIT", "DEBIT"}, i \in Invoices, total \in NoteTotals :
                  DraftNote(n, type, i, total)
           \/ \E n \in Notes : RemoveDraftNote(n)
  BY <1>2, NotesKeep
<1>3. ASSUME NEW r \in Requests, LoadSome(r) \/ Lock(r) \/ Sum(r) \/ CommitSome(r) \/ GiveUp(r)
      PROVE  RInv'
  <2>1. CASE CommitSome(r)
    BY <2>1, VerifyKeeps, UpdateKeeps, AllocationKeeps, BounceKeeps, IssueKeeps, CancelKeeps,
       IssueNoteKeeps DEF CommitSome
  <2> QED
    BY <1>3, <2>1, LoadKeeps, LockKeeps, SumKeeps, GiveUpKeeps
<1>4. CASE UNCHANGED vars
  <2>1. Rows' /\ DraftsAreBare'
    BY <1>4 DEF vars, RInv, Rows, DraftsAreBare, NoDraft
  <2> QED
    BY <1>4, <2>1, DraftsKeep DEF vars
<1> QED
  BY <1>1, <1>2, <1>3, <1>4 DEF Next

(* However requests overlap, and however many documents and requests there *)
(* are: the party ledger is credited exactly once for a verified receipt,  *)
(* not at all for one that is not verified or has bounced, and debited     *)
(* exactly once for an invoice unless it is cancelled - for every document *)
(* whose status two overlapping requests have not both worked on.          *)
THEOREM LedgerTheorem == Spec => []LedgerFollowsDocuments
<1>1. Init => RInv
  BY InitiallyPosted
<1>2. RInv /\ [Next]_vars => RInv'
  BY RInvInductive
<1>3. RInv => LedgerFollowsDocuments
  BY PostedFollows
<1> QED
  BY <1>1, <1>2, <1>3, PTL DEF Spec

(* Any two requests on one document are noted under each of their sorts.   *)
AllMeetingsAreNoted ==
    \A r, q \in Requests, d \in Documents, sort \in DOMAIN Sorts :
        /\ r # q /\ Busy(r) /\ Busy(q)
        /\ d \in Touches(request[r]) /\ d \in Touches(request[q])
        /\ request[r].kind \in Sorts[sort]
        => sort \in raced[d]

OnReceipts == {"VERIFY", "UPDATE", "ALLOCATE", "REMOVE", "BOUNCE"}
OnRows     == {"ALLOCATE", "REMOVE"}

RowsTyped ==
    /\ payment \in [Payments -> Payment]
    /\ allocation \in [Payments -> [Invoices -> Nat]]
    /\ invoice \in [Invoices -> Settlement]
    /\ raced \in [Documents -> SUBSET DOMAIN Sorts]
    /\ \A p \in Payments : -entries[p] \in Nat

Fully(req) ==
    /\ DOMAIN req = Fields
    /\ req.doc \in Documents
    /\ req.amount \in Nat /\ req.available \in Nat /\ req.seen \in [Invoices -> Nat]
    /\ req.kind \in {"VERIFY", "UPDATE"} => req.amount \in Amount
    /\ req.stage = "LOCKED" => req.kind \in OnRows \cup {"ISSUE_NOTE"}
    /\ IF req.stage = "SUMMED"
       THEN /\ req.kind \in OnRows \cup {"ISSUE_NOTE", "BOUNCE"}
            /\ req.settled \in [DOMAIN req.settled -> Settlement]
            /\ DOMAIN req.settled = IF req.kind = "BOUNCE" THEN {i \in Invoices : req.seen[i] > 0}
                                                           ELSE {req.invoice}
       ELSE req.settled = <<>>

Nothing(p) == \A i \in Invoices : allocation[p][i] = 0

(* What a receipt's rows are at each of its statuses.                      *)
ReceiptStands(p) ==
    /\ payment[p].status \in {"NONE", "RECORDED"} =>
           Nothing(p) /\ payment[p].unallocated = payment[p].value
    /\ "UPDATE" \notin raced[p] => Spent(p) + payment[p].unallocated <= payment[p].value
    /\ payment[p].status = "VERIFIED" /\ raced[p] = {} =>
           Spent(p) + payment[p].unallocated = payment[p].value
    /\ payment[p].status = "BOUNCED" /\ Unraced(p) => Nothing(p)

(* What a request has read of its receipt's rows.                          *)
ReceiptAsRead(req) ==
    LET p == req.doc IN
    /\ req.kind \in {"VERIFY", "UPDATE", "REMOVE"} => payment[p].status # "NONE"
    /\ req.kind = "UPDATE" /\ "UPDATE" \notin raced[p] => payment[p].status = "RECORDED"
    /\ req.kind \in {"ALLOCATE", "BOUNCE"} => payment[p].status \in {"VERIFIED", "BOUNCED"}
    /\ req.kind = "ALLOCATE" /\ Unraced(p) => payment[p].status = "VERIFIED"
    /\ req.kind \in OnRows /\ req.stage # "LOADED" =>
           /\ payment[p].status \in {"VERIFIED", "BOUNCED"}
           /\ req.available = payment[p].unallocated
           /\ req.stage = "SUMMED" => req.seen = allocation[p]
    /\ req.kind = "BOUNCE" /\ req.stage = "SUMMED" /\ Unraced(p) => req.seen = allocation[p]

OneLockHolder ==
    \A r, q \in Requests, p \in Payments : LocksPayment(r, p) /\ LocksPayment(q, p) => r = q

Bare(i) == \A p \in Payments : allocation[p][i] = 0

InvoiceStands(i) ==
    /\ invoice[i].status = "CANCELLED" /\ Unraced(i) => Bare(i)
    /\ raced[i] = {} => /\ invoice[i].paid = Applied(allocation, i)
                        /\ invoice[i].credited = Credited(IssuedNotes(i))

(* What a request has read of the rows of an invoice.                      *)
RowsAsRead(req) ==
    /\ req.kind = "CANCEL" /\ Unraced(req.doc) => Bare(req.doc)
    /\ req.kind = "ALLOCATE" /\ req.stage # "LOADED" /\ Unraced(req.invoice) =>
           invoice[req.invoice].status # "CANCELLED"
    /\ req.kind = "ISSUE_NOTE" =>
           note[req.doc].status # "NONE" /\ note[req.doc].invoice = req.invoice
    /\ req.stage = "SUMMED" => \A i \in DOMAIN req.settled : raced[i] = {} =>
           /\ req.settled[i].paid = Applied(OwnView(req), i)
           /\ req.settled[i].credited = Credited(OwnNotes(req, i))

ReadWell(req) == Fully(req) /\ ReceiptAsRead(req) /\ RowsAsRead(req)

QInv ==
    /\ AllMeetingsAreNoted
    /\ RowsTyped
    /\ \A r \in Requests : Busy(r) => \A req \in {request[r]} : ReadWell(req)
    /\ \A p \in Payments : ReceiptStands(p)
    /\ \A i \in Invoices : InvoiceStands(i)
    /\ OneLockHolder

(***************************************************************************)
(* Sums over documents                                                     *)
(***************************************************************************)

(* What is applied to an invoice is a natural number.                      *)
LEMMA AppliedIsNat ==
    ASSUME NEW allocs, NEW i \in Invoices, \A p \in Payments : allocs[p][i] \in Nat
    PROVE  Applied(allocs, i) \in Nat
<1> DEFINE f == [p \in Payments |-> allocs[p][i]]
           z == [p \in Payments |-> 0]
<1>1. IsFiniteSet(Payments)
  BY ReceivablesAssumption
<1>2. \A p \in Payments : f[p] \in Int /\ z[p] \in Int /\ z[p] <= f[p] /\ z[p] = 0
  OBVIOUS
<1> HIDE DEF f, z
<1>3. SumFunctionOnSet(f, Payments) \in Int
  BY <1>1, <1>2, SumIsInt
<1>4. SumFunctionOnSet(z, Payments) = 0
  BY <1>1, <1>2, SumOfZeros
<1>5. SumFunctionOnSet(z, Payments) <= SumFunctionOnSet(f, Payments)
  BY <1>1, <1>2, SumIsMonotone
<1>6. Applied(allocs, i) = SumFunctionOnSet(f, Payments)
  BY DEF f, Applied, SumFunction
<1> QED
  BY <1>3, <1>4, <1>5, <1>6

(* An invoice to which no receipt is allocated has nothing applied.        *)
LEMMA AppliedOfNothing ==
    ASSUME NEW allocs, NEW i, \A p \in Payments : allocs[p][i] = 0
    PROVE  Applied(allocs, i) = 0
<1> DEFINE f == [p \in Payments |-> allocs[p][i]]
<1>1. IsFiniteSet(Payments) /\ \A p \in Payments : f[p] = 0
  BY ReceivablesAssumption
<1>2. Applied(allocs, i) = SumFunctionOnSet(f, Payments)
  BY DEF Applied, SumFunction
<1> HIDE DEF f
<1> QED
  BY <1>1, <1>2, SumOfZeros

(* What is applied to an invoice depends on its own column only.           *)
LEMMA AppliedByColumn ==
    ASSUME NEW a, NEW b, NEW i, \A p \in Payments : a[p][i] = b[p][i]
    PROVE  Applied(a, i) = Applied(b, i)
<1>1. [p \in Payments |-> a[p][i]] = [p \in Payments |-> b[p][i]]
  OBVIOUS
<1> QED
  BY <1>1 DEF Applied

(* What the notes of an invoice credit is an integer.                      *)
LEMMA CreditedIsInt ==
    ASSUME note \in [Notes -> Note], NEW S, S \subseteq Notes
    PROVE  Credited(S) \in Int
<1> DEFINE f == [n \in S |-> Signed(n)]
<1>1. IsFiniteSet(S)
  BY ReceivablesAssumption, FS_Subset
<1>2. \A n \in S : f[n] \in Int
  <2>1. \A n \in S : note[n].total \in NoteTotals \cup {0}
    BY DEF Note
  <2>2. \A t \in NoteTotals \cup {0} : t \in Int /\ -t \in Int
    BY ReceivablesAssumption
  <2> QED
    BY <2>1, <2>2 DEF Signed
<1>3. Credited(S) = SumFunctionOnSet(f, S)
  BY DEF Credited, SumFunction
<1> HIDE DEF f
<1> QED
  BY <1>1, <1>2, <1>3, SumIsInt

(* A receipt without allocations has spent nothing.                        *)
LEMMA SpentOfNothing == ASSUME NEW p, allocation[p] \in [Invoices -> Nat], Nothing(p) PROVE Spent(p) = 0
<1>1. IsFiniteSet(Invoices) /\ DOMAIN allocation[p] = Invoices
  BY ReceivablesAssumption
<1> QED
  BY <1>1, SumOfZeros DEF Nothing, Spent, SumFunction

(* What a receipt has spent is a natural number.                           *)
LEMMA SpentIsNat == ASSUME NEW p, allocation[p] \in [Invoices -> Nat] PROVE Spent(p) \in Nat
<1> DEFINE f == allocation[p]
           z == [i \in Invoices |-> 0]
<1>1. IsFiniteSet(Invoices) /\ DOMAIN f = Invoices
  BY ReceivablesAssumption
<1>2. \A i \in Invoices : f[i] \in Int /\ z[i] \in Int /\ z[i] <= f[i] /\ z[i] = 0
  OBVIOUS
<1>6. Spent(p) = SumFunctionOnSet(f, Invoices)
  BY <1>1 DEF Spent, SumFunction
<1> HIDE DEF f, z
<1>3. SumFunctionOnSet(f, Invoices) \in Int
  BY <1>1, <1>2, SumIsInt
<1>4. SumFunctionOnSet(z, Invoices) = 0
  BY <1>1, <1>2, SumOfZeros
<1>5. SumFunctionOnSet(z, Invoices) <= SumFunctionOnSet(f, Invoices)
  BY <1>1, <1>2, SumIsMonotone
<1> QED
  BY <1>3, <1>4, <1>5, <1>6

(* The invariant says what the properties say.                             *)
LEMMA PropertiesFollow == RInv /\ QInv => SettlementFollowsRows /\ ReceiptsAddUp
<1> SUFFICES ASSUME RInv, QInv PROVE SettlementFollowsRows /\ ReceiptsAddUp
  OBVIOUS
<1>1. TypeOK
  BY DEF RInv, QInv, Rows, RowsTyped, ReadWell, Fully, Fields, TypeOK
<1>2. \A p \in Payments : allocation[p] \in [Invoices -> Nat]
  BY DEF QInv, RowsTyped
<1>3. NothingIsStranded
  <2>1. ASSUME NEW i \in Invoices, invoice[i].status = "CANCELLED", Unraced(i)
        PROVE  Applied(allocation, i) = 0
    <3>1. Bare(i)
      BY <2>1 DEF QInv, InvoiceStands
    <3> QED
      BY <3>1, AppliedOfNothing DEF Bare
  <2>2. ASSUME NEW p \in Payments, payment[p].status = "BOUNCED", Unraced(p)
        PROVE  Spent(p) = 0
    <3>1. Nothing(p)
      BY <2>2 DEF QInv, ReceiptStands
    <3> QED
      BY <1>2, <3>1, SpentOfNothing
  <2> QED
    BY <2>1, <2>2 DEF NothingIsStranded, Unraced
<1>4. SettlementFollowsRows
  BY <1>1, <1>3 DEF SettlementFollowsRows, QInv, InvoiceStands
<1>5. ReceiptsAddUp
  <2> SUFFICES ASSUME NEW p \in Payments
               PROVE  /\ "UPDATE" \notin raced[p] => Spent(p) <= payment[p].value
                      /\ payment[p].status = "VERIFIED" /\ raced[p] = {} =>
                             Spent(p) + payment[p].unallocated = payment[p].value
    BY DEF ReceiptsAddUp
  <2>1. ReceiptStands(p) /\ payment[p].unallocated \in Nat /\ payment[p].value \in Nat /\ Spent(p) \in Nat
    BY <1>2, SpentIsNat, ReceivablesAssumption DEF QInv, RowsTyped, Payment, Amount
  <2> QED
    BY <2>1 DEF ReceiptStands
<1> QED
  BY <1>4, <1>5

(* Nothing is recorded at first.                                           *)
LEMMA InitiallyStanding == Init => QInv
<1> SUFFICES ASSUME Init PROVE QInv
  OBVIOUS
<1>1. \A r \in Requests : ~Busy(r)
  BY DEF Init, Busy
<1>2. RowsTyped
  BY ReceivablesAssumption DEF Init, RowsTyped, Payment, Settlement, InvoiceStatuses, Amount, Documents
<1>3. AllMeetingsAreNoted /\ OneLockHolder
  BY <1>1 DEF AllMeetingsAreNoted, OneLockHolder, LocksPayment, Holding
<1>4. ASSUME NEW p \in Payments PROVE ReceiptStands(p)
  <2>1. Nothing(p) /\ payment[p].status = "NONE" /\ payment[p].unallocated = 0 /\ payment[p].value = 0
    BY DEF Init, Nothing
  <2>2. Spent(p) = 0
    BY <1>2, <2>1, SpentOfNothing DEF RowsTyped
  <2> QED
    BY <2>1, <2>2 DEF ReceiptStands
<1>5. ASSUME NEW i \in Invoices PROVE InvoiceStands(i)
  <2>1. \A p \in Payments : allocation[p][i] = 0
    BY DEF Init
  <2>2. IssuedNotes(i) = {}
    BY DEF Init, IssuedNotes
  <2>3. Credited({}) = 0
    <3>1. DOMAIN [n \in {} |-> Signed(n)] = {}
      OBVIOUS
    <3> QED
      BY <3>1, SumOfNone DEF Credited, SumFunction
  <2>4. invoice[i].status = "DRAFT" /\ invoice[i].paid = 0 /\ invoice[i].credited = 0
    BY DEF Init
  <2> QED
    BY <2>1, <2>2, <2>3, <2>4, AppliedOfNothing DEF InvoiceStands
<1> QED
  BY <1>1, <1>2, <1>3, <1>4, <1>5 DEF QInv

(***************************************************************************)
(* Requests that proceed                                                   *)
(***************************************************************************)

(* A request that proceeds changes its own entry; notes are only added.    *)
LEMMA RacesGrow ==
    ASSUME RInv, QInv, NEW r \in Requests, NEW req, Proceed(r, req)
    PROVE  /\ request' = [q \in Requests |-> request'[q]]
           /\ request'[r] = req /\ \A q \in Requests \ {r} : request'[q] = request[q]
           /\ raced' \in [Documents -> SUBSET DOMAIN Sorts]
           /\ \A d \in Documents : raced[d] \subseteq raced'[d]
<1>1. \A d \in Documents : Met(r, req, d) \subseteq DOMAIN Sorts
  BY DEF Met
<1> QED
  BY <1>1 DEF Proceed, RInv, Rows, QInv, RowsTyped

(* Whom it meets is noted.                                                 *)
LEMMA ProceedNotesAll ==
    ASSUME RInv, QInv, NEW r \in Requests, NEW req, Proceed(r, req)
    PROVE  AllMeetingsAreNoted'
<1> SUFFICES ASSUME NEW s \in Requests, NEW q \in Requests, NEW d \in Documents,
                    NEW sort \in DOMAIN Sorts, s # q, Busy(s)', Busy(q)',
                    d \in Touches(request'[s]), d \in Touches(request'[q]),
                    request'[s].kind \in Sorts[sort]
             PROVE  sort \in raced'[d]
  BY DEF AllMeetingsAreNoted, Sorts, Touches
<1>1. /\ request'[r] = req /\ \A t \in Requests \ {r} : request'[t] = request[t]
      /\ raced'[d] = raced[d] \cup Met(r, req, d)
  BY DEF Proceed, RInv, Rows
<1>3. CASE s # r /\ q # r
  <2>1. Busy(s) /\ Busy(q) /\ request'[s] = request[s] /\ request'[q] = request[q]
    BY <1>1, <1>3 DEF Busy
  <2> QED
    BY <1>1, <2>1 DEF QInv, AllMeetingsAreNoted
<1>4. CASE s = r \/ q = r
  <2>1. PICK o \in Requests : o # r /\ o \in {s, q}
    BY <1>4
  <2>2. o \in {x \in Others(r) : d \in Touches(request[x])}
    BY <1>1, <2>1 DEF Others, Busy
  <2>3. d \in Touches(req)
    BY <1>1, <1>4
  <2>4. \E k \in {req.kind} \cup {request[x].kind : x \in {y \in Others(r) : d \in Touches(request[y])}} :
            k \in Sorts[sort]
    BY <1>1, <1>4, <2>1, <2>2
  <2>5. sort \in Met(r, req, d)
    BY <2>2, <2>3, <2>4 DEF Met
  <2> QED
    BY <1>1, <2>5
<1> QED
  BY <1>3, <1>4

(* What was read stays read while no row is written.                       *)
LEMMA RowsStand ==
    ASSUME RInv, QInv, UNCHANGED <<invoice, payment, allocation, note, entries, contras>>,
           \A d \in Documents : raced[d] \subseteq raced'[d],
           NEW req, RequestTyped(req), ReadWell(req)
    PROVE  ReadWell(req)'
<1>0. Fully(req) /\ ReceiptAsRead(req) /\ RowsAsRead(req) /\ Fully(req)'
  BY DEF ReadWell, Fully
<1>1. \A d \in Documents : /\ Unraced(d)' => Unraced(d)
                           /\ "UPDATE" \notin raced'[d] => "UPDATE" \notin raced[d]
                           /\ raced'[d] = {} => raced[d] = {}
  BY DEF Unraced
<1>2. req.doc \in Documents
  BY <1>0 DEF Fully
<1>3. ReceiptAsRead(req)'
  BY <1>0, <1>1, <1>2 DEF ReceiptAsRead
<1>4. req.kind = "ALLOCATE" => req.invoice \in Documents
  BY DEF RequestTyped, Documents
<1>5. req.stage = "SUMMED" => \A i \in DOMAIN req.settled : i \in Documents
  BY DEF RequestTyped, Documents
<1>6. OwnView(req)' = OwnView(req) /\ \A i : OwnNotes(req, i)' = OwnNotes(req, i)
  BY DEF OwnView, OwnNotes, IssuedNotes
<1>7. \A S : Credited(S)' = Credited(S)
  BY DEF Credited, Signed
<1>8. RowsAsRead(req)'
  <2>1. req.kind = "CANCEL" /\ Unraced(req.doc)' => Bare(req.doc)'
    BY <1>0, <1>1, <1>2 DEF RowsAsRead, Bare
  <2>2. req.kind = "ALLOCATE" /\ req.stage # "LOADED" /\ Unraced(req.invoice)' =>
           invoice'[req.invoice].status # "CANCELLED"
    BY <1>0, <1>1, <1>4 DEF RowsAsRead
  <2>3. req.kind = "ISSUE_NOTE" =>
           note'[req.doc].status # "NONE" /\ note'[req.doc].invoice = req.invoice
    BY <1>0 DEF RowsAsRead
  <2>4. ASSUME req.stage = "SUMMED", NEW i \in DOMAIN req.settled, raced'[i] = {}
        PROVE  /\ req.settled[i].paid = Applied(OwnView(req)', i)
               /\ req.settled[i].credited = Credited(OwnNotes(req, i))'
    <3>1. /\ req.settled[i].paid = Applied(OwnView(req), i)
          /\ req.settled[i].credited = Credited(OwnNotes(req, i))
      BY <1>0, <1>1, <1>5, <2>4 DEF RowsAsRead
    <3>2. PICK S : S = OwnNotes(req, i)
      OBVIOUS
    <3>3. OwnNotes(req, i)' = S
      BY <1>6, <3>2
    <3>4. Credited(OwnNotes(req, i))' = Credited(S)'
      BY <3>3 DEF Credited
    <3> QED
      BY <1>6, <1>7, <3>1, <3>2, <3>4
  <2>5. ASSUME NEW i PROVE Applied(OwnView(req), i)' = Applied(OwnView(req)', i)
    BY DEF Applied
  <2> QED
    BY <2>1, <2>2, <2>3, <2>4, <2>5 DEF RowsAsRead
<1> QED
  BY <1>0, <1>3, <1>8 DEF ReadWell

(* A step that only reads rows keeps what the rows are.                    *)
LEMMA ReadKeepsStanding ==
    ASSUME RInv, QInv, UNCHANGED <<invoice, payment, allocation, note, entries, contras>>,
           NEW r \in Requests, AllMeetingsAreNoted', OneLockHolder',
           raced' \in [Documents -> SUBSET DOMAIN Sorts],
           \A d \in Documents : raced[d] \subseteq raced'[d],
           \A q \in Requests \ {r} : request'[q] = request[q],
           Busy(r)' => /\ RequestTyped(request'[r])
                       /\ \A req \in {request'[r]} : ReadWell(req)
    PROVE  QInv'
<1>1. RowsTyped'
  BY DEF QInv, RowsTyped
<1>2. ASSUME NEW q \in Requests, Busy(q)', NEW req, req = request'[q]
      PROVE  ReadWell(req)'
  <2>1. RequestTyped(req) /\ ReadWell(req)
    BY <1>2 DEF RInv, QInv, Busy
  <2> QED
    BY <2>1, RowsStand
<1>3. ASSUME NEW p \in Payments PROVE ReceiptStands(p)'
  BY DEF QInv, ReceiptStands, Nothing, Spent, Unraced, Documents
<1>4. ASSUME NEW i \in Invoices PROVE InvoiceStands(i)'
  <2>1. i \in Documents /\ InvoiceStands(i)
    BY DEF Documents, QInv
  <2>2. IssuedNotes(i)' = IssuedNotes(i)
    BY DEF IssuedNotes
  <2>3. Credited(IssuedNotes(i))' = Credited(IssuedNotes(i))
    BY <2>2 DEF Credited, Signed
  <2>4. Unraced(i)' => Unraced(i)
    BY <2>1 DEF Unraced
  <2> QED
    BY <2>1, <2>3, <2>4 DEF InvoiceStands, Bare, Applied
<1> QED
  BY <1>1, <1>2, <1>3, <1>4 DEF QInv

(* A request that starts has read its document, and its reading is noted   *)
(* against whoever works on it.                                            *)
LEMMA LoadStands ==
    ASSUME RInv, QInv, NEW r \in Requests, LoadSome(r), RInv'
    PROVE  QInv'
<1> DEFINE Fresh(kind, doc, i, amount) ==
        [kind |-> kind, doc |-> doc, invoice |-> i, amount |-> amount,
         stage |-> "LOADED", available |-> 0, seen |-> NothingRead, settled |-> <<>>]
<1>1. ASSUME NEW kind \in AllKinds, NEW doc \in Documents, NEW i, NEW amount \in Nat,
             Load(r, kind, doc, i, amount),
             kind \in {"VERIFY", "UPDATE"} => amount \in Amount /\ payment[doc].status = "RECORDED",
             kind \in {"ALLOCATE", "BOUNCE"} => payment[doc].status = "VERIFIED",
             kind = "REMOVE" => payment[doc].status # "NONE",
             kind = "CANCEL" => Bare(doc),
             kind = "ISSUE_NOTE" => note[doc].status # "NONE" /\ note[doc].invoice = i
      PROVE  QInv'
  <2>1. PICK req : req = Fresh(kind, doc, i, amount)
    OBVIOUS
  <2>2. Proceed(r, req) /\ UNCHANGED <<invoice, payment, allocation, note, entries, contras>>
    BY <1>1, <2>1 DEF Load
  <2>3. Fully(req)
    BY <1>1, <2>1 DEF Fully, Fields, NothingRead
  <2>4. ReceiptAsRead(req) /\ RowsAsRead(req)
    BY <1>1, <2>1 DEF ReceiptAsRead, RowsAsRead, OnRows
  <2>5. AllMeetingsAreNoted'
    BY <2>2, ProceedNotesAll
  <2>6. OneLockHolder'
    <3>1. request'[r] = req /\ req.stage = "LOADED" /\ \A q \in Requests \ {r} : request'[q] = request[q]
      BY <2>1, <2>2, RacesGrow
    <3> QED
      BY <3>1 DEF QInv, OneLockHolder, LocksPayment, Holding, Busy
  <2>7. Busy(r)' => RequestTyped(request'[r]) /\ \A x \in {request'[r]} : ReadWell(x)
    <3>1. request'[r] = req
      BY <2>2, RacesGrow
    <3>2. Busy(r)' => RequestTyped(request'[r])
      BY DEF RInv, RequestTyped
    <3> QED
      BY <2>3, <2>4, <3>1, <3>2 DEF ReadWell
  <2> QED
    BY <2>2, <2>5, <2>6, <2>7, RacesGrow, ReadKeepsStanding
<1>2. ASSUME NEW p \in Payments,
             \/ LoadForVerify(r, p)
             \/ \E amount \in Amount : LoadForUpdate(r, p, amount)
             \/ \E i \in Invoices, amount \in Amount : LoadForAllocate(r, p, i, amount)
             \/ \E i \in Invoices : LoadForRemove(r, p, i)
             \/ LoadForBounce(r, p)
      PROVE  QInv'
  <2>1. payment[p].value \in Amount /\ 0 \in Nat /\ Amount \subseteq Nat /\ p \in Documents
    BY ReceivablesAssumption DEF QInv, RowsTyped, Payment, Amount, Documents
  <2>2. CASE LoadForVerify(r, p)
    BY <1>1, <2>1, <2>2 DEF LoadForVerify, AllKinds
  <2>3. CASE \E amount \in Amount : LoadForUpdate(r, p, amount)
    <3>1. PICK amount \in Amount : Load(r, "UPDATE", p, NoInvoice, amount) /\ payment[p].status = "RECORDED"
      BY <2>1, <2>3 DEF LoadForUpdate
    <3> QED
      BY <1>1, <2>1, <3>1 DEF AllKinds
  <2>4. CASE \E i \in Invoices, amount \in Amount : LoadForAllocate(r, p, i, amount)
    <3>1. PICK i \in Invoices, amount \in Amount :
              Load(r, "ALLOCATE", p, i, amount) /\ payment[p].status = "VERIFIED"
      BY <2>1, <2>4 DEF LoadForAllocate
    <3> QED
      BY <1>1, <2>1, <3>1 DEF AllKinds
  <2>5. CASE \E i \in Invoices : LoadForRemove(r, p, i)
    BY <1>1, <2>1, <2>5 DEF LoadForRemove, AllKinds
  <2>6. CASE LoadForBounce(r, p)
    BY <1>1, <2>1, <2>6 DEF LoadForBounce, AllKinds
  <2> QED
    BY <1>2, <2>2, <2>3, <2>4, <2>5, <2>6
<1>3. ASSUME NEW i \in Invoices, LoadForIssue(r, i) \/ LoadForCancel(r, i)
      PROVE  QInv'
  <2>0. i \in Documents /\ 0 \in Nat
    BY DEF Documents
  <2>1. CASE LoadForIssue(r, i)
    BY <1>1, <2>0, <2>1 DEF LoadForIssue, AllKinds
  <2>2. CASE LoadForCancel(r, i)
    BY <1>1, <2>0, <2>2 DEF LoadForCancel, AllKinds, Bare
  <2> QED
    BY <1>3, <2>1, <2>2
<1>4. ASSUME NEW n \in Notes, LoadForIssueNote(r, n)
      PROVE  QInv'
  BY <1>1, <1>4 DEF LoadForIssueNote, AllKinds, Documents
<1> QED
  BY <1>2, <1>3, <1>4 DEF LoadSome

(* The lock on a receipt is taken by one request, which reads the row.     *)
LEMMA LockStands ==
    ASSUME RInv, QInv, NEW r \in Requests, Lock(r), RInv'
    PROVE  QInv'
<1>1. PICK req : req = request[r]
  OBVIOUS
<1>2. /\ RequestTyped(req) /\ Fully(req) /\ ReceiptAsRead(req) /\ RowsAsRead(req)
      /\ Busy(r) /\ req.stage = "LOADED" /\ req.kind \in OnRows \cup {"ISSUE_NOTE"}
      /\ req.kind \in OnRows => PaymentFree(r, req.doc)
      /\ req.kind = "REMOVE" => allocation[req.doc][req.invoice] > 0
      /\ req.kind = "ALLOCATE" => invoice[req.invoice].status # "CANCELLED"
      /\ UNCHANGED <<invoice, payment, allocation, note, entries, contras, raced>>
  BY <1>1 DEF Lock, RInv, QInv, ReadWell, Lockable, MayAllocate, OnRows
<1>3. PICK next : next = [req EXCEPT !.stage = "LOCKED",
                   !.available = IF req.doc \in Payments THEN payment[req.doc].unallocated ELSE 0]
  OBVIOUS
<1>4. /\ request'[r] = next /\ \A q \in Requests \ {r} : request'[q] = request[q]
      /\ next.stage = "LOCKED" /\ next.kind = req.kind /\ next.doc = req.doc /\ next.invoice = req.invoice
      /\ next.amount = req.amount /\ next.seen = req.seen /\ next.settled = req.settled
      /\ DOMAIN next = Fields
      /\ next.available = IF req.doc \in Payments THEN payment[req.doc].unallocated ELSE 0
  BY <1>1, <1>2, <1>3 DEF Lock, RInv, Rows, Fully, Fields
<1>5. Fully(next)
  <2>1. next.available \in Nat
    BY <1>4, ReceivablesAssumption DEF QInv, RowsTyped, Payment, Amount
  <2> QED
    BY <1>2, <1>4, <2>1 DEF Fully, Fields
<1>6. ReceiptAsRead(next)
  <2>1. CASE req.kind \in OnRows
    <3>1. req.doc \in Payments
      BY <1>2, <2>1 DEF RequestTyped, OnRows
    <3>2. req.kind = "REMOVE" => payment[req.doc].status \notin {"NONE", "RECORDED"}
      BY <1>2, <3>1 DEF QInv, ReceiptStands, Nothing, RequestTyped
    <3>3. payment[req.doc].status \in {"NONE", "RECORDED", "VERIFIED", "BOUNCED"}
      BY <3>1 DEF RInv, Rows
    <3>4. payment[req.doc].status \in {"VERIFIED", "BOUNCED"}
      BY <1>2, <2>1, <3>2, <3>3 DEF ReceiptAsRead, OnRows
    <3> QED
      BY <1>2, <1>4, <2>1, <3>1, <3>4 DEF ReceiptAsRead, OnRows
  <2>2. CASE req.kind = "ISSUE_NOTE"
    BY <1>4, <2>2 DEF ReceiptAsRead, OnRows
  <2> QED
    BY <1>2, <2>1, <2>2
<1>7. RowsAsRead(next)
  BY <1>2, <1>4 DEF RowsAsRead, OnRows
<1>8. AllMeetingsAreNoted'
  <2>1. ASSUME NEW q \in Requests, Busy(q)'
        PROVE  Busy(q) /\ request'[q].kind = request[q].kind /\ Touches(request'[q]) = Touches(request[q])
    BY <1>1, <1>2, <1>4, <2>1 DEF Busy, Touches
  <2>2. ASSUME NEW s \in Requests, NEW q \in Requests, NEW d \in Documents,
               NEW sort \in DOMAIN Sorts, s # q, Busy(s)', Busy(q)',
               d \in Touches(request'[s]), d \in Touches(request'[q]),
               request'[s].kind \in Sorts[sort]
        PROVE  sort \in raced'[d]
    BY <1>2, <2>1, <2>2 DEF QInv, AllMeetingsAreNoted
  <2> QED
    BY <2>2 DEF AllMeetingsAreNoted, Sorts, Touches
<1>9. OneLockHolder'
  <2> SUFFICES ASSUME NEW s \in Requests, NEW q \in Requests, NEW p \in Payments, s # q,
                      LocksPayment(s, p)', LocksPayment(q, p)'
               PROVE  FALSE
    BY DEF OneLockHolder, LocksPayment
  <2>1. \A t \in Requests \ {r} : LocksPayment(t, p)' => LocksPayment(t, p)
    BY <1>4 DEF LocksPayment, Holding, Busy
  <2>2. CASE s # r /\ q # r
    BY <2>1, <2>2 DEF QInv, OneLockHolder
  <2>3. CASE s = r \/ q = r
    <3>1. req.kind \in OnRows /\ req.doc = p
      BY <1>4, <2>3 DEF LocksPayment, OnRows
    <3>2. PICK o \in {s, q} : o # r
      OBVIOUS
    <3>3. LocksPayment(o, p) /\ o \in Others(r)
      BY <2>1, <3>2 DEF LocksPayment, Holding, Others
    <3> QED
      BY <1>2, <3>1, <3>3 DEF PaymentFree
  <2> QED
    BY <2>2, <2>3
<1>10. Busy(r)' => RequestTyped(request'[r])
  BY DEF RInv, RequestTyped
<1>11. raced' \in [Documents -> SUBSET DOMAIN Sorts] /\ \A d \in Documents : raced[d] \subseteq raced'[d]
  BY <1>2 DEF QInv, RowsTyped
<1> QED
  BY <1>2, <1>4, <1>5, <1>6, <1>7, <1>8, <1>9, <1>10, <1>11, ReadKeepsStanding DEF ReadWell

(* Under the lock a request reads every row it will overwrite.             *)
LEMMA SumStands ==
    ASSUME RInv, QInv, NEW r \in Requests, Sum(r), RInv'
    PROVE  QInv'
<1>1. PICK req : req = request[r]
  OBVIOUS
<1>2. /\ RequestTyped(req) /\ Fully(req) /\ ReceiptAsRead(req) /\ RowsAsRead(req)
      /\ Busy(r) /\ ReadyToSum(req)
      /\ UNCHANGED <<invoice, payment, allocation, note, entries, contras>>
  BY <1>1 DEF Sum, RInv, QInv, ReadWell
<1>3. PICK next : next = [req EXCEPT
               !.stage   = "SUMMED",
               !.amount  = IF req.kind = "BOUNCE" THEN -entries[req.doc] ELSE @,
               !.seen    = IF req.doc \in Payments THEN allocation[req.doc] ELSE @,
               !.settled = [i \in ToSettle(req) |-> Settled(i, OwnView(req), OwnNotes(req, i))]]
  OBVIOUS
<1>4. /\ next.stage = "SUMMED" /\ next.kind = req.kind /\ next.doc = req.doc /\ next.invoice = req.invoice
      /\ next.amount = IF req.kind = "BOUNCE" THEN -entries[req.doc] ELSE req.amount
      /\ next.seen = IF req.doc \in Payments THEN allocation[req.doc] ELSE req.seen
      /\ next.settled = [i \in ToSettle(req) |-> Settled(i, OwnView(req), OwnNotes(req, i))]
      /\ next.available = req.available
      /\ DOMAIN next = Fields
  BY <1>2, <1>3 DEF Fully, Fields
<1>5. Proceed(r, next)
  BY <1>1, <1>3 DEF Sum
<1>6. request'[r] = next /\ \A q \in Requests \ {r} : request'[q] = request[q]
  BY <1>5, RacesGrow
<1>7. /\ req.kind \in {"ALLOCATE", "REMOVE", "ISSUE_NOTE", "BOUNCE"}
      /\ req.kind # "BOUNCE" => req.stage = "LOCKED"
      /\ req.kind # "ISSUE_NOTE" => req.doc \in Payments
      /\ req.kind = "ISSUE_NOTE" => req.doc \in Notes /\ req.doc \notin Payments
      /\ req.kind # "BOUNCE" => req.invoice \in Invoices
  BY <1>2, ReceivablesAssumption DEF ReadyToSum, RequestTyped
<1>8. \A p \in Payments, i \in Invoices : OwnView(req)[p][i] \in Nat
  <2>1. allocation \in [Payments -> [Invoices -> Nat]] /\ req.amount \in Nat /\ NothingRead \in [Invoices -> Nat]
    BY <1>2 DEF QInv, RowsTyped, Fully, NothingRead
  <2>2. CASE req.kind = "ALLOCATE"
    BY <1>7, <2>1, <2>2 DEF OwnView
  <2>3. CASE req.kind = "REMOVE"
    BY <1>7, <2>1, <2>3 DEF OwnView
  <2>4. CASE req.kind = "BOUNCE"
    BY <1>7, <2>1, <2>4 DEF OwnView
  <2>5. CASE req.kind = "ISSUE_NOTE"
    BY <1>7, <2>1, <2>5 DEF OwnView
  <2> QED
    BY <1>7, <2>2, <2>3, <2>4, <2>5
<1>9. ASSUME NEW i \in Invoices PROVE Settled(i, OwnView(req), OwnNotes(req, i)) \in Settlement
  <2>1. Applied(OwnView(req), i) \in Nat
    BY <1>8, AppliedIsNat
  <2>2. OwnNotes(req, i) \subseteq Notes
    BY <1>7 DEF OwnNotes, IssuedNotes
  <2>3. Credited(OwnNotes(req, i)) \in Int
    BY <2>2, CreditedIsInt DEF RInv, Rows
  <2>4. invoice[i].status \in InvoiceStatuses
    BY DEF RInv, Rows
  <2> QED
    BY <2>1, <2>3, <2>4 DEF Settled, Settlement, InvoiceStatuses
<1>10. ToSettle(req) \subseteq Invoices
  BY <1>7 DEF ToSettle
<1>11. Fully(next)
  <2>1. next.amount \in Nat
    BY <1>2, <1>4, <1>7 DEF QInv, RowsTyped, Fully
  <2>2. next.seen \in [Invoices -> Nat]
    BY <1>2, <1>4 DEF QInv, RowsTyped, Fully
  <2>3. next.settled \in [DOMAIN next.settled -> Settlement] /\ DOMAIN next.settled = ToSettle(req)
    BY <1>4, <1>9, <1>10
  <2>4. ToSettle(req) = IF req.kind = "BOUNCE" THEN {i \in Invoices : next.seen[i] > 0} ELSE {req.invoice}
    BY <1>4, <1>7 DEF ToSettle
  <2> QED
    BY <1>2, <1>4, <1>7, <2>1, <2>2, <2>3, <2>4 DEF Fully, OnRows
<1>12. ReceiptAsRead(next)
  BY <1>2, <1>4, <1>7 DEF ReceiptAsRead, OnRows
<1>13. RowsAsRead(next)
  <2>1. OwnView(next) = OwnView(req)
    BY <1>4, <1>7 DEF OwnView
  <2>2. \A i : OwnNotes(next, i) = OwnNotes(req, i)
    BY <1>4 DEF OwnNotes
  <2>3. ASSUME NEW i \in DOMAIN next.settled
        PROVE  /\ next.settled[i].paid = Applied(OwnView(next), i)
               /\ next.settled[i].credited = Credited(OwnNotes(next, i))
    <3>1. next.settled[i] = Settled(i, OwnView(req), OwnNotes(req, i))
      BY <1>4, <2>3
    <3>2. /\ next.settled[i].paid = Applied(OwnView(req), i)
          /\ next.settled[i].credited = Credited(OwnNotes(req, i))
      BY <3>1 DEF Settled
    <3> QED
      BY <2>1, <2>2, <3>2
  <2> QED
    BY <1>2, <1>4, <1>7, <2>3 DEF RowsAsRead
<1>14. AllMeetingsAreNoted'
  BY <1>5, ProceedNotesAll
<1>15. OneLockHolder'
  <2>1. \A p \in Payments : LocksPayment(r, p)' => LocksPayment(r, p)
    BY <1>1, <1>2, <1>4, <1>6, <1>7 DEF LocksPayment, Holding, Busy
  <2>2. \A q \in Requests, p \in Payments : LocksPayment(q, p)' => LocksPayment(q, p)
    BY <1>6, <2>1 DEF LocksPayment, Holding, Busy
  <2> QED
    BY <2>2 DEF QInv, OneLockHolder, LocksPayment
<1>16. Busy(r)' => RequestTyped(request'[r])
  BY DEF RInv, RequestTyped
<1>17. Busy(r)' => \A x \in {request'[r]} : ReadWell(x)
  BY <1>6, <1>11, <1>12, <1>13 DEF ReadWell
<1> QED
  BY <1>2, <1>5, <1>6, <1>14, <1>15, <1>16, <1>17, RacesGrow, ReadKeepsStanding

(***************************************************************************)
(* Requests that end                                                       *)
(***************************************************************************)

(* What the rows of a document that nobody writes add up to.               *)
LEMMA OtherColumnsStand ==
    ASSUME RInv, QInv, NEW i \in Invoices, raced'[i] = raced[i],
           invoice'[i] = invoice[i], \A p \in Payments : allocation'[p][i] = allocation[p][i],
           IssuedNotes(i)' = IssuedNotes(i),
           \A n \in IssuedNotes(i) : Signed(n)' = Signed(n)
    PROVE  InvoiceStands(i)'
<1>1. [p \in Payments |-> allocation[p][i]]' = [p \in Payments |-> allocation[p][i]]
  OBVIOUS
<1>2. Applied(allocation, i)' = Applied(allocation, i)
  BY <1>1 DEF Applied
<1>3. [n \in IssuedNotes(i) |-> Signed(n)]' = [n \in IssuedNotes(i) |-> Signed(n)]
  OBVIOUS
<1>4. Credited(IssuedNotes(i))' = Credited(IssuedNotes(i))
  BY <1>3 DEF Credited
<1> QED
  BY <1>2, <1>4 DEF QInv, InvoiceStands, Unraced, Bare

(* Notes and allocations of another invoice do not count for this one.     *)
LEMMA OtherSumsStand ==
    ASSUME RInv, QInv, NEW req, RequestTyped(req), Fully(req), RowsAsRead(req),
           req.stage = "SUMMED", NEW i \in DOMAIN req.settled, raced[i] = {},
           \A p \in Payments : allocation'[p][i] = allocation[p][i],
           allocation' \in [Payments -> [Invoices -> Nat]],
           IssuedNotes(i)' = IssuedNotes(i),
           \A n \in Notes : note[n].status # "NONE" => Signed(n)' = Signed(n)
    PROVE  /\ req.settled[i].paid = Applied(OwnView(req), i)'
           /\ req.settled[i].credited = Credited(OwnNotes(req, i))'
<1>1. /\ req.settled[i].paid = Applied(OwnView(req), i)
      /\ req.settled[i].credited = Credited(OwnNotes(req, i))
  BY DEF RowsAsRead
<1>2. i \in Invoices /\ allocation \in [Payments -> [Invoices -> Nat]]
  BY DEF RequestTyped, QInv, RowsTyped
<1>3. \A p \in Payments : OwnView(req)'[p][i] = OwnView(req)[p][i]
  <2>1. CASE req.kind = "ALLOCATE"
    BY <1>2, <2>1 DEF OwnView, RequestTyped
  <2>2. CASE req.kind = "REMOVE"
    BY <1>2, <2>2 DEF OwnView, RequestTyped
  <2>3. CASE req.kind = "BOUNCE"
    BY <1>2, <2>3 DEF OwnView, RequestTyped
  <2>4. CASE req.kind \notin {"ALLOCATE", "REMOVE", "BOUNCE"}
    BY <1>2, <2>4 DEF OwnView
  <2> QED
    BY <2>1, <2>2, <2>3, <2>4
<1>4. Applied(OwnView(req), i)' = Applied(OwnView(req), i)
  <2>1. [p \in Payments |-> OwnView(req)[p][i]]' = [p \in Payments |-> OwnView(req)[p][i]]
    BY <1>3
  <2> QED
    BY <2>1 DEF Applied
<1>5. Credited(OwnNotes(req, i))' = Credited(OwnNotes(req, i))
  <2>1. OwnNotes(req, i)' = OwnNotes(req, i)
    BY DEF OwnNotes
  <2>2. \A n \in OwnNotes(req, i) : n \in Notes /\ note[n].status # "NONE"
    BY DEF OwnNotes, IssuedNotes, RowsAsRead, RequestTyped
  <2>3. [n \in OwnNotes(req, i) |-> Signed(n)]' = [n \in OwnNotes(req, i) |-> Signed(n)]
    BY <2>1, <2>2
  <2> QED
    BY <2>3 DEF Credited
<1> QED
  BY <1>1, <1>4, <1>5

(* A request that ends leaves the requests that overlap it as they were:   *)
(* where one of them has read what it wrote, their meeting is noted.       *)
LEMMA EndStands ==
    ASSUME RInv, QInv, NEW r \in Requests, Busy(r), Done(r), UNCHANGED raced, RowsTyped',
           NEW req, req = request[r],
           \A p \in Payments : p # req.doc =>
               payment'[p] = payment[p] /\ allocation'[p] = allocation[p],
           \A p \in Payments : p = req.doc =>
               /\ ReceiptStands(p)'
               /\ payment[p].status # "NONE" => payment'[p].status # "NONE"
               /\ payment[p].status \in {"VERIFIED", "BOUNCED"} =>
                      payment'[p].status \in {"VERIFIED", "BOUNCED"}
               /\ payment'[p].status = payment[p].status \/ req.kind \in Sorts["STATUS"]
               /\ \/ payment'[p].unallocated = payment[p].unallocated /\ allocation'[p] = allocation[p]
                  \/ PaymentFree(r, p) \/ LocksPayment(r, p),
           \A i \in Invoices : i \notin Touches(req) =>
               /\ invoice'[i] = invoice[i] /\ IssuedNotes(i)' = IssuedNotes(i)
               /\ \A p \in Payments : allocation'[p][i] = allocation[p][i],
           \A i \in Invoices : i \in Touches(req) =>
               /\ InvoiceStands(i)'
               /\ Unraced(i) /\ invoice'[i].status = "CANCELLED" =>
                      invoice[i].status = "CANCELLED" \/ req.kind \in Sorts["STATUS"],
           \A n \in Notes : note[n].status # "NONE" =>
               /\ note'[n].status # "NONE" /\ note'[n].invoice = note[n].invoice
               /\ Signed(n)' = Signed(n)
    PROVE  QInv'
<1>1. \A d : Unraced(d)' = Unraced(d)
  BY DEF Unraced
<1>2. /\ request' = [q \in Requests |-> request'[q]]
      /\ \A q \in Requests : Busy(q)' => q # r /\ Busy(q) /\ request'[q] = request[q]
  BY DEF Done, Busy, RInv, Rows
<1>3. AllMeetingsAreNoted'
  <2> SUFFICES ASSUME NEW s \in Requests, NEW q \in Requests, NEW d \in Documents,
                      NEW sort \in DOMAIN Sorts, s # q, Busy(s)', Busy(q)',
                      d \in Touches(request'[s]), d \in Touches(request'[q]),
                      request'[s].kind \in Sorts[sort]
               PROVE  sort \in raced'[d]
    BY DEF AllMeetingsAreNoted, Sorts, Touches
  <2> QED
    BY <1>2 DEF QInv, AllMeetingsAreNoted
<1>4. OneLockHolder'
  BY <1>2 DEF QInv, OneLockHolder, LocksPayment, Holding
<1>5. ASSUME NEW p \in Payments PROVE ReceiptStands(p)'
  <2>1. CASE p = req.doc
    BY <2>1
  <2>2. CASE p # req.doc
    BY <1>1, <2>2 DEF QInv, ReceiptStands, Nothing, Spent
  <2> QED
    BY <2>1, <2>2
<1>6. ASSUME NEW i \in Invoices PROVE InvoiceStands(i)'
  <2>1. CASE i \in Touches(req)
    BY <2>1
  <2>2. CASE i \notin Touches(req)
    <3>1. \A n \in IssuedNotes(i) : Signed(n)' = Signed(n)
      BY DEF IssuedNotes
    <3> QED
      BY <2>2, <3>1, OtherColumnsStand
  <2> QED
    BY <2>1, <2>2
<1>7. ASSUME NEW q \in Requests, Busy(q)', NEW other, other = request'[q]
      PROVE  ReadWell(other)'
  <2>1. /\ q # r /\ Busy(q) /\ other = request[q]
        /\ RequestTyped(other) /\ Fully(other) /\ ReceiptAsRead(other) /\ RowsAsRead(other)
    BY <1>2, <1>7 DEF RInv, QInv, ReadWell
  <2>2. /\ other.doc \in Documents /\ other.doc \in Touches(other)
        /\ other.invoice \in Invoices => other.invoice \in Touches(other) /\ other.invoice \in Documents
        /\ other.stage = "SUMMED" => \A i \in DOMAIN other.settled :
               i \in Touches(other) /\ i \in Invoices /\ i \in Documents
        /\ req.doc \in Touches(req)
    BY <2>1 DEF Fully, Touches, RequestTyped, Documents
  <2>3. ASSUME NEW d \in Documents, d \in Touches(req), d \in Touches(other), NEW sort \in DOMAIN Sorts,
               req.kind \in Sorts[sort] \/ other.kind \in Sorts[sort]
        PROVE  sort \in raced[d]
    BY <2>1, <2>3 DEF QInv, AllMeetingsAreNoted
  <2>4. DOMAIN Sorts = {"ANY", "STATUS", "UPDATE"} /\ Sorts["ANY"] = AllKinds
        /\ Sorts["STATUS"] = {"VERIFY", "BOUNCE", "CANCEL"} /\ Sorts["UPDATE"] = {"UPDATE"}
    BY DEF Sorts
  <2>5. ReceiptAsRead(other)'
    <3>1. CASE other.doc # req.doc /\ other.doc \in Payments
      <4>1. payment'[other.doc] = payment[other.doc] /\ allocation'[other.doc] = allocation[other.doc]
        BY <3>1
      <4> QED
        BY <1>1, <2>1, <4>1 DEF ReceiptAsRead
    <3>2. CASE other.doc \notin Payments
      BY <2>1, <3>2 DEF ReceiptAsRead, RequestTyped, OnRows
    <3>3. CASE other.doc = req.doc /\ other.doc \in Payments
      <4> DEFINE p == other.doc
      <4>1. p \in Documents /\ p \in Touches(req) /\ p \in Touches(other)
        BY <2>2, <3>3
      <4>2. Unraced(p) => req.kind \notin Sorts["STATUS"] /\ other.kind \notin Sorts["STATUS"]
        BY <2>3, <2>4, <4>1 DEF Unraced
      <4>3. other.kind = "UPDATE" => "UPDATE" \in raced[p]
        BY <2>3, <2>4, <4>1
      <4>4. other.kind \in OnRows /\ other.stage # "LOADED" =>
                payment'[p].unallocated = payment[p].unallocated /\ allocation'[p] = allocation[p]
        <5>1. ASSUME other.kind \in OnRows, other.stage # "LOADED"
              PROVE  LocksPayment(q, p) /\ q \in Others(r)
          BY <2>1, <5>1 DEF LocksPayment, Holding, OnRows, Others, RequestTyped
        <5>2. ASSUME LocksPayment(q, p), q \in Others(r)
              PROVE  ~PaymentFree(r, p) /\ ~LocksPayment(r, p)
          BY <2>1, <3>3, <5>2 DEF PaymentFree, QInv, OneLockHolder
        <5> QED
          BY <3>3, <5>1, <5>2
      <4>5. /\ payment[p].status # "NONE" => payment'[p].status # "NONE"
            /\ payment[p].status \in {"VERIFIED", "BOUNCED"} =>
                   payment'[p].status \in {"VERIFIED", "BOUNCED"}
            /\ payment'[p].status = payment[p].status \/ req.kind \in Sorts["STATUS"]
        BY <3>3
      <4>6. other.kind = "BOUNCE" => ~Unraced(p)
        BY <2>4, <4>2
      <4>7. other.kind = "ALLOCATE" /\ Unraced(p) => payment'[p].status = payment[p].status
        BY <4>2, <4>5
      <4> QED
        BY <1>1, <2>1, <4>3, <4>4, <4>5, <4>6, <4>7 DEF ReceiptAsRead, OnRows
    <3> QED
      BY <3>1, <3>2, <3>3
  <2>6. RowsAsRead(other)'
    <3>1. ASSUME other.kind = "CANCEL", Unraced(other.doc)
          PROVE  Bare(other.doc)'
      <4>1. other.doc \in Invoices /\ Bare(other.doc)
        BY <2>1, <3>1 DEF RequestTyped, RowsAsRead
      <4>2. other.doc \notin Touches(req)
        BY <2>2, <2>3, <2>4, <3>1 DEF Unraced
      <4> QED
        BY <4>1, <4>2 DEF Bare
    <3>2. ASSUME other.kind = "ALLOCATE", other.stage # "LOADED", Unraced(other.invoice)
          PROVE  invoice'[other.invoice].status # "CANCELLED"
      <4>1. other.invoice \in Invoices /\ invoice[other.invoice].status # "CANCELLED"
        BY <2>1, <3>2 DEF RequestTyped, RowsAsRead
      <4>2. other.invoice \in Touches(req) => req.kind \notin Sorts["STATUS"]
        BY <2>2, <2>3, <2>4, <3>2, <4>1 DEF Unraced
      <4> QED
        BY <3>2, <4>1, <4>2
    <3>3. other.kind = "ISSUE_NOTE" => note'[other.doc].status # "NONE" /\ note'[other.doc].invoice = other.invoice
      BY <2>1 DEF RowsAsRead, RequestTyped
    <3>4. ASSUME other.stage = "SUMMED", NEW i \in DOMAIN other.settled, raced[i] = {}
          PROVE  /\ other.settled[i].paid = Applied(OwnView(other), i)'
                 /\ other.settled[i].credited = Credited(OwnNotes(other, i))'
      <4>1. i \in Touches(other) /\ i \in Invoices /\ i \in Documents
        BY <2>2, <3>4
      <4>2. i \notin Touches(req)
        <5>1. other.kind \in AllKinds
          BY <2>1 DEF RequestTyped
        <5> QED
          BY <2>3, <2>4, <3>4, <4>1, <5>1
      <4>3. allocation' \in [Payments -> [Invoices -> Nat]]
        BY DEF RowsTyped
      <4> QED
        BY <2>1, <3>4, <4>1, <4>2, <4>3, OtherSumsStand
    <3> QED
      BY <1>1, <3>1, <3>2, <3>3, <3>4 DEF RowsAsRead
  <2> QED
    BY <2>1, <2>5, <2>6 DEF ReadWell, Fully
<1> QED
  BY <1>3, <1>4, <1>5, <1>6, <1>7 DEF QInv

(***************************************************************************)
(* Requests that commit                                                    *)
(***************************************************************************)

(* What the invariant says of one request.                                 *)
LEMMA RequestStands ==
    ASSUME RInv, QInv, NEW r \in Requests, Busy(r), NEW req, req = request[r]
    PROVE  /\ RequestTyped(req) /\ Fully(req) /\ ReceiptAsRead(req) /\ RowsAsRead(req)
           /\ \A p \in Payments : p \notin Invoices /\ p \notin Notes /\ p \in Documents
           /\ \A i \in Invoices : i \notin Notes /\ i \notin Payments /\ i \in Documents
           /\ \A n \in Notes : n \notin Payments /\ n \notin Invoices /\ n \in Documents
BY ReceivablesAssumption DEF RInv, QInv, ReadWell, Documents

(* One allocation changes what its receipt has spent by as much.           *)
LEMMA SpentChanges ==
    ASSUME NEW p, allocation[p] \in [Invoices -> Nat], allocation'[p] \in [Invoices -> Nat],
           NEW i \in Invoices, \A j \in Invoices \ {i} : allocation'[p][j] = allocation[p][j]
    PROVE  Spent(p)' = Spent(p) - allocation[p][i] + allocation'[p][i]
<1> DEFINE f == allocation[p]
           g == allocation'[p]
<1>1. IsFiniteSet(Invoices) /\ \A j \in Invoices : f[j] \in Int /\ g[j] \in Int
  BY ReceivablesAssumption
<1>2. \A j \in Invoices \ {i} : g[j] = f[j]
  OBVIOUS
<1>3. SumFunctionOnSet(g, Invoices) = SumFunctionOnSet(f, Invoices) - f[i] + g[i]
  <2> HIDE DEF f, g
  <2> QED
    BY <1>1, <1>2, SumUpdate
<1> QED
  BY <1>3 DEF Spent, SumFunction

(* Dropping allocations does not add to what is spent.                     *)
LEMMA SpentShrinks ==
    ASSUME NEW p, allocation[p] \in [Invoices -> Nat], allocation'[p] \in [Invoices -> Nat],
           \A j \in Invoices : allocation'[p][j] <= allocation[p][j]
    PROVE  Spent(p)' <= Spent(p) /\ Spent(p)' \in Nat
<1> DEFINE f == allocation[p]
           g == allocation'[p]
           z == [i \in Invoices |-> 0]
<1>1. IsFiniteSet(Invoices) /\ \A j \in Invoices : f[j] \in Int /\ g[j] \in Int /\ g[j] <= f[j]
                                /\ z[j] \in Int /\ z[j] = 0 /\ z[j] <= g[j]
  BY ReceivablesAssumption
<1>2. DOMAIN g = Invoices /\ DOMAIN f = Invoices
  OBVIOUS
<1>3. /\ SumFunctionOnSet(g, Invoices) <= SumFunctionOnSet(f, Invoices)
      /\ SumFunctionOnSet(g, Invoices) \in Nat
  <2> HIDE DEF f, g, z
  <2>1. SumFunctionOnSet(g, Invoices) <= SumFunctionOnSet(f, Invoices)
    BY <1>1, SumIsMonotone
  <2>2. SumFunctionOnSet(z, Invoices) <= SumFunctionOnSet(g, Invoices)
    BY <1>1, SumIsMonotone
  <2>3. SumFunctionOnSet(z, Invoices) = 0 /\ SumFunctionOnSet(g, Invoices) \in Int
    BY <1>1, SumOfZeros, SumIsInt
  <2> QED
    BY <2>1, <2>2, <2>3
<1> QED
  BY <1>2, <1>3 DEF Spent, SumFunction

(* The columns that a commit overwrites say what the rows will be.         *)
LEMMA WrittenStands ==
    ASSUME RInv, QInv, NEW r \in Requests, Busy(r), NEW req, req = request[r],
           req.stage = "SUMMED", WriteSettlement(req), UNCHANGED raced,
           allocation' \in [Payments -> [Invoices -> Nat]],
           \A i \in Invoices, p \in Payments :
               allocation'[p][i] = IF i \in DOMAIN req.settled THEN OwnView(req)[p][i] ELSE allocation[p][i],
           \A i \in Invoices : IssuedNotes(i)' = IF i \in DOMAIN req.settled THEN OwnNotes(req, i)
                                                                           ELSE IssuedNotes(i),
           \A n \in Notes : note[n].status # "NONE" => Signed(n)' = Signed(n)
    PROVE  /\ invoice' \in [Invoices -> Settlement]
           /\ \A i \in Invoices :
                  /\ InvoiceStands(i)'
                  /\ Unraced(i) /\ invoice'[i].status = "CANCELLED" => invoice[i].status = "CANCELLED"
                  /\ i \notin Touches(req) =>
                         /\ invoice'[i] = invoice[i] /\ IssuedNotes(i)' = IssuedNotes(i)
                         /\ \A p \in Payments : allocation'[p][i] = allocation[p][i]
<1>1. /\ RequestTyped(req) /\ Fully(req) /\ RowsAsRead(req)
      /\ invoice' = [i \in Invoices |->
             IF i \in DOMAIN req.settled THEN req.settled[i] ELSE invoice[i]]
  BY RequestStands DEF WriteSettlement
<1>2. invoice' \in [Invoices -> Settlement]
  BY <1>1 DEF Fully, QInv, RowsTyped
<1>3. ASSUME NEW i \in Invoices
      PROVE  Unraced(i) /\ invoice'[i].status = "CANCELLED" => invoice[i].status = "CANCELLED"
  BY SettlementKeeps
<1>4. ASSUME NEW i \in Invoices, i \notin DOMAIN req.settled
      PROVE  /\ InvoiceStands(i)' /\ invoice'[i] = invoice[i] /\ IssuedNotes(i)' = IssuedNotes(i)
             /\ \A p \in Payments : allocation'[p][i] = allocation[p][i]
  <2>1. /\ invoice'[i] = invoice[i] /\ IssuedNotes(i)' = IssuedNotes(i)
        /\ \A p \in Payments : allocation'[p][i] = allocation[p][i]
    BY <1>1, <1>4
  <2>2. \A n \in IssuedNotes(i) : Signed(n)' = Signed(n)
    BY DEF IssuedNotes
  <2> QED
    BY <2>1, <2>2, OtherColumnsStand
<1>5. ASSUME NEW i \in Invoices, i \in DOMAIN req.settled
      PROVE  InvoiceStands(i)'
  <2>1. invoice'[i] = req.settled[i]
    BY <1>1, <1>5
  <2>2. Applied(allocation, i)' = Applied(OwnView(req), i)
    <3>1. [p \in Payments |-> allocation[p][i]]' = [p \in Payments |-> OwnView(req)[p][i]]
      BY <1>5
    <3> QED
      BY <3>1 DEF Applied
  <2>3. Credited(IssuedNotes(i))' = Credited(OwnNotes(req, i))
    <3>1. \A n \in OwnNotes(req, i) : n \in Notes /\ note[n].status # "NONE"
      BY <1>1 DEF OwnNotes, IssuedNotes, RowsAsRead, RequestTyped
    <3>2. [n \in IssuedNotes(i) |-> Signed(n)]' = [n \in OwnNotes(req, i) |-> Signed(n)]
      BY <1>5, <3>1
    <3> QED
      BY <3>2 DEF Credited
  <2>4. raced[i] = {} => /\ req.settled[i].paid = Applied(OwnView(req), i)
                         /\ req.settled[i].credited = Credited(OwnNotes(req, i))
    BY <1>1, <1>5 DEF RowsAsRead
  <2>5. ASSUME invoice'[i].status = "CANCELLED", Unraced(i)
        PROVE  \A p \in Payments : allocation'[p][i] = 0
    <3>1. invoice[i].status = "CANCELLED" /\ Bare(i)
      BY <1>3, <2>5 DEF QInv, InvoiceStands
    <3>2. req.kind # "ALLOCATE"
      BY <1>1, <1>5, <2>5, <3>1 DEF Fully, RowsAsRead
    <3>3. allocation \in [Payments -> [Invoices -> Nat]]
      BY DEF QInv, RowsTyped
    <3>4. ASSUME NEW p \in Payments, allocation[p][i] = 0 PROVE OwnView(req)[p][i] = 0
      <4>1. CASE req.kind = "REMOVE"
        BY <1>1, <3>3, <3>4, <4>1 DEF OwnView, RequestTyped
      <4>2. CASE req.kind = "BOUNCE"
        BY <1>1, <3>3, <3>4, <4>2 DEF OwnView, RequestTyped, NothingRead
      <4>3. CASE req.kind \notin {"REMOVE", "BOUNCE"}
        BY <3>2, <3>4, <4>3 DEF OwnView
      <4> QED
        BY <4>1, <4>2, <4>3
    <3> QED
      BY <1>5, <3>1, <3>4 DEF Bare
  <2>6. invoice'[i].status = "CANCELLED" /\ Unraced(i)' => Bare(i)'
    BY <2>5 DEF Bare, Unraced
  <2> QED
    BY <2>1, <2>2, <2>3, <2>4, <2>6 DEF InvoiceStands
<1> QED
  BY <1>2, <1>3, <1>4, <1>5 DEF Touches

(* Rows that only a request on a receipt leaves as they are.               *)
LEMMA InvoicesUntouched ==
    ASSUME RInv, QInv, NEW i \in Invoices, UNCHANGED <<raced, note>>, invoice'[i] = invoice[i],
           \A p \in Payments : allocation'[p][i] = allocation[p][i]
    PROVE  /\ InvoiceStands(i)' /\ IssuedNotes(i)' = IssuedNotes(i)
<1>1. IssuedNotes(i)' = IssuedNotes(i)
  BY DEF IssuedNotes
<1>2. \A n \in IssuedNotes(i) : Signed(n)' = Signed(n)
  BY DEF Signed
<1> QED
  BY <1>1, <1>2, OtherColumnsStand

(* Verifying a receipt settles nothing.                                    *)
LEMMA VerifyStands ==
    ASSUME RInv, QInv, NEW r \in Requests, Verify(r)
    PROVE  QInv'
<1>1. PICK req : req = request[r]
  OBVIOUS
<1>2. /\ Busy(r) /\ Done(r) /\ req.kind = "VERIFY" /\ PaymentFree(r, req.doc)
      /\ payment' = [payment EXCEPT ![req.doc] = [payment[req.doc] EXCEPT !.status = "VERIFIED"]]
      /\ entries' = [entries EXCEPT ![req.doc] = @ - req.amount]
      /\ UNCHANGED <<invoice, allocation, note, contras, raced>>
  BY <1>1 DEF Verify, AtCommit, WritePayment
<1>3. PICK p \in Payments : p = req.doc
  BY <1>1, <1>2, RequestStands DEF RequestTyped
<1>4. /\ payment[p] \in Payment /\ payment' \in [Payments -> Payment]
      /\ payment'[p].status = "VERIFIED" /\ payment'[p].value = payment[p].value
      /\ payment'[p].unallocated = payment[p].unallocated
      /\ \A q \in Payments : q # p => payment'[q] = payment[q]
  BY <1>2, <1>3 DEF QInv, RowsTyped, Payment
<1>5. RowsTyped'
  <2>1. ASSUME NEW q \in Payments PROVE -entries'[q] \in Nat
    <3>1. req.amount \in Nat /\ -entries[q] \in Nat /\ entries[q] \in Int
      BY <1>1, <1>2, RequestStands DEF QInv, RowsTyped, Fully, RInv, Rows, Documents
    <3>2. entries'[q] = IF q = p THEN entries[q] - req.amount ELSE entries[q]
      BY <1>2, <1>3 DEF RInv, Rows, Documents
    <3> QED
      BY <3>1, <3>2
  <2> QED
    BY <1>2, <1>4, <2>1 DEF QInv, RowsTyped
<1>6. ReceiptStands(p)'
  <2>1. ReceiptStands(p) /\ Unraced(p)' = Unraced(p) /\ Spent(p)' = Spent(p) /\ Nothing(p)' = Nothing(p)
    BY <1>2 DEF QInv, Unraced, Spent, Nothing
  <2>2. raced[p] = {} => payment[p].status = "RECORDED"
    BY <1>1, <1>2, <1>3, RequestRead DEF PaymentAsRead, Unraced
  <2>3. raced[p] = {} => Spent(p) = 0 /\ payment[p].unallocated = payment[p].value
    BY <2>1, <2>2, SpentOfNothing DEF ReceiptStands, QInv, RowsTyped
  <2>4. payment[p].value \in Int
    BY <1>4, ReceivablesAssumption DEF Payment, Amount
  <2> QED
    BY <1>2, <1>4, <2>1, <2>3, <2>4 DEF ReceiptStands
<1>7. \A i \in Invoices : InvoiceStands(i)' /\ IssuedNotes(i)' = IssuedNotes(i)
  BY <1>2, InvoicesUntouched
<1>8. \A n \in Notes : Signed(n)' = Signed(n)
  BY <1>2 DEF Signed
<1> QED
  BY <1>1, <1>2, <1>3, <1>4, <1>5, <1>6, <1>7, <1>8, EndStands DEF Sorts

(* A receipt is updated while it is only recorded, or the race is noted.   *)
LEMMA UpdateStands ==
    ASSUME RInv, QInv, NEW r \in Requests, Update(r)
    PROVE  QInv'
<1>1. PICK req : req = request[r]
  OBVIOUS
<1>2. /\ Busy(r) /\ Done(r) /\ req.kind = "UPDATE" /\ PaymentFree(r, req.doc)
      /\ payment[req.doc].status = "RECORDED" \/ req.amount = payment[req.doc].value
      /\ payment' = [payment EXCEPT ![req.doc] = [payment[req.doc] EXCEPT !.value = req.amount,
                                                                         !.unallocated = req.amount]]
      /\ UNCHANGED <<invoice, allocation, note, entries, contras, raced>>
  BY <1>1 DEF Update, AtCommit, WritePayment
<1>3. PICK p \in Payments : p = req.doc
  BY <1>1, <1>2, RequestStands DEF RequestTyped
<1>4. Fully(req) /\ ReceiptAsRead(req) /\ req.amount \in Amount /\ req.amount \in Int
  <2>1. Fully(req) /\ ReceiptAsRead(req)
    BY <1>1, <1>2, RequestStands
  <2> QED
    BY <1>2, <2>1, ReceivablesAssumption DEF Fully, Amount
<1>5. /\ payment[p] \in Payment /\ payment' \in [Payments -> Payment]
      /\ payment'[p].status = payment[p].status /\ payment'[p].value = req.amount
      /\ payment'[p].unallocated = req.amount
      /\ \A q \in Payments : q # p => payment'[q] = payment[q]
  BY <1>2, <1>3, <1>4 DEF QInv, RowsTyped, Payment
<1>6. RowsTyped'
  BY <1>2, <1>5 DEF QInv, RowsTyped
<1>7. ReceiptStands(p)'
  <2>1. ReceiptStands(p) /\ Unraced(p)' = Unraced(p) /\ Spent(p)' = Spent(p) /\ Nothing(p)' = Nothing(p)
    BY <1>2 DEF QInv, Unraced, Spent, Nothing
  <2>2. "UPDATE" \notin raced[p] => payment[p].status = "RECORDED"
    BY <1>2, <1>3, <1>4 DEF ReceiptAsRead
  <2>3. "UPDATE" \notin raced[p] => Spent(p) = 0
    BY <2>1, <2>2, SpentOfNothing DEF ReceiptStands, QInv, RowsTyped
  <2> QED
    BY <1>2, <1>4, <1>5, <2>1, <2>2, <2>3 DEF ReceiptStands
<1>8. \A i \in Invoices : InvoiceStands(i)' /\ IssuedNotes(i)' = IssuedNotes(i)
  BY <1>2, InvoicesUntouched
<1>9. \A n \in Notes : Signed(n)' = Signed(n)
  BY <1>2 DEF Signed
<1>10. /\ \A q \in Payments : q # req.doc => payment'[q] = payment[q] /\ allocation'[q] = allocation[q]
       /\ payment'[req.doc].status = payment[req.doc].status
       /\ \A i \in Invoices : /\ invoice'[i] = invoice[i] /\ IssuedNotes(i)' = IssuedNotes(i)
                              /\ \A q \in Payments : allocation'[q][i] = allocation[q][i]
       /\ \A n \in Notes : note'[n] = note[n] /\ Signed(n)' = Signed(n)
  BY <1>2, <1>3, <1>5, <1>8, <1>9
<1>11. req.doc \in Payments /\ PaymentFree(r, req.doc) /\ ReceiptStands(req.doc)'
  BY <1>2, <1>3, <1>7
<1>12. Busy(r) /\ Done(r) /\ UNCHANGED raced /\ req = request[r]
  BY <1>1, <1>2
<1> QED
  BY <1>6, <1>8, <1>10, <1>11, <1>12, EndStands

(* An allocation or its removal moves an amount between what is spent and  *)
(* what is unallocated.                                                    *)
LEMMA AllocationStands ==
    ASSUME RInv, QInv, NEW r \in Requests, Allocate(r) \/ RemoveAllocation(r)
    PROVE  QInv'
<1>1. PICK req : req = request[r]
  OBVIOUS
<1>2. /\ Busy(r) /\ Done(r) /\ req.kind \in OnRows /\ req.stage = "SUMMED"
      /\ WriteSettlement(req) /\ UNCHANGED <<note, entries, contras, raced>>
  BY <1>1 DEF Allocate, RemoveAllocation, AtCommit, OnRows
<1>3. PICK p \in Payments, i \in Invoices : p = req.doc /\ i = req.invoice
  BY <1>1, <1>2, RequestStands DEF RequestTyped, OnRows
<1>4. /\ Fully(req) /\ ReceiptAsRead(req) /\ RowsAsRead(req)
      /\ allocation \in [Payments -> [Invoices -> Nat]] /\ payment[p] \in Payment
      /\ req.available = payment[p].unallocated /\ req.seen = allocation[p]
      /\ payment[p].status \in {"VERIFIED", "BOUNCED"}
      /\ req.amount \in Nat
  <2>1. Fully(req) /\ ReceiptAsRead(req) /\ RowsAsRead(req)
    BY <1>1, <1>2, RequestStands
  <2>2. allocation \in [Payments -> [Invoices -> Nat]] /\ payment[p] \in Payment
    BY DEF QInv, RowsTyped
  <2>3. req.amount \in Nat
    BY <2>1 DEF Fully
  <2> QED
    BY <1>2, <1>3, <2>1, <2>2, <2>3 DEF ReceiptAsRead
<1>5. PICK n \in Nat :
          /\ n = IF req.kind = "ALLOCATE" THEN allocation[p][i] + req.amount ELSE 0
          /\ allocation' = [allocation EXCEPT ![p][i] = n]
          /\ PaymentRowOk([payment[p] EXCEPT !.unallocated = payment[p].unallocated + allocation[p][i] - n])
          /\ payment' = [payment EXCEPT ![p] =
                 [payment[p] EXCEPT !.unallocated = payment[p].unallocated + allocation[p][i] - n]]
  <2>0. allocation[p][i] \in Nat /\ payment[p].unallocated \in Int
    BY <1>4, ReceivablesAssumption DEF Payment, Amount
  <2>1. CASE Allocate(r)
    <3> DEFINE n == allocation[p][i] + req.amount
    <3>1. n \in Nat /\ payment[p].unallocated + allocation[p][i] - n = payment[p].unallocated - req.amount
      BY <1>4, <2>0
    <3>2. /\ req.kind = "ALLOCATE" /\ allocation' = [allocation EXCEPT ![p][i] = n]
          /\ PaymentRowOk([payment[p] EXCEPT !.unallocated = payment[p].unallocated - req.amount])
          /\ payment' = [payment EXCEPT ![p] =
                 [payment[p] EXCEPT !.unallocated = payment[p].unallocated - req.amount]]
      BY <1>1, <1>3, <1>4, <2>1 DEF Allocate, AtCommit, WritePayment
    <3> HIDE DEF n
    <3> QED
      BY <3>1, <3>2 DEF n
  <2>2. CASE RemoveAllocation(r)
    <3>1. payment[p].unallocated + allocation[p][i] - 0 = payment[p].unallocated + allocation[p][i]
      BY <2>0
    <3>2. /\ req.kind = "REMOVE" /\ allocation' = [allocation EXCEPT ![p][i] = 0]
          /\ PaymentRowOk([payment[p] EXCEPT !.unallocated = payment[p].unallocated + allocation[p][i]])
          /\ payment' = [payment EXCEPT ![p] =
                 [payment[p] EXCEPT !.unallocated = payment[p].unallocated + allocation[p][i]]]
      BY <1>1, <1>3, <1>4, <2>2 DEF RemoveAllocation, AtCommit, WritePayment
    <3> QED
      BY <3>1, <3>2
  <2> QED
    BY <2>1, <2>2
<1>6. PICK free : free = payment[p].unallocated + allocation[p][i] - n
  OBVIOUS
<1>7. /\ free \in Amount
      /\ payment' \in [Payments -> Payment]
      /\ payment'[p].status = payment[p].status /\ payment'[p].value = payment[p].value
      /\ payment'[p].unallocated = free
      /\ \A q \in Payments : q # p => payment'[q] = payment[q]
  <2>1. PaymentRowOk([payment[p] EXCEPT !.unallocated = free])
        /\ payment' = [payment EXCEPT ![p] = [payment[p] EXCEPT !.unallocated = free]]
    BY <1>5, <1>6
  <2>2. free \in Int /\ payment[p].value \in Amount
    BY <1>4, <1>5, <1>6, ReceivablesAssumption DEF Payment, Amount
  <2>3. free \in Amount
    BY <1>4, <2>1, <2>2, ReceivablesAssumption DEF PaymentRowOk, Payment, Amount
  <2> QED
    BY <1>4, <2>1, <2>3 DEF QInv, RowsTyped, Payment
<1>8. /\ allocation' \in [Payments -> [Invoices -> Nat]]
      /\ \A q \in Payments : q # p => allocation'[q] = allocation[q]
      /\ allocation'[p][i] = n /\ \A j \in Invoices \ {i} : allocation'[p][j] = allocation[p][j]
  BY <1>4, <1>5
<1>9. DOMAIN req.settled = {i}
  BY <1>2, <1>3, <1>4 DEF Fully, OnRows
<1>10. \A j \in Invoices, q \in Payments :
           allocation'[q][j] = IF j \in DOMAIN req.settled THEN OwnView(req)[q][j] ELSE allocation[q][j]
  <2>1. \A q \in Payments : allocation'[q][i] = OwnView(req)[q][i]
    <3>1. CASE req.kind = "ALLOCATE"
      BY <1>3, <1>4, <1>5, <1>8, <3>1 DEF OwnView
    <3>2. CASE req.kind = "REMOVE"
      BY <1>3, <1>4, <1>5, <1>8, <3>2 DEF OwnView
    <3> QED
      BY <1>2, <3>1, <3>2 DEF OnRows
  <2> QED
    BY <1>8, <1>9, <2>1
<1>11. \A j \in Invoices : IssuedNotes(j)' = IF j \in DOMAIN req.settled THEN OwnNotes(req, j) ELSE IssuedNotes(j)
  BY <1>2 DEF OwnNotes, IssuedNotes, OnRows
<1>12. \A m \in Notes : Signed(m)' = Signed(m)
  BY <1>2 DEF Signed
<1>13. /\ invoice' \in [Invoices -> Settlement]
       /\ \A j \in Invoices :
              /\ InvoiceStands(j)'
              /\ Unraced(j) /\ invoice'[j].status = "CANCELLED" => invoice[j].status = "CANCELLED"
              /\ j \notin Touches(req) =>
                     /\ invoice'[j] = invoice[j] /\ IssuedNotes(j)' = IssuedNotes(j)
                     /\ \A q \in Payments : allocation'[q][j] = allocation[q][j]
  BY <1>1, <1>2, <1>8, <1>10, <1>11, <1>12, WrittenStands
<1>14. RowsTyped'
  BY <1>2, <1>7, <1>8, <1>13 DEF QInv, RowsTyped
<1>15. ReceiptStands(p)'
  <2>1. allocation[p] \in [Invoices -> Nat] /\ allocation'[p] \in [Invoices -> Nat]
    BY <1>4, <1>8
  <2>2. Spent(p)' = Spent(p) - allocation[p][i] + n
    BY <1>8, <2>1, SpentChanges
  <2>3. Spent(p) \in Int /\ allocation[p][i] \in Int /\ payment[p].unallocated \in Int
    BY <1>4, <2>1, SpentIsNat, ReceivablesAssumption DEF Payment, Amount
  <2>4. Spent(p)' + free = Spent(p) + payment[p].unallocated
    BY <1>5, <1>6, <2>2, <2>3
  <2>5. Unraced(p)' = Unraced(p) /\ ReceiptStands(p) /\ raced'[p] = raced[p]
    BY <1>2 DEF QInv, Unraced
  <2>6. payment[p].status = "BOUNCED" /\ Unraced(p) /\ Nothing(p) => Nothing(p)'
    <3>1. payment[p].status = "BOUNCED" /\ Unraced(p) => req.kind = "REMOVE"
      BY <1>2, <1>3, <1>4 DEF ReceiptAsRead, OnRows
    <3> QED
      BY <1>5, <1>8, <3>1 DEF Nothing
  <2> QED
    BY <1>4, <1>7, <2>4, <2>5, <2>6 DEF ReceiptStands
<1>16. LocksPayment(r, p)
  BY <1>1, <1>2, <1>3 DEF LocksPayment, Holding, OnRows
<1> QED
  BY <1>1, <1>2, <1>3, <1>7, <1>8, <1>12, <1>13, <1>14, <1>15, <1>16, EndStands

(* A bounce drops every allocation of its receipt and restores the columns *)
(* of the invoices it paid.                                                *)
LEMMA BounceStands ==
    ASSUME RInv, QInv, NEW r \in Requests, Bounce(r)
    PROVE  QInv'
<1>1. PICK req : req = request[r]
  OBVIOUS
<1>2. /\ Busy(r) /\ Done(r) /\ req.kind = "BOUNCE" /\ req.stage = "SUMMED" /\ PaymentFree(r, req.doc)
      /\ WriteSettlement(req) /\ UNCHANGED <<note, entries, raced>>
      /\ allocation' = [allocation EXCEPT ![req.doc] =
             [i \in Invoices |-> IF req.seen[i] > 0 THEN 0 ELSE allocation[req.doc][i]]]
      /\ payment' = [payment EXCEPT ![req.doc].status = "BOUNCED", ![req.doc].unallocated = 0]
  BY <1>1 DEF Bounce, AtCommit
<1>3. PICK p \in Payments : p = req.doc
  BY <1>1, <1>2, RequestStands DEF RequestTyped
<1>4. /\ Fully(req) /\ ReceiptAsRead(req) /\ RowsAsRead(req)
      /\ allocation \in [Payments -> [Invoices -> Nat]] /\ payment[p] \in Payment
      /\ payment[p].status \in {"VERIFIED", "BOUNCED"}
      /\ Unraced(p) => req.seen = allocation[p]
      /\ DOMAIN req.settled = {i \in Invoices : req.seen[i] > 0}
  <2>1. Fully(req) /\ ReceiptAsRead(req) /\ RowsAsRead(req)
    BY <1>1, <1>2, RequestStands
  <2>2. allocation \in [Payments -> [Invoices -> Nat]] /\ payment[p] \in Payment
    BY DEF QInv, RowsTyped
  <2>3. DOMAIN req.settled = {i \in Invoices : req.seen[i] > 0}
    BY <1>2, <2>1 DEF Fully
  <2> QED
    BY <1>2, <1>3, <2>1, <2>2, <2>3 DEF ReceiptAsRead
<1>5. /\ allocation' \in [Payments -> [Invoices -> Nat]]
      /\ \A q \in Payments : q # p => allocation'[q] = allocation[q]
      /\ \A i \in Invoices : allocation'[p][i] = IF i \in DOMAIN req.settled THEN 0 ELSE allocation[p][i]
  BY <1>2, <1>3, <1>4
<1>6. /\ payment' \in [Payments -> Payment]
      /\ payment'[p].status = "BOUNCED" /\ payment'[p].value = payment[p].value
      /\ payment'[p].unallocated = 0
      /\ \A q \in Payments : q # p => payment'[q] = payment[q]
  <2>1. 0 \in Amount
    BY ReceivablesAssumption DEF Amount
  <2> QED
    BY <1>2, <1>3, <1>4, <2>1 DEF QInv, RowsTyped, Payment
<1>7. \A i \in Invoices, q \in Payments :
          allocation'[q][i] = IF i \in DOMAIN req.settled THEN OwnView(req)[q][i] ELSE allocation[q][i]
  BY <1>2, <1>3, <1>4, <1>5 DEF OwnView, NothingRead
<1>8. \A i \in Invoices : IssuedNotes(i)' = IF i \in DOMAIN req.settled THEN OwnNotes(req, i) ELSE IssuedNotes(i)
  BY <1>2 DEF OwnNotes, IssuedNotes
<1>9. \A m \in Notes : Signed(m)' = Signed(m)
  BY <1>2 DEF Signed
<1>10. /\ invoice' \in [Invoices -> Settlement]
       /\ \A i \in Invoices :
              /\ InvoiceStands(i)'
              /\ Unraced(i) /\ invoice'[i].status = "CANCELLED" => invoice[i].status = "CANCELLED"
              /\ i \notin Touches(req) =>
                     /\ invoice'[i] = invoice[i] /\ IssuedNotes(i)' = IssuedNotes(i)
                     /\ \A q \in Payments : allocation'[q][i] = allocation[q][i]
  <2>1. Busy(r) /\ req = request[r] /\ req.stage = "SUMMED" /\ WriteSettlement(req) /\ UNCHANGED raced
    BY <1>1, <1>2
  <2>2. allocation' \in [Payments -> [Invoices -> Nat]]
    BY <1>5
  <2> QED
    BY <1>7, <1>8, <1>9, <2>1, <2>2, WrittenStands
<1>11. RowsTyped'
  BY <1>2, <1>5, <1>6, <1>10 DEF QInv, RowsTyped
<1>12. ReceiptStands(p)'
  <2>1. allocation[p] \in [Invoices -> Nat] /\ allocation'[p] \in [Invoices -> Nat]
    BY <1>4, <1>5
  <2>2. \A i \in Invoices : allocation'[p][i] <= allocation[p][i]
    BY <1>5, <2>1
  <2>3. Spent(p)' <= Spent(p) /\ Spent(p)' \in Nat
    BY <2>1, <2>2, SpentShrinks
  <2>4. Spent(p) \in Nat /\ payment[p].unallocated \in Nat /\ payment[p].value \in Nat
    BY <1>4, <2>1, SpentIsNat, ReceivablesAssumption DEF Payment, Amount
  <2>5. Unraced(p)' = Unraced(p) /\ ReceiptStands(p) /\ raced'[p] = raced[p]
    BY <1>2 DEF QInv, Unraced
  <2>6. Unraced(p) => Nothing(p)'
    BY <1>4, <1>5 DEF Nothing
  <2> QED
    BY <1>6, <2>3, <2>4, <2>5, <2>6 DEF ReceiptStands
<1> QED
  <2>1. ASSUME NEW q \in Payments, q # req.doc
        PROVE  payment'[q] = payment[q] /\ allocation'[q] = allocation[q]
    BY <1>3, <1>5, <1>6, <2>1
  <2>2. ASSUME NEW q \in Payments, q = req.doc
        PROVE  /\ ReceiptStands(q)'
               /\ payment[q].status # "NONE" => payment'[q].status # "NONE"
               /\ payment[q].status \in {"VERIFIED", "BOUNCED"} =>
                      payment'[q].status \in {"VERIFIED", "BOUNCED"}
               /\ payment'[q].status = payment[q].status \/ req.kind \in Sorts["STATUS"]
               /\ \/ payment'[q].unallocated = payment[q].unallocated /\ allocation'[q] = allocation[q]
                  \/ PaymentFree(r, q) \/ LocksPayment(r, q)
    <3>1. q = p
      BY <1>3, <2>2
    <3>2. req.kind \in Sorts["STATUS"]
      BY <1>2 DEF Sorts
    <3>3. payment'[q].status = "BOUNCED"
      BY <1>6, <3>1
    <3>4. ReceiptStands(q)' /\ PaymentFree(r, q)
      BY <1>2, <1>3, <1>12, <3>1
    <3> QED
      BY <3>2, <3>3, <3>4
  <2>3. ASSUME NEW i \in Invoices, i \notin Touches(req)
        PROVE  /\ invoice'[i] = invoice[i] /\ IssuedNotes(i)' = IssuedNotes(i)
               /\ \A q \in Payments : allocation'[q][i] = allocation[q][i]
    BY <1>10, <2>3
  <2>4. ASSUME NEW i \in Invoices, i \in Touches(req)
        PROVE  /\ InvoiceStands(i)'
               /\ Unraced(i) /\ invoice'[i].status = "CANCELLED" =>
                      invoice[i].status = "CANCELLED" \/ req.kind \in Sorts["STATUS"]
    BY <1>10
  <2>5. ASSUME NEW n \in Notes, note[n].status # "NONE"
        PROVE  /\ note'[n].status # "NONE" /\ note'[n].invoice = note[n].invoice
               /\ Signed(n)' = Signed(n)
    BY <1>2, <1>9, <2>5
  <2>6. Busy(r) /\ Done(r) /\ UNCHANGED raced /\ req = request[r]
    BY <1>1, <1>2
  <2> QED
    BY <1>11, <2>1, <2>2, <2>3, <2>4, <2>5, <2>6, EndStands

(* Issuing or cancelling an invoice moves no allocation.                   *)
LEMMA IssueStands ==
    ASSUME RInv, QInv, NEW r \in Requests, Issue(r) \/ Cancel(r)
    PROVE  QInv'
<1>1. PICK req : req = request[r]
  OBVIOUS
<1>2. PICK status \in {"ISSUED", "CANCELLED"} :
      /\ Busy(r) /\ Done(r) /\ req.kind \in {"ISSUE", "CANCEL"}
      /\ status = "CANCELLED" => req.kind = "CANCEL"
      /\ invoice' = [invoice EXCEPT ![req.doc].status = status]
      /\ \A d \in Documents : d # req.doc => entries'[d] = entries[d]
      /\ UNCHANGED <<payment, allocation, note, contras, raced>>
  <2>1. CASE Issue(r)
    BY <1>1, <2>1 DEF Issue, AtCommit, RInv, Rows
  <2>2. CASE Cancel(r)
    BY <1>1, <2>2 DEF Cancel, AtCommit, RInv, Rows
  <2> QED
    BY <2>1, <2>2
<1>3. PICK i \in Invoices : i = req.doc
  BY <1>1, <1>2, RequestStands DEF RequestTyped
<1>4. /\ Fully(req) /\ RowsAsRead(req)
      /\ \A p \in Payments : p # i /\ p \in Documents
  BY <1>1, <1>2, RequestStands
<1>5. /\ invoice' \in [Invoices -> Settlement]
      /\ invoice'[i].status = status /\ invoice'[i].paid = invoice[i].paid
      /\ invoice'[i].credited = invoice[i].credited
      /\ \A j \in Invoices : j # i => invoice'[j] = invoice[j]
  BY <1>2, <1>3 DEF QInv, RowsTyped, Settlement, InvoiceStatuses
<1>6. RowsTyped'
  <2>1. \A p \in Payments : entries'[p] = entries[p]
    BY <1>2, <1>3, <1>4 DEF RInv, Rows
  <2> QED
    BY <1>2, <1>5, <2>1 DEF QInv, RowsTyped
<1>7. InvoiceStands(i)'
  <2>1. Applied(allocation, i)' = Applied(allocation, i) /\ Bare(i)' = Bare(i) /\ Unraced(i)' = Unraced(i)
    BY <1>2 DEF Applied, Bare, Unraced
  <2>2. IssuedNotes(i)' = IssuedNotes(i)
    BY <1>2 DEF IssuedNotes
  <2>3. Credited(IssuedNotes(i))' = Credited(IssuedNotes(i))
    BY <1>2, <2>2 DEF Credited, Signed
  <2>4. status = "CANCELLED" /\ Unraced(i) => Bare(i)
    BY <1>2, <1>3, <1>4 DEF RowsAsRead
  <2> QED
    BY <1>2, <1>5, <2>1, <2>3, <2>4 DEF QInv, InvoiceStands
<1>8. \A j \in Invoices : j # i => InvoiceStands(j)' /\ IssuedNotes(j)' = IssuedNotes(j)
  BY <1>2, <1>5, InvoicesUntouched
<1>9. \A m \in Notes : Signed(m)' = Signed(m)
  BY <1>2 DEF Signed
<1>10. i \in Touches(req)
  BY <1>3 DEF Touches
<1>11. \A j \in Invoices : invoice'[j].status = "CANCELLED" =>
           invoice[j].status = "CANCELLED" \/ req.kind \in Sorts["STATUS"]
  BY <1>2, <1>5 DEF Sorts
<1>12. \A j \in Invoices : InvoiceStands(j)'
  BY <1>7, <1>8
<1> QED
  BY <1>1, <1>2, <1>3, <1>4, <1>5, <1>6, <1>8, <1>9, <1>10, <1>11, <1>12, EndStands

(* An issued note counts for its invoice from then on.                     *)
LEMMA IssueNoteStands ==
    ASSUME RInv, QInv, NEW r \in Requests, IssueNote(r)
    PROVE  QInv'
<1>1. PICK req : req = request[r]
  OBVIOUS
<1>2. /\ Busy(r) /\ Done(r) /\ req.kind = "ISSUE_NOTE" /\ req.stage = "SUMMED"
      /\ note[req.doc].status = "DRAFT"
      /\ note' = [note EXCEPT ![req.doc].status = "ISSUED"]
      /\ entries' = [entries EXCEPT ![req.doc] = @ - Signed(req.doc)]
      /\ WriteSettlement(req)
      /\ UNCHANGED <<payment, allocation, contras, raced>>
  BY <1>1 DEF IssueNote, AtCommit
<1>3. PICK n \in Notes : n = req.doc
  BY <1>1, <1>2, RequestStands DEF RequestTyped
<1>4. /\ Fully(req) /\ RowsAsRead(req)
      /\ \A p \in Payments : p # n /\ p \in Documents
      /\ req.invoice \in Invoices
      /\ note \in [Notes -> Note]
  BY <1>1, <1>2, RequestStands DEF RequestTyped, RInv, Rows
<1>5. DOMAIN req.settled = {req.invoice} /\ note[n].invoice = req.invoice
  BY <1>2, <1>3, <1>4 DEF Fully, RowsAsRead
<1>6. /\ \A m \in Notes : /\ note'[m].invoice = note[m].invoice /\ note'[m].type = note[m].type
                          /\ note'[m].total = note[m].total
                          /\ m # n => note'[m].status = note[m].status
      /\ note'[n].status = "ISSUED"
  BY <1>2, <1>3, <1>4 DEF Note
<1>7. \A m \in Notes : Signed(m)' = Signed(m)
  BY <1>6 DEF Signed
<1>8. \A i \in Invoices : IssuedNotes(i)' = IF i \in DOMAIN req.settled THEN OwnNotes(req, i) ELSE IssuedNotes(i)
  BY <1>2, <1>3, <1>5, <1>6 DEF OwnNotes, IssuedNotes
<1>9. \A i \in Invoices, p \in Payments :
          allocation'[p][i] = IF i \in DOMAIN req.settled THEN OwnView(req)[p][i] ELSE allocation[p][i]
  BY <1>2 DEF OwnView
<1>10. allocation' \in [Payments -> [Invoices -> Nat]]
  BY <1>2 DEF QInv, RowsTyped
<1>11. /\ invoice' \in [Invoices -> Settlement]
       /\ \A i \in Invoices :
              /\ InvoiceStands(i)'
              /\ Unraced(i) /\ invoice'[i].status = "CANCELLED" => invoice[i].status = "CANCELLED"
              /\ i \notin Touches(req) =>
                     /\ invoice'[i] = invoice[i] /\ IssuedNotes(i)' = IssuedNotes(i)
                     /\ \A p \in Payments : allocation'[p][i] = allocation[p][i]
  BY <1>1, <1>2, <1>7, <1>8, <1>9, <1>10, WrittenStands
<1>12. RowsTyped'
  <2>1. \A p \in Payments : entries'[p] = entries[p]
    BY <1>2, <1>3, <1>4 DEF RInv, Rows
  <2> QED
    BY <1>2, <1>10, <1>11, <2>1 DEF QInv, RowsTyped
<1>13. \A m \in Notes : note[m].status # "NONE" => note'[m].status # "NONE"
  BY <1>6
<1> QED
  BY <1>1, <1>2, <1>3, <1>4, <1>6, <1>7, <1>11, <1>12, <1>13, EndStands

(* A request that fails writes nothing.                                    *)
LEMMA GiveUpStands ==
    ASSUME RInv, QInv, NEW r \in Requests, GiveUp(r)
    PROVE  QInv'
<1>1. Busy(r) /\ Done(r) /\ UNCHANGED <<invoice, payment, allocation, note, entries, contras, raced>>
  BY DEF GiveUp
<1>2. RowsTyped'
  BY <1>1 DEF QInv, RowsTyped
<1>3. \A i \in Invoices : InvoiceStands(i)' /\ IssuedNotes(i)' = IssuedNotes(i)
  BY <1>1, InvoicesUntouched
<1>4. \A n \in Notes : Signed(n)' = Signed(n)
  BY <1>1 DEF Signed
<1>5. \A p \in Payments : ReceiptStands(p)'
  BY <1>1 DEF QInv, ReceiptStands, Nothing, Spent, Unraced
<1> QED
  BY <1>1, <1>2, <1>3, <1>4, <1>5, EndStands

(***************************************************************************)
(* Documents that appear                                                   *)
(***************************************************************************)
(* Nobody is at work on a receipt that appears, or on a note that has not  *)
(* been drafted; a draft's type and total are set when it appears.         *)
LEMMA AppearingStands ==
    ASSUME RInv, QInv, UNCHANGED <<invoice, allocation, entries, contras, request, raced>>,
           RowsTyped',
           \A p \in Payments : ReceiptStands(p)',
           \A p \in Payments : payment[p].status # "NONE" => payment'[p] = payment[p],
           \A i \in Invoices : IssuedNotes(i)' = IssuedNotes(i),
           \A n \in Notes : note[n].status # "NONE" =>
               /\ note'[n].status # "NONE" /\ note'[n].invoice = note[n].invoice
               /\ Signed(n)' = Signed(n)
    PROVE  QInv'
<1>1. AllMeetingsAreNoted' /\ OneLockHolder'
  BY DEF QInv, AllMeetingsAreNoted, OneLockHolder, LocksPayment, Holding, Busy, Touches
<1>2. ASSUME NEW i \in Invoices PROVE InvoiceStands(i)'
  <2>1. \A n \in IssuedNotes(i) : Signed(n)' = Signed(n)
    BY DEF IssuedNotes
  <2> QED
    BY <2>1, OtherColumnsStand
<1>3. ASSUME NEW q \in Requests, Busy(q)', NEW req, req = request'[q]
      PROVE  ReadWell(req)'
  <2>1. /\ Busy(q) /\ req = request[q]
        /\ RequestTyped(req) /\ Fully(req) /\ ReceiptAsRead(req) /\ RowsAsRead(req)
    BY <1>3 DEF RInv, QInv, ReadWell, Busy
  <2>2. \A d : Unraced(d)' = Unraced(d)
    BY DEF Unraced
  <2>3. ReceiptAsRead(req)'
    <3>1. CASE req.kind \in OnReceipts
      <4>1. req.doc \in Payments
        BY <2>1, <3>1 DEF RequestTyped, OnReceipts
      <4>2. payment[req.doc].status # "NONE" \/ (req.kind = "UPDATE" /\ "UPDATE" \in raced[req.doc])
        BY <2>1, <3>1 DEF ReceiptAsRead, OnReceipts
      <4>3. payment[req.doc].status # "NONE"
        BY <2>1, <3>1, <4>2 DEF ReceiptAsRead, OnReceipts
      <4>4. payment'[req.doc] = payment[req.doc]
        BY <4>1, <4>3
      <4> QED
        BY <2>1, <2>2, <4>4 DEF ReceiptAsRead
    <3>2. CASE req.kind \notin OnReceipts
      BY <3>2 DEF ReceiptAsRead, OnReceipts, OnRows
    <3> QED
      BY <3>1, <3>2
  <2>4. RowsAsRead(req)'
    <3>1. /\ req.kind = "CANCEL" /\ Unraced(req.doc) => Bare(req.doc)'
          /\ req.kind = "ALLOCATE" /\ req.stage # "LOADED" /\ Unraced(req.invoice) =>
                 invoice'[req.invoice].status # "CANCELLED"
          /\ req.kind = "ISSUE_NOTE" => note'[req.doc].status # "NONE" /\ note'[req.doc].invoice = req.invoice
      BY <2>1 DEF RowsAsRead, Bare, RequestTyped
    <3>2. ASSUME req.stage = "SUMMED", NEW i \in DOMAIN req.settled, raced[i] = {}
          PROVE  /\ req.settled[i].paid = Applied(OwnView(req), i)'
                 /\ req.settled[i].credited = Credited(OwnNotes(req, i))'
      <4>1. i \in Invoices
        BY <2>1, <3>2 DEF RequestTyped
      <4>2. allocation' \in [Payments -> [Invoices -> Nat]]
        BY DEF RowsTyped
      <4> QED
        BY <2>1, <3>2, <4>1, <4>2, OtherSumsStand
    <3> QED
      BY <2>2, <3>1, <3>2 DEF RowsAsRead
  <2> QED
    BY <2>1, <2>3, <2>4 DEF ReadWell, Fully
<1> QED
  BY <1>1, <1>2, <1>3 DEF QInv

(* A receipt appears unallocated.                                          *)
LEMMA RecordPaymentStands ==
    ASSUME RInv, QInv, NEW p \in Payments, NEW value \in Amount, RecordPayment(p, value)
    PROVE  QInv'
<1>1. /\ payment[p].status = "NONE"
      /\ payment' = [payment EXCEPT ![p] = [status |-> "RECORDED", value |-> value, unallocated |-> value]]
      /\ UNCHANGED <<invoice, allocation, note, entries, contras, request, raced>>
  BY DEF RecordPayment
<1>2. RowsTyped'
  BY <1>1 DEF QInv, RowsTyped, Payment
<1>3. ASSUME NEW q \in Payments PROVE ReceiptStands(q)'
  <2>1. /\ Nothing(q)' = Nothing(q) /\ Spent(q)' = Spent(q) /\ Unraced(q)' = Unraced(q)
        /\ ReceiptStands(q)
    BY <1>1 DEF Nothing, Spent, Unraced, QInv
  <2>2. CASE q # p
    <3>1. payment'[q] = payment[q]
      BY <1>1, <2>2 DEF QInv, RowsTyped
    <3> QED
      BY <1>1, <2>1, <3>1 DEF ReceiptStands
  <2>3. CASE q = p
    <3>1. Spent(p) = 0 /\ Nothing(p)
      BY <1>1, <2>1, <2>3, SpentOfNothing DEF ReceiptStands, QInv, RowsTyped
    <3>2. payment'[p] = [status |-> "RECORDED", value |-> value, unallocated |-> value] /\ value \in Int
      BY <1>1, ReceivablesAssumption DEF QInv, RowsTyped, Amount
    <3> QED
      BY <1>1, <2>1, <2>3, <3>1, <3>2 DEF ReceiptStands
  <2> QED
    BY <2>2, <2>3
<1>4. \A q \in Payments : payment[q].status # "NONE" => payment'[q] = payment[q]
  BY <1>1 DEF QInv, RowsTyped
<1>5. /\ \A i \in Invoices : IssuedNotes(i)' = IssuedNotes(i)
      /\ \A n \in Notes : Signed(n)' = Signed(n)
  BY <1>1 DEF IssuedNotes, Signed
<1> QED
  BY <1>1, <1>2, <1>3, <1>4, <1>5, AppearingStands

(* Drafts of notes count for nothing.                                      *)
LEMMA NotesStand ==
    ASSUME RInv, QInv,
           \/ \E n \in Notes, type \in {"CREDIT", "DEBIT"}, i \in Invoices, total \in NoteTotals :
                  DraftNote(n, type, i, total)
           \/ \E n \in Notes : RemoveDraftNote(n)
    PROVE  QInv'
<1>1. UNCHANGED <<invoice, payment, allocation, entries, contras, request, raced>>
  BY DEF DraftNote, RemoveDraftNote
<1>2. /\ \A i \in Invoices : IssuedNotes(i)' = IssuedNotes(i)
      /\ \A n \in Notes : note[n].status # "NONE" =>
             /\ note'[n].status # "NONE" /\ note'[n].invoice = note[n].invoice
             /\ Signed(n)' = Signed(n)
  <2>1. note \in [Notes -> Note]
    BY DEF RInv, Rows
  <2>2. ASSUME NEW n \in Notes, NEW type \in {"CREDIT", "DEBIT"}, NEW i \in Invoices, NEW total \in NoteTotals,
               DraftNote(n, type, i, total)
        PROVE  <1>2!1 /\ <1>2!2
    <3>1. /\ note[n].status = "NONE" /\ note'[n].status = "DRAFT"
          /\ \A m \in Notes : m # n => note'[m] = note[m]
      BY <2>1, <2>2 DEF DraftNote
    <3> QED
      BY <3>1 DEF IssuedNotes, Signed
  <2>3. ASSUME NEW n \in Notes, RemoveDraftNote(n)
        PROVE  <1>2!1 /\ <1>2!2
    <3>1. /\ note[n].status = "DRAFT" /\ note'[n].status = "REMOVED"
          /\ \A m \in Notes : /\ note'[m].invoice = note[m].invoice /\ note'[m].type = note[m].type
                              /\ note'[m].total = note[m].total
                              /\ m # n => note'[m].status = note[m].status
      BY <2>1, <2>3 DEF RemoveDraftNote, Note
    <3> QED
      BY <3>1 DEF IssuedNotes, Signed
  <2> QED
    BY <2>2, <2>3
<1>3. \A p \in Payments : ReceiptStands(p)'
  BY <1>1 DEF QInv, ReceiptStands, Nothing, Spent, Unraced
<1>4. RowsTyped'
  BY <1>1 DEF QInv, RowsTyped
<1> QED
  BY <1>1, <1>2, <1>3, <1>4, AppearingStands

(* Every step keeps the second invariant.                                  *)
LEMMA QInvInductive == RInv /\ QInv /\ [Next]_vars => QInv'
<1> SUFFICES ASSUME RInv, QInv, [Next]_vars PROVE QInv'
  OBVIOUS
<1>0. RInv'
  BY RInvInductive
<1>1. CASE \E p \in Payments, value \in Amount : RecordPayment(p, value)
  BY <1>1, RecordPaymentStands
<1>2. CASE \/ \E n \in Notes, type \in {"CREDIT", "DEBIT"}, i \in Invoices, total \in NoteTotals :
                  DraftNote(n, type, i, total)
           \/ \E n \in Notes : RemoveDraftNote(n)
  BY <1>2, NotesStand
<1>3. ASSUME NEW r \in Requests, LoadSome(r) \/ Lock(r) \/ Sum(r) \/ CommitSome(r) \/ GiveUp(r)
      PROVE  QInv'
  <2>1. CASE CommitSome(r)
    BY <2>1, VerifyStands, UpdateStands, AllocationStands, BounceStands, IssueStands,
       IssueNoteStands DEF CommitSome
  <2> QED
    BY <1>0, <1>3, <2>1, LoadStands, LockStands, SumStands, GiveUpStands
<1>4. CASE UNCHANGED vars
  <2>1. /\ UNCHANGED <<invoice, allocation, entries, contras, request, raced>>
        /\ UNCHANGED <<payment, note>>
    BY <1>4 DEF vars
  <2>2. /\ \A i \in Invoices : IssuedNotes(i)' = IssuedNotes(i)
        /\ \A n \in Notes : Signed(n)' = Signed(n)
    BY <2>1 DEF IssuedNotes, Signed
  <2>3. \A p \in Payments : ReceiptStands(p)'
    BY <2>1 DEF QInv, ReceiptStands, Nothing, Spent, Unraced
  <2>4. RowsTyped'
    BY <2>1 DEF QInv, RowsTyped
  <2> QED
    BY <2>1, <2>2, <2>3, <2>4, AppearingStands
<1> QED
  BY <1>1, <1>2, <1>3, <1>4 DEF Next

(* Both invariants hold always.                                            *)
LEMMA StandingHolds == Spec => [](RInv /\ QInv)
<1>1. Init => RInv /\ QInv
  BY InitiallyPosted, InitiallyStanding
<1>2. RInv /\ QInv /\ [Next]_vars => RInv' /\ QInv'
  BY RInvInductive, QInvInductive
<1> QED
  BY <1>1, <1>2, PTL DEF Spec

THEOREM SettlementTheorem == Spec => []SettlementFollowsRows
<1>1. RInv /\ QInv => SettlementFollowsRows
  BY PropertiesFollow
<1> QED
  BY <1>1, StandingHolds, PTL

THEOREM ReceiptsTheorem == Spec => []ReceiptsAddUp
<1>1. RInv /\ QInv => ReceiptsAddUp
  BY PropertiesFollow
<1> QED
  BY <1>1, StandingHolds, PTL
===============================================================================
