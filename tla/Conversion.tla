----------------------------- MODULE Conversion -----------------------------
(***************************************************************************)
(* POST /orders/from-quotation: OrdersService.createFromQuotation behind   *)
(* the interceptor of Idempotency, on the quotation of Quotations.  It     *)
(* creates the order in one transaction and marks the quotation CONVERTED  *)
(* in a second one; a failure or a crash may fall between the two.         *)
(***************************************************************************)
EXTENDS Quotations, Idempotency, Sequences

CONSTANTS MaxOrders,  \* bound: orders ever created
          NoWork      \* a call whose handler has not loaded anything

ASSUME ConversionAssumption == MaxOrders \in Nat /\ Answers = 1..MaxOrders

VARIABLES orders,    \* the orders created, each with its quotation and key
          work,      \* what each call's handler has read and done
          halfway    \* history: an order was created and its second transaction failed

vars == <<quoteVars, keyVars, orders, work, halfway>>

Order == [revision : Revisions, key : Keys]
Work  == [revision : Revisions, order : 0..MaxOrders]

ASSUME NoWorkAssumption == NoWork \notin Work

Init ==
    /\ QuoteInit
    /\ KeyInit
    /\ orders = <<>>
    /\ work = [p \in Calls |-> NoWork]
    /\ halfway = FALSE

Converting(rev) == \E p \in Calls : work[p] # NoWork /\ work[p].revision = rev

Touch(rev) == raced' = (raced \/ InFlight(rev) \/ Converting(rev))

(* An operation of QuotationsService.                                      *)
QuotationStep(u) ==
    /\ \/ \E kind \in Operations, rev \in Revisions :
              LoadQuotation(u, kind, rev) /\ Touch(rev)
       \/ QuoteCommit(u)
    /\ UNCHANGED <<keyVars, orders, work, halfway>>

(* The quotation is read, and must be ACCEPTED.                            *)
LoadAccepted(p, rev) ==
    /\ At(p, "RUN")
    /\ work[p] = NoWork
    /\ quotation[rev].status = "ACCEPTED"
    /\ work' = [work EXCEPT ![p] = [revision |-> rev, order |-> 0]]
    /\ Touch(rev)
    /\ UNCHANGED <<quotation, request, keyVars, orders, halfway>>

(* create(): the first transaction.                                        *)
CreateOrder(p) ==
    /\ At(p, "RUN")
    /\ work[p] # NoWork
    /\ work[p].order = 0
    /\ Len(orders) < MaxOrders
    /\ orders' = Append(orders, [revision |-> work[p].revision, key |-> call[p].key])
    /\ work' = [work EXCEPT ![p].order = Len(orders) + 1]
    /\ UNCHANGED <<quoteVars, keyVars, halfway>>

Converted(rev) == [quotation EXCEPT ![rev].status = "CONVERTED"]

(* The second transaction, and the answer.                                 *)
MarkConverted(p) ==
    /\ work[p] # NoWork
    /\ work[p].order # 0
    /\ quotation' = Converted(work[p].revision)
    /\ Finish(p, work[p].order)
    /\ work' = [work EXCEPT ![p] = NoWork]
    /\ UNCHANGED <<request, raced, orders, halfway>>

Abandoned(p) ==
    /\ work' = [work EXCEPT ![p] = NoWork]
    /\ halfway' = (halfway \/ (work[p] # NoWork /\ work[p].order # 0))
    /\ UNCHANGED <<quoteVars, orders>>

(* The handler refuses or fails, before or between its transactions, or    *)
(* the process dies.                                                       *)
HandlerThrows(p) == Throw(p) /\ Abandoned(p)
ProcessDies(p)   == Lose(p) /\ Abandoned(p)

InterceptorStep ==
    /\ \/ \E p \in Calls, k \in Keys, body \in Bodies : Arrive(p, k, body)
       \/ \E p \in Calls : Intercept(p)
       \/ \E k \in Keys : Expire(k) \/ Purge(k)
    /\ UNCHANGED <<quoteVars, orders, work, halfway>>

HandlerStep(p) ==
    \/ \E rev \in Revisions : LoadAccepted(p, rev)
    \/ CreateOrder(p)
    \/ MarkConverted(p)
    \/ HandlerThrows(p)
    \/ ProcessDies(p)

Next ==
    \/ \E u \in Users : QuotationStep(u)
    \/ InterceptorStep
    \/ \E p \in Calls : HandlerStep(p)

Spec == Init /\ [][Next]_vars

(***************************************************************************)
(* Properties                                                              *)
(***************************************************************************)
TypeOK ==
    /\ QuoteTypeOK
    /\ KeyTypeOK
    /\ orders \in Seq(Order) /\ Len(orders) <= MaxOrders
    /\ work \in [Calls -> Work \cup {NoWork}]
    /\ halfway \in BOOLEAN

OneOrderPerQuotation ==
    /\ Len(orders) <= 1
    /\ \A i \in 1..Len(orders) :
           \/ quotation[orders[i].revision].status = "CONVERTED"
           \/ Converting(orders[i].revision)

(* What the life of a quotation promises, without an overlap: one revision *)
(* of it is alive, and the customer was sent what it says; no quotation,   *)
(* in all its revisions, becomes two orders, and an order's quotation is   *)
(* CONVERTED unless its conversion is still at work, whatever keys and     *)
(* retries do - unless a conversion broke off half-way.  Whatever          *)
(* overlaps, every variable holds a value of its kind.                     *)
QuotationHolds ==
    /\ TypeOK
    /\ raced \/ (OneLiveRevision /\ CustomerHoldsTheRow)
    /\ raced \/ halfway \/ OneOrderPerQuotation

(* The endpoint is the interceptor around this handler: what Idempotency   *)
(* promises of any handler, it promises of the conversion.                 *)
Interceptor == INSTANCE Idempotency WITH
    keyRow <- keyRow, lastId <- lastId, call <- call,
    lapsed <- lapsed, finished <- finished, replayed <- replayed

ImplementsInterceptor == Interceptor!KeySpec
=============================================================================
