# Formal models of the Hixaa distributor management system

TLA+ models of the server side of this repository (`apps/api`), checked by TLC
on small instances and, where TLAPS can reach, proved for every value of the
constants. Paths below are relative to the repository, and to
`apps/api/src/modules` where no directory is named.

## 1. The system

A NestJS API and a BullMQ worker (the same code, started with
`WORKER_ENABLED`) share one PostgreSQL database through Prisma. The portal
(`apps/web`) only calls the API; `packages/contracts` holds the enums with
their transition tables and the Zod schemas.

Two facts decide what can go wrong:

* Every business transaction is `PrismaService.transaction`
  (`infrastructure/database/prisma.service.ts:84`). No isolation level is
  given, so it runs at READ COMMITTED: what a transaction read is still true
  at its commit only if it holds a lock on it.
* Services typically **load and check before** the transaction, on the ordinary
  connection, and then update **by id alone** inside it. Where a row lock, a
  conditional `updateMany`, a unique index or a trigger stands behind the check,
  the check is backed; elsewhere two requests can both pass it.

### Components

| Component | State | Operations | Hard behaviour |
|---|---|---|---|
| Stock ledger (`inventory/stock-ledger.service.ts`) | `stock_balance`, append-only `stock_ledger_entry` | `move`, `adjustReserved`, `reserveUpTo` | row locks, deadlock, rollback of part-done work |
| Reservations (`inventory/reservations.service.ts`) | `stock_reservation` | `reserve`, `release`, `consume`, `consumeQuantity`, `expire`, hourly sweep | reservation row read outside the lock |
| Stock operations, transfers (`inventory/stock.service.ts`) | `stock_transfer` and its lines | receive, issue, adjust, opening, two-phase transfer | status checked outside the transaction; cost carried with the goods |
| Serials, costing, reconciliation (`inventory/`) | `serial_number`; pure; read-only | `recordDispatched`; `nextAverageCost`; drift report | rounding, accumulated |
| Orders, approval, credit (`sales/`) | `order`, lines with reserved / backordered / dispatched, approvals | create, update, submit, approve, reject, cancel, reserve outstanding | many checks outside, stock inside; exposure is a sum |
| Shipments (`sales/shipments.service.ts`) | `shipment`, lines | create, pack, dispatch, deliver | double dispatch, lost update of `quantityDispatched` |
| Quotations (`sales/quotations.service.ts`) | `quotation` | edit, send, accept, reject, revise, convert | conversion in two transactions |
| Idempotency (`common/interceptors/idempotency.interceptor.ts`) | `idempotency_key` | claim, remember, release, reclaim, purge | crash between commit and remember |
| Invoices (`finance/invoices.service.ts`) | `invoice`, lines, statutory number | draft, update, issue, cancel, settle | immutability triggers, settlement totals, two-transaction update |
| Number sequences (`distributors/number-sequence.service.ts`) | `number_sequence` | `next` | gapless counter under FOR UPDATE |
| Payments (`finance/payments.service.ts`) | `payment`, `payment_allocation` | record, update, verify, allocate, remove, bounce | status checked outside, invoice not locked |
| Tax notes (`finance/tax-notes.service.ts`) | `tax_note` | draft, issue, remove | limit checked at draft only |
| Party ledger (`finance/ledger.service.ts`) | append-only `ledger_entry` | post, contra, write-off, opening balance | double posting, balance read outside |
| Pricing, GST (`pricing/`, `catalog/`) | price lists, rules, tax rates | engine, conversion, billing of parts | rounding, what is re-priced when |
| Outbox (`infrastructure/outbox`) | `outbox_event` | emit, claim, dispatch, mark, recover | at-least-once, stuck claims, DEAD events |
| Consumers (`jobs/*.processor.ts`, `infrastructure/mail`) | `email_log`, `notification` | send, retry | retry after partial success |
| Sessions, lockout (`auth/`) | `session`, `user.failed_login_attempts` | sign-in, rotate, revoke, lock | rotation races revocation |
| Links (`auth/`, `users/`) | reset and verification tokens, the account's status | ask, redeem, verify, accept, suspend, purge | checked outside, used up by id; open links closed by a scan |
| Distributors, KYC (`distributors/`) | `distributor`, documents, contacts | onboarding life cycle, evidence | status checked outside, gate on evidence |
| Backup, Sheets (`backup/`, `infrastructure/sheets`) | `sync_job`, token bucket | export, restore, throttle | I/O, rate limits |
| Territories, categories (`territories/`, `catalog/`) | rows with parent and path | create, move, remove | subtree rewritten from readings nobody locks |
| Users, roles, access (`users/`, `roles/`, `auth/`) | roles, assignments, cached access | assign, suspend, edit, invalidate, look up | cache stored after invalidation, two changes merged |
| Products, kits (`catalog/products.service.ts`, `product-relations.service.ts`) | `product`, `product_revision`, bill of materials | edit, change of status, remove, add a component, explode | revisions cut from what was loaded; cycle check outside |
| GST returns (`finance/gst-returns.service.ts`) | – (read-only) | GSTR-1, GSTR-3B of a month | sections that have to tile the documents |
| The rest of the catalogue, settings, documents, analytics | master data | CRUD, reads | – |

They interact through shared rows: approval and shipment call the stock ledger
and the reservations in their own transaction; invoices, payments and notes post
to the party ledger in theirs; an order is created from a quotation behind the
idempotency interceptor; everything that must be told to the outside is emitted
to the outbox in the transaction that causes it, and mailed by a consumer.

What makes each part correct, in one line each: stock — the balance is the sum
of the ledger and promises never exceed it; reservations — reserved is the sum
of the ACTIVE rows and each leaves ACTIVE once; orders — what is ordered is
reserved, backordered or dispatched, never twice; billing — numbers without a
gap, an issued document is final and whole; receivables — the party ledger is
credited and debited once per document and settlement equals the allocations;
idempotency — one answer per key, one order per quotation; outbox and mail —
every event is delivered or parked, everybody is written to; sessions — one live
successor per lineage, none after revocation; links — one of a kind is good, once;
distributors — nobody is ACTIVE
who was not approved on evidence; access — what a request is judged by is what
roles and tree give, and somebody can always administer.

## 2. Conventions

* A **request** that checks before its transaction is at least two steps: one
  that reads and checks (guards included) and one that commits. Where a row
  lock matters, taking it is a step of its own; where a sum is read without a
  lock and written later, so is the sum. Several reads an operation makes before
  its transaction are one step.
* A **transaction** that only works on rows it has locked is one step; that this
  is sound for stock rows is what `StockLedger` shows (`ImplementsBook`).
* A rollback — refusal under the lock, trigger, CHECK, deadlock victim, dead
  process — drops the request and leaves every committed row alone. A COMMIT
  whose answer is lost is not distinguished from one that succeeded, except
  where it matters (`Conversion`, `Mail`).
* **History variables** (`raced`, `contested`, `overtaken`, `freed`, `posted`,
  `entries`, …) change nothing. They record which documents two actors were at
  work on at once, so that a property can say exactly how far the code's own
  checks reach: what holds without an overlap whatever else happens, and what
  may be wrong after one, in which direction.
* Quantities and amounts are integers in the smallest unit of their column.
* A **slice** of an MC module is a choice, made once in the initial state, of the
  part of an instance that a run explores: which actions, identities or inputs.
  Questions that need different bounds, or that share no state, are slices of
  one run. A slice only ever restricts; what it leaves alone it keeps constant.
* An operator with the comment "Mutant:" is not part of the model: it is a
  plausible bug in the definition after it, and replacing that definition by it
  must make TLC report the property it is listed with.

## 3. The modules

| Module | Extends | Models |
|---|---|---|
| `StockBalance` | – | one `stock_balance` row and what `stock-ledger.service.ts` accepts on it (pure) |
| `StockBook` | `StockBalance` | abstract specification: whole plans happen one after another |
| `StockLedger` | `StockBalance` | transactions, row locks, commit, rollback, deadlock; refines `StockBook` |
| `Reservations` | `StockBalance` | `reservations.service.ts` and the hourly sweep |
| `StockTransfers` | `StockBalance` | create, dispatch and receive of `stock.service.ts` |
| `Money`, `Costing` | – | rounding and `costing.ts` (pure) |
| `CostedBins` | `Costing` | three bins and the cost that travels between them |
| `Orders` | `StockBalance` | `orders.service.ts`, `order-approval.service.ts` |
| `Shipments` | `Orders` | `shipments.service.ts`, composed with the orders |
| `Quotations` | – | `quotations.service.ts` |
| `Idempotency` | – | `idempotency.interceptor.ts`, its handler abstract |
| `Conversion` | `Quotations` | the conversion behind the interceptor; refines `Idempotency` |
| `Prices` | `Money` | a line's price from quotation to invoices, while prices change |
| `Billing` | – | drafts, issue, number series, write-offs, opening balances |
| `Returns` | – | GSTR-1 and GSTR-3B over invoices and notes (`gst-returns.service.ts`) |
| `Products` | – | revisions of a product; kits (`products.service.ts`, `product-relations.service.ts`) |
| `Receivables` | – | invoices, payments, allocations, notes, party ledger |
| `Outbox` | – | `outbox_event` rows, dispatchers, recovery, BullMQ jobs |
| `Mail` | `Outbox` | the e-mail consumer that runs those jobs, and the e-mail log |
| `Sessions` | – | `auth.service.ts`, `session.service.ts` |
| `Links` | – | invitations and password resets of one account (`auth.service.ts`, `users.service.ts`) |
| `Distributors` | – | life cycle, KYC and contacts of a distributor |
| `Territories` | – | the tree of territories (and of categories), edits and paths |
| `Access` | `Territories` | roles, assignments, super administrators, cached access |
| `Sums` | `Money` | lemmas on sums over finite sets, and on rounding, which the proofs share |
| `StockLedgerProofs`, `ReservationsProofs`, `ReceivablesProofs` | their module | proofs (section 5) |
| `GoodsProofs` | `Shipments`, `Products`, `StockTransfers`, `CostedBins` | proofs about orders and shipments, the revisions of a product, transfers and costs |
| `DocumentsProofs` | `Conversion`, `Billing`, `Returns`, `Prices` | proofs about the interceptor, quotations, invoices, the returns and prices |
| `OutboxProofs` | `Mail` | proofs about the outbox and the mail consumer |
| `AdmissionProofs` | `Sessions`, `Links`, `Distributors`, `Access` | proofs about who is let in and may act |
| `MC…` | their modules | constants, slices and symmetry for TLC |

**StockLedger.** `rows` is `stock_balance` as committed, `posted` the sum of the
committed ledger entries per bin; `held`, `work`, `pending` are a transaction's
locks, its version of the locked rows and its uncommitted entries; `todo` is the
rest of its plan, the sequence of `move` / `adjustReserved` / `reserveUpTo` calls
its service makes. `LockBalance` is `lockBalance()` (`INSERT … ON CONFLICT DO
NOTHING`, then `SELECT … FOR UPDATE`), `Perform` and `Refuse` the check and write
after it, `Commit`, `Abort` and `DeadlockVictim` the three ways
`PrismaService.transaction` ends.

**Reservations.** `resv` is `stock_reservation`; `request` what a process read
before its transaction (`load()` + `assertTransition()` in `close()` and
`consume()`, the `findFirst` of `consumeQuantity()`); `Commit` is the transaction
with everything it calls; `StartSweep` / `SweepNext` are `expireStale()`, which
lists a batch and closes its rows one at a time through the same `close()`.

**StockTransfers, CostedBins.** Requests load a transfer with its status and
commit all its movements; `ReceivedQuantities` is the Map a receipt is turned
into, keyed by product as the code keys it. `CostedBins` drives
`NextAverageCost` and `LedgerUnitCost` as `StockLedgerService.move` does under
the row lock, for a source, a transit and a destination bin, and remembers what
a consignment left at. `CheckOpening` and `PostOpening` are `openingBalances()`.

**Orders, Shipments.** One stocked item, one line per order: the loops of the
services do the same to each line in one transaction. `order` holds the header,
the line's figures and its reservations; `row` is the stock row the approvals,
releases and dispatches share. Approval reads the exposure and the ceilings,
then reserves what there is and backorders the rest; `cancel`, `update`,
`reject`, `reserveOutstanding` each load and commit. A dispatch draws the hold
down (`consumeQuantity`), issues, records the serials, and recomputes the order's
status from all its shipments.

**Quotations, Idempotency, Conversion.** A quotation is its revisions.
`Idempotency` is the interceptor with an abstract handler that answers or throws:
insert of the key, P2002, the look at the row found, reclaim of an expired one,
remember, release, the purge. `Conversion` puts `createFromQuotation` in the
handler's place, with its two transactions; `INSTANCE Idempotency WITH` states
that it still behaves as the interceptor promises.

**Prices.** One line through `quote → order → parts billed`: the slab of the
chosen list, the one winning rule, the cap, an override, GST, rounding. Rules,
items and rates change in between.

**Billing.** An invoice row in DRAFT, ISSUED or CANCELLED with its number; a
clerk's task is what it loaded and how far it has got, since `update()` commits
twice and `issue()` locks the number series in the middle of its transaction.

**Returns.** Invoices and notes through draft, issue and cancellation, one step an
operation; each section of the two returns is an operator on the rows, named for the
table it fills.

**Products.** A task is an edit, a change of status, a component to add or a product
to remove, with what it read. `snapshot` is the table of before-images, from which
`Told` tells a product's past; `Explosion` is the recursion of `explode()`, level by
level.

**Receivables.** One party. A request is loaded (check before the transaction),
locked (`FOR UPDATE` on the payment, or the number series), summed
(`refreshSettlement()` reads the rows) and committed (columns overwritten,
ledger posted). CHECKs and triggers of migrations 0010 and 0011 are guards of the
commit they refuse. `entries` and `contras` are the sums of the party-ledger rows
a document caused.

**Outbox, Mail.** `event` is the row, `hold` what each worker's `tick()` holds of
it, `job` the BullMQ job under the event's id. `Claim` is the one `UPDATE … FOR
UPDATE SKIP LOCKED … RETURNING`; `Publish`, `PublishFails`, `MarkProcessed`,
`MarkingFails`, `MarkFailed` are `dispatch()` with its try/catch; `GiveUp` is a
worker that dies; `RecoverStuck` the recovery cron. `Mail` runs the job of an
event: `run` is where `EmailProcessor` has got in its list of recipients, `log`
counts the rows of `email_log`, `sent` what the mailboxes received. Its steps are
`Outbox` steps (a start, an end) or leave `Outbox` alone, so what is shown of
`Outbox` holds of the composition (proved: `MailIsOutbox`).

**Sessions.** A refresh token names a row of `session`. A rotation is a claim (the
conditional `updateMany`, which locks the row) and a commit; a revocation of many
rows is a scan and an update of what the scan found.

**Links.** `link` is a token row (`PasswordResetToken`, or `EmailVerificationToken`,
which invitations use too), `person` the columns of the user row that links work on;
an errand is what a caller checked before its transaction, and asking for a link is
the scan of `updateMany`, then its update with the new row. `overlapped` notes the
link, the kind or the status two callers worked on at once, `hastened` that an
account was reactivated before it had a password.

**Distributors.** `partner` is the row, `kyc` and `contacts` its evidence; `onFile`
adds the contacts that are deleted. They are the ones `approve()` counts, for it
reads them as a relation nested in its query, which the soft-delete extension does
not filter, while `removeContact()` counts the live ones: `Missing` is what
`approve()` does not find, `Absent` what the distributor does not have. Every act on
the life cycle, and every removal, is a check and an unconditional write; `stale` and
`overtaken` record whose checks were overtaken, `waived` which evidence went where no
check stands in the way, and an approval leaves nothing waived but the contact.

**Territories, Access.** `node` is a row with its parent and its path of ids; an
edit is what it read before its transaction, the subtree a move found, and a
commit. `Access` adds roles, the assignments of users and `cached`, the effective
access in Redis. A change of roles deletes the rows it sees (`saw`), inserts its
own, commits and then invalidates; a lookup computes and then stores. `misled`,
`merged`, `abdicated` and `excused` record which readings were overtaken, and what
nothing will drop.

## 4. What the runs check and show

| Run | Module, slices | Distinct states | Properties |
|---|---|---|---|
| `stock_ledger` | `MCStockLedger` | 21,000 | `OnHandMatchesLedger`, `ImplementsBook`, `EveryTransactionEnds` |
| `reservations` | `MCReservations` | 583,229 | `HoldNeverOutlivesReservation`, `ReservedMatchesUnlessRaced`, `ClosesOnce`, `StaleHoldsEnd` |
| `goods` | `MCGoods`: credit, fulfilment; goods, costs, openings; revisions, kits | 1,481,283 | `OrdersConsistent`, `RacesOnlyUnderstate`, `ExposureWithinLimit`, `LeavesOnce`, `TransfersAddUp`, `CostsAreFaithful`, `RevisionsExplain`, `KitsHold` |
| `documents` | `MCDocuments`: conversion, prices, invoices, ledger, returns | 1,772,494 | `OneAnswerPerKey`, `QuotationHolds`, `NumbersAreGapless`, `BilledOnce`, `IssuedDocumentIsWhole`, `IssuedStands`, `WriteOffsAreOwed`, `PricesAreDefensible`, `ReturnsReconcile` |
| `receivables_race` | `MCReceivables`: one invoice, a divided receipt; tree, administrators, duties, access | 1,226,464 | `SettlementFollowsRows`, `ReceiptsAddUp`, `LedgerFollowsDocuments`; `TreeHolds`, `AuthorityHolds` |
| `outbox` | `MCOutbox`: dispatch, mail | 297,886 | `OneHolder`, `ProcessedHasJob`, `DeliveredOnce`, `MailIsAccountedFor`, `SettledStaysSettled`, `HandledOrParked` |
| `sessions` | `MCSessions`: rotation, account, onboarding, invitation, reset | 3,077,600 | `OneLiveSession`, `RevokedStaysDead`, `OnboardingHolds`, `LinksHold`, `FailuresAreCounted` |

Five more runs, each with one property that TLC must find violated, are in
section 6. The states are those after symmetry, where symmetry is declared.

What the runs show, beyond the list of properties: the row lock and the
derived balance (`stock_ledger`); which of the figures that are written from
values read too early can be wrong after an overlap, and that the error always
leans to the safe side of what was promised (`reservations`, `goods`); that no
unit of goods and no rupee of a receipt disappears (`goods`,
`receivables_race`); that one key has one answer and one quotation one order as
far as the code's checks reach, and that the two returns of a month declare the
same (`documents`); that a product's past can be told from its revisions (`goods`); that an event ends handled or
visibly parked, and a mail goes to everybody (`outbox`); that a lineage of tokens
has one live session and a revocation is final, and that one mailed link of a kind
is good, once (`sessions`); that scopes follow
the tree and cached access the roles, until an overlap says otherwise
(`receivables_race`).

### Bounds

The hazards of this code are pairs: two requests, each of which checks and then
writes. So every run has two transactions, requests, workers, clerks, officers,
editors or administrators; the proofs of section 5 hold for any number.

* Quantities and amounts: `MaxQuantity` 2, `MaxAmount` = `GrandTotal` = 2, one
  note of 1, `MaxCredit` 2, `MaxSupplied` 3, `MaxOnHand` 3, `MaxOrdered` 2,
  `Ordered` 2, `MaxWrittenOff` 2, `CreditLimit` 2. Two is the least amount that can
  be divided, given back in part, or taken twice with a visible result.
* Histories: `MaxMoves` 6 movements of goods (two receipts at different costs, a
  dispatch, an arrival, and two more), `MaxOpened` 3 (two openings and a movement
  between), `MaxEdits` 1, `MaxHolds` 2, `MaxRows` 2 and
  `MaxRevisions` 2 (a key or a quotation and its successor; 3 for products), `MaxOrders` 2 (the
  one too many), `LastDay` 2 and `MaxChanges` 1 of market data; for the returns `MaxValue` 2,
  thresholds 1 and 2, two months which are two years, three documents at a time;
  for kits three products, four entries and `MaxDepth` 3 (10 in the code), so that
  two levels explode and the third is refused.
* Attempts: `MaxAttempts` 2 with `MaxFailures` 3 for the lockout, so that the
  counter reaches its limit and goes past it; `MaxAttempts` 2, `JobAttempts` 2,
  `MaxForgets` 1, `BatchSize` 2 for the outbox; `SweepBatch` 1, below the backlog.
* Identities: three sessions (a lineage, its successor, another lineage); three links
  (two asked for at once, and the one they close); one
  required kind of KYC with two copies, two contacts; three territories, the least
  chain in which a move of the middle leaves something above and below; one plan per
  shape of caller in `MCStockLedger`.
* Who may act: in the tree slice no further edit begins once one was misled, as
  only `PathsEndInTheirNode` is then claimed; in the access slice one change or edit
  is in flight at a time, beside one lookup, over two territories and one grant - the
  races between two changes are the slices of administrators and of duties.
* Symmetry is declared over interchangeable identities, and in no run that checks
  liveness.

Wherever a run could not end otherwise (a user may always wait), deadlock is not
checked; the liveness properties say what must go on.

### Fairness

* `StockLedger`: strong fairness of `LockBalance` — PostgreSQL queues waiters in
  order of arrival; weak fairness of `Perform`, `Refuse`, `Commit` — an open
  transaction keeps issuing its statements; weak fairness of `DeadlockVictim` —
  the detector runs after `deadlock_timeout`. None of `Begin` and `Abort`.
* `Reservations`: the cron fires for ever (`StartSweep`), a started sweep goes on
  (`SweepNext`), a refusal is returned (`Refuse`); strong fairness of a sweeper's
  `Commit` — a worker does not die in *every* transaction. Nothing of users.
* `Outbox`, and `Mail` which refines it: polls and crons recur (`Claim`,
  `RecoverStuck`), time passes (`BecomeDue`, `GrowOld`), BullMQ hands out jobs and
  ends them (`StartJob`, `EndJob`: a run that was started ends, or stalls and is
  taken away); strong fairness, per event, of trying to publish it and of marking it
  — a worker may be killed again and again but not every time at this same point.
  Success is never assumed: publishing and jobs may fail each time, which is why
  the property ends in *handled or parked*.
* Nothing else assumes any: the other properties are about what may never happen.

## 5. What is proved

All for every value of the constants; the only assumptions are the named `ASSUME`s
of the modules: finite ranges are naturals, identities of different kinds are
disjoint, the value that stands for "no request" is not a request, a plan is a
sequence of operations, a percentage is at most a hundred and the code of a discount
rule is its own. What is summed over is finite (reservations, orders,
shipments, invoices, payments): a table has finitely many rows.

* **Sums**: what `SumFunctionOnSet` adds up to - it is a natural number, grows by
  what one member grows by, splits over a division of its set, is bounded member by
  member, is zero only where every member is, and does not depend on the order in
  which the fold takes the members. Each is an induction over the subsets of the
  set, done without an operator as a parameter: strict inclusion of finite sets is
  well founded, so a counterexample would have a least one. In the same way, that a
  function defined by recursion over `0..n` exists with the type of its steps
  (`PrefixInduction`, `RecursionExists`). And of `RoundHalfUp`: it is
  half a unit off at most, stays between the naturals its quotient is between, and does
  not change when the fraction is expanded.
* **StockLedgerProofs**: `TypeOK`, `OnHandMatchesLedger`, `NeverOversold`,
  `LockedViewIsCurrent`. None is inductive alone. `IInv` adds that a row has one
  holder, that a transaction has uncommitted entries only for rows it holds, and
  that its own version of a row is one it could commit. The argument: while a row
  is held nobody else commits it, so *version = committed + own entries* survives
  every step; at commit that equation becomes *balance = sum of ledger*, for held
  rows by the equation and for the others because nothing was pending.
  `AcceptedOperation` is the lemma on one row.
  Then the refinement, `LedgerImplementsBook`: every step of the locking protocol is a
  step of `StockBook` or a stutter of it. `FollowsPlans`: a transaction has done a
  prefix of one plan, and its own versions of the rows it holds are what that prefix
  makes of the committed ones. Others commit rows that it does not hold meanwhile, but
  no operation so far was on one of those, so the plan does not notice (`PagesShift`);
  at its own commit it has published what the plan makes of the book in one go.
* **ReservationsProofs**: `TypeOK`, `PromisesAreBacked`,
  `HoldNeverOutlivesReservation`. The last is the half of the hold's accounting
  that survives races. `IInv` adds `SnapshotsBound`: what a request read is at
  least what is still outstanding, however stale it is. That is inductive since
  what is outstanding only ever falls once a reservation exists; so a stale commit
  frees too much, never too little. `ReservedMatchesUnlessRaced` and `ClosesOnce`
  need the other half, `RaceInv`: where no two requests met on a reservation, what
  one of them read of it is so still, and nobody else is at work on it. The reserved
  figure is then the sum of the ACTIVE remainders, moved by a commit exactly as the
  sum is; a reservation leaves ACTIVE once.
* **GoodsProofs**, of orders and shipments, by four invariants. `WellFormed`: rows
  keep to their bounds, an order has one ACTIVE hold, and it claims no dispatch that
  did not leave (what left only grows, so a claim read in time is never too high).
  `Accounted`: what the stock row withholds divides into a share per order which its
  hold covers, and so does whatever a request has read of the hold; whoever closes
  the hold gives the share back, once at least. Together they are
  `RacesOnlyUnderstate`, which holds whatever overlaps. `OrderInv`: an order on which
  two requests never met has one request at work at most, and what that one read is
  so still; from it `OrdersConsistent` and `LeavesOnce`. `CreditInv`: the open orders,
  with the one under approval, are within the limit unless two approvals met; the
  exposure an approval summed is at least what is open, for what is open of an order
  only falls between. From it `ExposureWithinLimit`.
  Of the catalogue: `RevisionsAreKept`, that `RevisionsExplain`. A field was, at a
  revision, what its first later change found, so cutting a revision changes nothing of
  what is told of the earlier ones, provided that the edit had loaded the data it
  replaces. `CatalogueInv`: an edit that loaded the revision in force has its data,
  unless a product was put back; the unique number of a revision refuses the others.
  Of the kits: `KitsStaySound`, that `KitsHold`. A product is below itself if a walk
  down the entries leads back to it (`LevelIsWalked`, `WalkIsLevel`). A loop through a
  new entry, followed from its component to the first return to its parent, is a walk
  down the entries that the check has seen (`NewEntryClosesNoLoop`); `KitInv`: what a
  check nobody overtook has seen holds still. The totals of `explode()` do not need
  that: what the lines of one level carry of a component further down is what those of
  the next level are of it and carry of it (`LevelStep`), so the levels together are
  what is needed.
  Of the transfers: `GoodsAreTracked`, that `TransfersAddUp`. A posting changes one bin
  of each variant, so a commit moves a sum over the bins by what its line carries, and
  the goods of a direct transfer are on the road by as much. `TransferInv` adds that a
  request nobody met has read the status the transfer still has, so that a transfer
  leaves and arrives once, and what has moved by then.
  Of the costs: `CostsStayFaithful`, that `CostsAreFaithful`. `CostInv`, bin by bin: an
  averaging rounds half a unit of what it divides by, and a rounded mean stays between
  what its terms are between; transfer by transfer: the average its cost will be read
  from is what its goods left at, unless others came in; and a bin an opener found
  without movements has none until it is overtaken.
* **OutboxProofs**: `TypeOK`, `OneHolder`, `ProcessedHasJob`, `DeliveredOnce`, and
  the action property `SettledStaysSettled`. `IInv` adds that an event a worker is
  about to mark has a job (`AddedHasJob`), that an event without a job in its queue
  had no more jobs than were forgotten (`JobsCounted`), and that a waiting job
  has attempts left (`AttemptsLeft`, for the type). `SettledStaysSettled` follows
  from `OneHolder`: whoever marks an uncontested event holds it, so it is
  PROCESSING and not settled. Of `Mail`: `MailIsOutbox`, that every step of a run
  is a job's step or leaves `Outbox` alone, fairness included; and `MailAccounts`,
  from an invariant per event that relates the place in the list of recipients to
  what was written and logged, and what each recipient received to the attempts
  and stalls spent.
* **DocumentsProofs**, of the interceptor: `KeyTypeCorrect`, `KeysAnswerOnce`.
  `KeyInv`: whoever holds a row inserted it, rows are numbered, only expired rows are
  reclaimed, and a finished row bars its key; so two answers to one key are the same
  answer. Of the endpoint: `ConversionImplementsInterceptor`, the refinement
  (`INSTANCE Idempotency WITH`): each step of quotations, orders and conversions maps
  to a step of the key table or to a stutter; `ConversionsAnswerOnce` carries
  `KeysAnswerOnce` over it. Of quotations: `QuotationTheorem`, that `QuotationHolds`.
  `QuoteInv`: while requests do not overlap, whoever works on a revision works on it
  alone and the status that was checked is the status still; every revision but the
  last is rejected, so the order that exists names the one revision alive, which is
  converted or in the hands of the order's creator.
  Of billing: `TypeOK`, `NumbersAreGapless`, and the action properties `IssuedStands`
  and `WriteOffsAreOwed`. `BInv`: one clerk has the series locked, and the numbers
  given are those up to the counter; one that is taken belongs to the clerk who holds
  the series. `BilledOnce`, `IssuedDocumentIsWhole` and `WriteOffsAreOwed` need
  `BillingStands`: overlaps are noted; where none is, what a clerk loaded of an invoice
  stands, header and tax split agree or are in the hands of the one who re-taxes them,
  and the quantity or amount a clerk is about to take still fits into what is left.
  Of the returns: `ReturnsAddUp`, that `ReturnsReconcile`. `ReturnInv`: the class an
  invoice was given at issue agrees with its place and its buyer (so that the sections
  of GSTR-1, by class, and those of GSTR-3B, by place, divide the same set), what was
  filed is of a year that is over, a note is on an invoice with a number, and no
  invoice is credited beyond its value. The totals then follow from lemmas of `Sums`:
  a sum over a set is the sum of its sums by kind.
  Of prices: `PricesStayDefensible`, that `PricesAreDefensible`. `PriceInv`: a line
  that is there was made by the engine from what was in force then, and the parts
  billed were drafted from the order as it was approved. Codes are unique, so one
  eligible rule outranks the others; its cap, divided back over the quantity, gives away
  what it says. Two halves of a tax, rounded, differ from the whole by a paisa at most,
  and n parts from the order by n + 1 half paise and what the stored unit price rounds.
* **ReceivablesProofs**: `LedgerTheorem`, that `LedgerFollowsDocuments`. `RInv`: two
  requests that meet on a document, one of them to change its status, are noted; so
  where nothing is noted, what a request has read of a receipt's status, value and
  entries, and of whether an invoice is a draft or cancelled, still holds when it
  commits (`EndKeeps`). No invoice becomes a draft again, whatever overlaps: nothing
  is allocated to a draft, and what a settlement sums is none.
  `SettlementTheorem`, that `SettlementFollowsRows`, and `ReceiptsTheorem`, that
  `ReceiptsAddUp`, by `QInv`: one request locks a receipt's row, and what it has read
  there is what is stored; what a settlement summed is the sum of the rows with its own
  change, or somebody has met it on the invoice; a cancelled invoice and a bounced
  receipt have nothing allocated unless a meeting is noted.
* **AdmissionProofs**, of `Sessions`: `TypeOK`, `OneLiveSession`, `RevokedStaysDead`,
  `FailuresAreCounted`. `SInv`: a row that is claimed is live and claimed once, a
  lineage has one live row, a suspension covers all sessions, and a scan found every
  live row of what it covers, or a rotation overlapped it.
  Of `Links`: `LinksTheorem`, that `LinksHold`. `LInv`: two errands that meet on a link,
  a kind of link or the status are noted, so what an errand counts on - its link unspent,
  every open link of its kind found, no acceptance and no suspension since - stands.
  Of `Distributors`: `OnboardingIsSound`, that `OnboardingHolds`. `DInv`: what a
  request checked is still so or the request is among `stale`; an ACTIVE partner was
  approved, on evidence that stands unless it was waived; and one that had contacts
  has one or its absence is waived (`ContactKept`), which is what the approval of a
  distributor with deleted contacts rests on.
  Of `Territories`: `TreeTheorem` and `TreeAloneTheorem`, that `TreeHolds`. `TInv`
  adds that a move was not asked for below its own node and that what is created is in
  nobody else's hands. `PrefixFindsSubtree` needs no induction over the tree: where
  paths follow parents and end in their node, a path that begins with another is it or
  has a parent that does. So a move rewrites exactly the node's subtree, and
  `RewriteBuilt` (to rewrite what is built is to build on what is rewritten) gives
  each row of it the path of its parent again.
  Of `Access`: `AuthorityTheorem`, that `AuthorityHolds`, on that tree as it is edited. `AInv` adds
  `OthersRule`: whoever is about to withdraw a super administrator, and was not
  overtaken by another withdrawal, still has another active one. The commit of one
  change keeps that of the others, for it takes away nobody but the one it
  withdraws. That a cached access is current is inductive as it stands: an access
  depends on the user's assignments, the roles and the rows of the tree alone
  (`SameAccess`), and each step that changes one of them leaves behind a drop still
  to come.

Every safety invariant and action property that a passing run checks is proved. Only
model-checked is the liveness (`EveryTransactionEnds`, `StaleHoldsEnd`,
`HandledOrParked`): fairness is out of the prover's reach.

The proofs do not lean on a fast machine: every module is also proved with a fifth of
the time the provers are allowed by default (`tlapm --stretch 0.2`). A fact with many
hypotheses is bundled under a name (`PartsRounded`, `HeadRounded`, `GoesOutOnceMore`)
where a lemma would otherwise be hard to match; a leaf that slows down when a model
changes is best split in the same way.

## 6. Findings

Listed in `PROJECT.json`, each with its run and the line it contradicts:

1. `transfers_variants` — a receipt keyed by product writes one variant's short
   receipt onto every variant of the product (`inventory/stock.service.ts:530`).
2. `receivables_oversettled` — two receipts allocated at once over-settle an
   invoice: both commit, the columns show only one
   (`finance/invoices.service.ts:806`).
3. `prices_converted` — an order converted from a quotation is priced anew, without
   the overrides, and no difference is shown (`sales/orders.service.ts:325` against
   ADR-0011).
4. `distributor_contacts` — a distributor whose only contact was removed while it
   awaited approval is approved without one, for `approve()` counts deleted contacts
   (`distributors/distributors.service.ts:493`).
5. `returns_drafts` — GSTR-3B declares the outward liability of invoices that are
   still in draft (`finance/gst-returns.service.ts:143`).

Observed while modelling, without a run of their own.

*Stock.* Two requests that both read a reservation ACTIVE take it off
`quantity_reserved` twice, after which the sweep's release of a remaining hold can
be refused for ever. A direct transfer can be received twice. The cost of a direct
transfer, or of goods that mix in transit, is read when they arrive. Goods whose
first receipt states no cost are valued at nothing until the first price.
The unique index of ACTIVE reservations ignores
variants, and `reserveOutstanding()` fails while a partial hold is ACTIVE, against
ADR-0012 §4.

*Sales.* A cancellation that overlaps an approval leaves an ACTIVE hold on a dead
order. Two dispatches of one non-serialised shipment both leave; last deliveries
can miss each other; `refreshFulfilmentStatus()` can miss a concurrent dispatch.
The statuses PROCESSING, COMPLETED, IN_TRANSIT and RETURNED are reached nowhere, `expireLapsed()` is called by
nothing, and only `submit()` asks whether the distributor is ACTIVE. A conversion
whose second transaction fails has created its order and releases the key, so that
a retry creates another; the interceptor's comment (lines 89–90) says a retry
cannot. `revise()` without lines prices again, which
`quotations.service.ts:279–281` does not lead one to expect.

*Pricing.* `orderLineToDraft()` rounds the unit price and drops the cess
(`pricing.service.ts:28–33`: the two "must never disagree"). The gate at issue asks
that some rate covers the code, not that it is the line's. Pricing on the original
date does not reproduce the original figures (`sales-pricing.helper.ts:37–41`),
since `isActive` and list items have no dates. An edit of a product that puts back just
what it had loaded, over another's change, cuts no revision; a before-image holds the
changed fields and not "the full before-image" of `schema.prisma`. The CHECK says that
services use a SAC and not that goods use an HSN, so that two edits can leave ACTIVE
goods with a SAC. A product in DRAFT without a code can never be archived. `explode()`
refuses a chain of ten levels as "deeper than 10". Floor and ceiling bind only an
override.

*Finance.* Concurrent drafts bill an order twice. `update()`'s two transactions can
leave an issued invoice whose place of supply and tax split disagree; `issue()`
posts the total it loaded. Write-offs, and opening balances, may overlap. A credit
note drafted before its invoice was cancelled may be issued after it. Exports are in no
section of GSTR-1, and notes to unregistered buyers in none. A bounce that overlaps an
allocation leaves it behind; an `update()` that overlaps a verification resets
`unallocated_amount`.

*Platform.* The interceptor's hash covers the body and the route pattern only; a
crash between the commit and `remember` leaves the key in progress until it
expires. Recovery of the outbox goes by the age of the row, so that two workers may
hold one event; when marking fails after the add, an event whose job exists ends
FAILED or DEAD; DEAD rows are only logged. A mail whose answer or whose SENT update
is lost is logged FAILED though delivered, and is sent again to every earlier
recipient; `reportUnhandled` marks an event type before its alert is sent, so that a
retry swallows the alert. Sign-out everywhere misses a successor that is being
committed; the failure counter loses parallel failures. Two reset requests that
overlap leave two usable links (`auth.service.ts:382–383` says one), and a link that
two callers check before either commits works twice. An acceptance that overlaps a
suspension undoes it. Suspended before it is accepted and reactivated, an invited
account is ACTIVE without a password, and its invitation is refused.

*Distributors.* Suspended, stripped of its last contact or its verified KYC, and
reactivated, a distributor is ACTIVE without them: `reactivate()` checks the status
alone (line 540). A stale approve, suspend or reactivate overwrites TERMINATED;
`missingKyc` ignores expiry, a new upload keeps the verification; rejecting KYC or
clearing the GSTIN leaves an ACTIVE distributor ACTIVE; concurrent `addContact`
leaves two primaries; `notifyExpiring()` and `portalUserId` are used by nothing.

*Who may act.* Overlapping moves make a cycle, or paths that no longer follow the
parents; a creation or a move hangs a live child under a removed parent.
`_count.children` counts deleted children (nested like the contacts above), so that a parent whose children were
removed can never be. `create()` of a territory drops no cached access: who is
scoped above it does not see it until the entry lapses. An access computed before a
change and stored after its invalidation, or whose invalidation was lost, judges
requests for the rest of its time. Two updates of a role can merge two permitted
sets into a separated pair; the pairs are checked per role and never over a user's
roles. Two concurrent withdrawals leave no super administrator, and the two that
`docs/04-rbac-and-permissions.md:71` asks for are not required. `expiresAt` of an
assignment is written by nothing, and a cached access outlives it.

## 7. What is left out

* Of the modelled parts, by the note of their component in `PROJECT.json`. In
  general: several lines of one document (the loops treat each alike, in one
  transaction), wording and numbering beyond the invoice series, approval bands,
  TDS, manual adjustments, agreements,
  the turn of the year, and two live runs of one mail job at once.
* The registration of serials on receipt, the job heartbeat and the token bucket,
  which could be modelled and are not.
* Not going to be: rendering, PDFs, the SMTP transport, file storage, the portal,
  read-only reports and search, master-data CRUD without concurrency of its own,
  backup and Sheets, the query-rewriting extensions, Zod validation. They keep no
  state others race on, and are the greater part of the lines of this repository,
  which is why the map covers a small share of them.

## 8. Plan

Done: stock, reservations, costing, transfers; orders and shipments; quotations,
idempotency and conversion; pricing; products and kits; billing, returns and
receivables; outbox and mail; sessions; links; distributors; territories and access;
the proofs of section 5. Left, in order of use:

1. Serials at receipt; the heartbeat's staleness; the token bucket as a pure module.
2. Notifications, reports and backups as further consumers behind `Outbox`.
