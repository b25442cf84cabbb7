------------------------------- MODULE Billing -------------------------------
(***************************************************************************)
(* Drafting, editing, issuing and cancelling the tax invoices of one line  *)
(* of an approved order (finance/invoices.service.ts), the statutory       *)
(* number series (number-sequence.service.ts), and the acts on the party's *)
(* ledger that have no document: write-offs and the opening balance        *)
(* (finance/ledger.service.ts).  Settlement is the matter of Receivables.  *)
(*                                                                         *)
(* An amount is a number of units billed.  Whether the invoice is taxed as *)
(* intra-state or inter-state is kept apart, since it can change under a   *)
(* draft: the header's place of supply, and the split the lines carry.     *)
(***************************************************************************)
EXTENDS Integers, FiniteSets, Functions

CONSTANTS Invoices,   \* invoice rows ever created
          Clerks,     \* concurrent requests
          Ordered,    \* quantity of the order line
          MaxWrittenOff, \* bound: what write-offs may add up to
          NoTask,     \* an idle clerk
          NoFigures   \* a party-ledger entry that was not posted

Places == {"INTRA", "INTER"}
Kinds == {"BILL", "UPDATE", "REMOVE", "ISSUE", "CANCEL", "WRITE_OFF", "OPENING"}
BillingStages == {"LOADED", "NUMBERED", "HEADER_WRITTEN", "RETAXED"}
Figures == [quantity : 0..Ordered, split : Places]
Invoice == [status : {"NONE", "DRAFT", "ISSUED", "CANCELLED", "REMOVED"},
            quantity : 0..Ordered, place : Places, split : Places, number : Nat]

ASSUME BillingAssumption ==
    /\ Ordered \in Nat
    /\ MaxWrittenOff \in Nat
    /\ IsFiniteSet(Invoices)

VARIABLES invoices,    \* the rows, with what their lines say
          nextNumber,  \* number_sequence.next_value of the series
          entry,       \* the debit posted for each invoice
          contras,     \* how many times its cancellation was credited
          writtenOff,  \* what write-offs took off the balance
          openings,    \* how many opening balances the party has
          task,        \* what each clerk read and is about to do
          contested,       \* history: invoices two clerks worked on at once, or
                       \* whose update was cut off half-way
          clashed      \* history: kinds of acts that overlapped

billingVars == <<invoices, nextNumber, entry, contras, writtenOff, openings,
                 task, contested, clashed>>
figureVars  == <<entry, contras, writtenOff, openings>>

Task == [kind : Kinds, stage : BillingStages, invoice : Invoices \cup {NoFigures},
         amount : Nat, place : Places, seen : Places]

ASSUME NoTaskAssumption == NoTask \notin Task

BillingInit ==
    /\ invoices = [i \in Invoices |-> [status |-> "NONE", quantity |-> 0,
                                       place |-> "INTRA", split |-> "INTRA", number |-> 0]]
    /\ nextNumber = 1
    /\ entry = [i \in Invoices |-> NoFigures]
    /\ contras = [i \in Invoices |-> 0]
    /\ writtenOff = 0
    /\ openings = 0
    /\ task = [c \in Clerks |-> NoTask]
    /\ contested = {}
    /\ clashed = {}

Is(i, status) == invoices[i].status = status
Numbered(i)   == invoices[i].status \in {"ISSUED", "CANCELLED"}
FiguresOf(i)  == [quantity |-> invoices[i].quantity, split |-> invoices[i].split]

(* Pairs of acts whose checks do not hold when they overlap.               *)
Clashes == {{"BILL"}, {"WRITE_OFF"}, {"WRITE_OFF", "CANCEL"}, {"OPENING"}}

(* A request reads and checks; what it overlaps is recorded.               *)
Load(c, kind, i, amount, place, seen) ==
    LET others == {task[d] : d \in {d \in Clerks : task[d] # NoTask}} IN
    /\ task[c] = NoTask
    /\ task' = [task EXCEPT ![c] = [kind |-> kind, stage |-> "LOADED", invoice |-> i,
                                    amount |-> amount, place |-> place, seen |-> seen]]
    /\ contested' = contested \cup {t.invoice : t \in {t \in others : t.invoice = i /\ i \in Invoices}}
    /\ clashed' = clashed \cup ({{kind, t.kind} : t \in others} \cap Clashes)
    /\ UNCHANGED <<invoices, nextNumber, figureVars>>

Doing(c, kind, stage) == task[c] # NoTask /\ task[c].kind = kind /\ task[c].stage = stage
Becomes(c, stage)  == task' = [task EXCEPT ![c].stage = stage]
Done(c)            == task' = [task EXCEPT ![c] = NoTask]

(***************************************************************************)
(* Drafts                                                                  *)
(***************************************************************************)
(* Mutant: only what was issued counts as billed.                          *)
BilledByIssued ==
    SumFunction([i \in {i \in Invoices : Numbered(i)} |-> invoices[i].quantity])

(* billedQuantitiesFor(): every invoice that is not cancelled.             *)
Billed ==
    SumFunction([i \in {i \in Invoices : Is(i, "DRAFT") \/ Is(i, "ISSUED")} |->
                     invoices[i].quantity])

(* createFromOrder(), createFromShipment(): no more than remains.          *)
LoadBill(c, i, wanted) ==
    /\ Is(i, "NONE")
    /\ \A d \in Clerks : task[d] # NoTask => task[d].invoice # i
    /\ wanted <= Ordered - Billed
    /\ Load(c, "BILL", i, wanted, "INTRA", "INTRA")

CommitBill(c) ==
    /\ Doing(c, "BILL", "LOADED")
    /\ invoices' = [invoices EXCEPT ![task[c].invoice].status = "DRAFT",
                                    ![task[c].invoice].quantity = task[c].amount]
    /\ Done(c)
    /\ UNCHANGED <<nextNumber, figureVars, contested, clashed>>

LoadUpdate(c, i, place) ==
    Is(i, "DRAFT") /\ Load(c, "UPDATE", i, 0, place, invoices[i].place)

(* Mutant: the stored taxes are left as they are.                          *)
TaxesKept(c) == FALSE

(* The place differs from the one that was read: the taxes must follow.    *)
TaxesToFollow(c) == task[c].place # task[c].seen

(* update(), first transaction.  The trigger refuses a changed place on an *)
(* invoice that is no longer a draft.                                      *)
CommitHeader(c) ==
    LET i == task[c].invoice IN
    /\ Doing(c, "UPDATE", "LOADED")
    /\ Is(i, "DRAFT") \/ (Numbered(i) /\ invoices[i].place = task[c].place)
    /\ invoices' = [invoices EXCEPT ![i].place = task[c].place]
    /\ IF TaxesToFollow(c) THEN Becomes(c, "HEADER_WRITTEN") ELSE Done(c)
    /\ UNCHANGED <<nextNumber, figureVars, contested, clashed>>

(* recomputeTax(): the invoice is read and taxed anew ...                  *)
Retax(c) ==
    /\ Doing(c, "UPDATE", "HEADER_WRITTEN")
    /\ ~Is(task[c].invoice, "REMOVED")
    /\ task' = [task EXCEPT ![c].stage = "RETAXED", ![c].seen = invoices[task[c].invoice].place]
    /\ UNCHANGED <<invoices, nextNumber, figureVars, contested, clashed>>

(* Mutant: the lines of an issued invoice can be written.                  *)
LinesNeverFrozen(i) == ~Is(i, "REMOVED")

(* The trigger on invoice_line: only a draft's lines can be written.       *)
LinesWritable(i) == Is(i, "DRAFT")

(* ... and its lines and totals are written in a second transaction.       *)
CommitTaxes(c) ==
    LET i == task[c].invoice IN
    /\ Doing(c, "UPDATE", "RETAXED")
    /\ LinesWritable(i)
    /\ invoices' = [invoices EXCEPT ![i].split = task[c].seen]
    /\ Done(c)
    /\ UNCHANGED <<nextNumber, figureVars, contested, clashed>>

LoadRemove(c, i) == Is(i, "DRAFT") /\ Load(c, "REMOVE", i, 0, "INTRA", "INTRA")

(* The delete guard of migration 0011 refuses an issued invoice.           *)
CommitRemove(c) ==
    LET i == task[c].invoice IN
    /\ Doing(c, "REMOVE", "LOADED")
    /\ Is(i, "DRAFT")
    /\ invoices' = [invoices EXCEPT ![i].status = "REMOVED"]
    /\ Done(c)
    /\ UNCHANGED <<nextNumber, figureVars, contested, clashed>>

(***************************************************************************)
(* Issue and cancellation                                                  *)
(***************************************************************************)
LoadIssue(c, i) ==
    /\ Is(i, "DRAFT")
    /\ invoices[i].quantity > 0
    /\ Load(c, "ISSUE", i, invoices[i].quantity, invoices[i].place, invoices[i].split)

(* Mutant: the series is read without FOR UPDATE.                          *)
SeriesUnlocked(c) == TRUE

SeriesFree(c) == \A d \in Clerks : ~Doing(d, "ISSUE", "NUMBERED")

(* sequences.next(): the series' row is locked and its value taken.        *)
TakeNumber(c) ==
    /\ Doing(c, "ISSUE", "LOADED")
    /\ SeriesFree(c)
    /\ task' = [task EXCEPT ![c].stage = "NUMBERED", ![c].amount = nextNumber]
    /\ UNCHANGED <<invoices, nextNumber, figureVars, contested, clashed>>

(* issue(): number, status and ledger debit in one transaction, the debit  *)
(* from the figures that were loaded.  The trigger refuses a second number.*)
CommitIssue(c) ==
    LET i == task[c].invoice IN
    /\ Doing(c, "ISSUE", "NUMBERED")
    /\ Is(i, "DRAFT")
    /\ invoices' = [invoices EXCEPT ![i].status = "ISSUED", ![i].number = task[c].amount]
    /\ nextNumber' = task[c].amount + 1
    /\ entry' = [entry EXCEPT ![i] = [quantity |-> invoices[i].quantity, split |-> task[c].seen]]
    /\ Done(c)
    /\ UNCHANGED <<contras, writtenOff, openings, contested, clashed>>

LoadCancel(c, i) == Is(i, "ISSUED") /\ Load(c, "CANCEL", i, 0, "INTRA", "INTRA")

(* cancel(): by id alone; the number stays.                                *)
CommitCancel(c) ==
    LET i == task[c].invoice IN
    /\ Doing(c, "CANCEL", "LOADED")
    /\ invoices' = [invoices EXCEPT ![i].status = "CANCELLED"]
    /\ contras' = [contras EXCEPT ![i] = @ + 1]
    /\ Done(c)
    /\ UNCHANGED <<nextNumber, entry, writtenOff, openings, contested, clashed>>

(***************************************************************************)
(* Acts on the ledger without a document                                   *)
(***************************************************************************)
(* balanceFor(): SUM(debit) - SUM(credit).                                 *)
Balance ==
    SumFunction([i \in {i \in Invoices : entry[i] # NoFigures} |->
                     entry[i].quantity * (1 - contras[i])])
    + openings - writtenOff

(* Mutant: whatever is asked may be written off.                           *)
AnyAmount(amount) == TRUE

Owed(amount) == amount <= Balance

LoadWriteOff(c, amount) ==
    Owed(amount) /\ Load(c, "WRITE_OFF", NoFigures, amount, "INTRA", "INTRA")

CommitWriteOff(c) ==
    /\ Doing(c, "WRITE_OFF", "LOADED")
    /\ writtenOff + task[c].amount <= MaxWrittenOff
    /\ writtenOff' = writtenOff + task[c].amount
    /\ Done(c)
    /\ UNCHANGED <<invoices, nextNumber, entry, contras, openings, contested, clashed>>

(* adjust(): the opening balances are counted, without a lock, in the      *)
(* transaction that posts one.                                             *)
CountOpenings(c) == openings = 0 /\ Load(c, "OPENING", NoFigures, 1, "INTRA", "INTRA")

CommitOpening(c) ==
    /\ Doing(c, "OPENING", "LOADED")
    /\ openings' = openings + task[c].amount
    /\ Done(c)
    /\ UNCHANGED <<invoices, nextNumber, entry, contras, writtenOff, contested, clashed>>

(* A refusal, a rollback or the end of the process.  The number that was   *)
(* taken goes back with the transaction; a header that was already         *)
(* committed stays.                                                        *)
Drop(c) ==
    /\ task[c] # NoTask
    /\ Done(c)
    /\ contested' = IF task[c].stage \in {"HEADER_WRITTEN", "RETAXED"}
                THEN contested \cup {task[c].invoice} ELSE contested
    /\ UNCHANGED <<invoices, nextNumber, figureVars, clashed>>

DraftStep(c) ==
    \/ \E i \in Invoices : \/ \E wanted \in 1..Ordered : LoadBill(c, i, wanted)
                           \/ \E place \in Places : LoadUpdate(c, i, place)
                           \/ LoadRemove(c, i)
    \/ CommitBill(c) \/ CommitHeader(c) \/ Retax(c) \/ CommitTaxes(c) \/ CommitRemove(c)

IssueStep(c) ==
    \/ \E i \in Invoices : LoadIssue(c, i) \/ LoadCancel(c, i)
    \/ TakeNumber(c) \/ CommitIssue(c) \/ CommitCancel(c)

LedgerStep(c) ==
    \/ \E amount \in 1..MaxWrittenOff : LoadWriteOff(c, amount)
    \/ CommitWriteOff(c) \/ CountOpenings(c) \/ CommitOpening(c)

BillingNext == \E c \in Clerks : DraftStep(c) \/ IssueStep(c) \/ LedgerStep(c) \/ Drop(c)

BillingSpec == BillingInit /\ [][BillingNext]_billingVars

(***************************************************************************)
(* Properties                                                              *)
(***************************************************************************)
(* Every variable holds a value of its kind.                               *)
BillingTypeOK ==
    /\ invoices \in [Invoices -> Invoice]
    /\ nextNumber \in Nat \ {0}
    /\ entry \in [Invoices -> Figures \cup {NoFigures}]
    /\ contras \in [Invoices -> Nat]
    /\ writtenOff \in 0..MaxWrittenOff
    /\ openings \in Nat
    /\ task \in [Clerks -> Task \cup {NoTask}]
    /\ contested \in SUBSET Invoices
    /\ clashed \in SUBSET Clashes

(* The statutory series has no gap and no number twice, whatever rolls     *)
(* back, dies or is cancelled: "a rolled-back transaction returns the      *)
(* number" (number-sequence.service.ts) and a cancelled invoice keeps its  *)
(* own.                                                                    *)
NumbersAreGapless ==
    /\ \A n \in 1..(nextNumber - 1) : \E i \in Invoices : Numbered(i) /\ invoices[i].number = n
    /\ \A i \in Invoices : Numbered(i) => invoices[i].number \in 1..(nextNumber - 1)
    /\ \A i, j \in Invoices : Numbered(i) /\ Numbered(j) /\ i # j =>
           invoices[i].number # invoices[j].number

(* "Billing an order twice ... is prevented by arithmetic": what drafts    *)
(* and invoices carry never exceeds what was ordered, unless two draftings *)
(* overlapped, for each computes the remainder before either is stored.    *)
BilledOnce == {"BILL"} \notin clashed => Billed <= Ordered

(* A document and its ledger entry say the same, and so do its header and  *)
(* its lines: an issued invoice is taxed for the place it names, debited   *)
(* as it is printed, and credited once if it was cancelled; unless two     *)
(* requests overlapped on it or its update was cut off half-way.           *)
IssuedDocumentIsWhole ==
    \A i \in Invoices \ contested : Numbered(i) =>
        /\ invoices[i].place = invoices[i].split
        /\ entry[i] = FiguresOf(i)
        /\ contras[i] = IF Is(i, "CANCELLED") THEN 1 ELSE 0

(* "The CLAIM is frozen" (migration 0010): once issued, an invoice keeps   *)
(* its number, its figures and its place whatever requests were under way. *)
IssuedStands ==
    [][\A i \in Invoices : Numbered(i) =>
           /\ Numbered(i)'
           /\ invoices'[i] = [invoices[i] EXCEPT !.status = invoices'[i].status]]_billingVars

(* A write-off never makes "a credit balance from nothing", and a party    *)
(* has "exactly one opening balance", unless acts on its balance overlap.  *)
WriteOffsAreOwed ==
    [][/\ writtenOff' > writtenOff /\ clashed \cap {{"WRITE_OFF"}, {"WRITE_OFF", "CANCEL"}} = {}
              => Balance' >= 0
       /\ {"OPENING"} \notin clashed => openings' <= 1]_billingVars
=============================================================================
