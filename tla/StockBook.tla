------------------------------ MODULE StockBook ------------------------------
(***************************************************************************)
(* What StockLedgerService promises its callers, with no locks in sight:   *)
(* a transaction's operations happen all at once or not at all, each on    *)
(* the row the previous one left, and every movement enters the ledger     *)
(* with the balance it explains.                                           *)
(***************************************************************************)
EXTENDS StockBalance, Sequences

CONSTANTS Bins,   \* the (warehouse, product, variant, batch) keys
          Plans   \* the operation sequences a caller's transaction may run

VARIABLES rows,   \* stock_balance: one row per bin
          posted  \* per bin, SUM(quantity) over stock_ledger_entry

bookVars == <<rows, posted>>

Book == [ok : BOOLEAN, rows : [Bins -> Row], posted : [Bins -> Int]]

(* One operation of a plan.  A refused one fails the whole plan.           *)
Entered(book, op) ==
    IF book.ok /\ Accepts(book.rows[op.bin], op)
    THEN [ok     |-> TRUE,
          rows   |-> [book.rows   EXCEPT ![op.bin] = Performed(@, op)],
          posted |-> [book.posted EXCEPT ![op.bin] = @ + LedgerQuantity(op)]]
    ELSE [book EXCEPT !.ok = FALSE]

(* The book before the plan and after each of its operations.              *)
Pages(book, plan) ==
    LET page[i \in 0..Len(plan)] ==
            IF i = 0 THEN book ELSE Entered(page[i - 1], plan[i])
    IN page

Opened == [ok |-> TRUE, rows |-> rows, posted |-> posted]

Outcome(plan) == Pages(Opened, plan)[Len(plan)]

Init == rows = [b \in Bins |-> EmptyRow] /\ posted = [b \in Bins |-> 0]

Post(plan) ==
    /\ Outcome(plan).ok
    /\ rows'   = Outcome(plan).rows
    /\ posted' = Outcome(plan).posted

Next == \E plan \in Plans : Post(plan)

Spec == Init /\ [][Next]_bookVars
=============================================================================
