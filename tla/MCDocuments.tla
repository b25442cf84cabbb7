----------------------------- MODULE MCDocuments -----------------------------
(* Five slices of the documents of a sale for TLC: the quotation and its   *)
(* conversion; the price of a line; the drafts and invoices of an order    *)
(* line; one invoice with the acts on the ledger that have no document;    *)
(* and the returns, over three documents at once.  The slices share no     *)
(* state and are checked in one run, on shared model values.  Requests,    *)
(* keys, bodies and documents are interchangeable.                         *)
EXTENDS Conversion, Billing, MCPrices, MCReturns

VARIABLE slice

Slices == {"CONVERSION", "PRICES", "INVOICES", "LEDGER", "RETURNS"}

InSlice(kind) ==
    \/ slice = "INVOICES" /\ kind \notin {"WRITE_OFF", "OPENING"}
    \/ slice = "LEDGER" /\ kind \notin {"UPDATE", "REMOVE"}

(* In the third slice one invoice is never drafted.                        *)
OneIsSpare ==
    \E i \in Invoices : Is(i, "NONE") /\ \A c \in Clerks :
        task[c] # NoTask => task[c].invoice # i

(* Where prices and settings do not matter, one state of them is enough.   *)
MCInit ==
    /\ Init /\ BillingInit /\ PriceInit /\ ReturnInit
    /\ slice \in Slices
    /\ slice # "PRICES" => rules = {} /\ list = CHOOSE l \in PriceLists : TRUE
    /\ slice # "RETURNS" => threshold = CHOOSE t \in Thresholds : TRUE

MCNext ==
    /\ UNCHANGED slice
    /\ \/ slice = "CONVERSION" /\ Next /\ UNCHANGED <<billingVars, priceVars, returnVars>>
       \/ slice = "PRICES" /\ PriceNext /\ UNCHANGED <<vars, billingVars, returnVars>>
       \/ /\ slice \in {"INVOICES", "LEDGER"}
          /\ BillingNext /\ UNCHANGED <<vars, priceVars, returnVars>>
          /\ \A c \in Clerks : task'[c] # NoTask => InSlice(task'[c].kind)
          /\ slice = "LEDGER" => OneIsSpare'
       \/ /\ slice = "RETURNS"
          /\ ReturnNext /\ UNCHANGED <<vars, billingVars, priceVars>>
          /\ Cardinality(Rows') + Cardinality(NoteRows') <= 3

MCSpec == MCInit /\ [][MCNext]_<<vars, billingVars, priceVars, returnVars, slice>>

Symmetry == Permutations(Calls) \cup Permutations(Keys) \cup Permutations(Bodies)
            \cup Permutations(Invoices)
=============================================================================
