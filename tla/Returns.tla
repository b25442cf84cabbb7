------------------------------- MODULE Returns -------------------------------
(***************************************************************************)
(* The statutory returns (apps/api/src/modules/finance/                    *)
(* gst-returns.service.ts) of a supplier in one state, over the invoices   *)
(* and tax notes they are extracted from: drafting, issue with its         *)
(* classification, cancellation, notes, and a threshold that is a setting. *)
(* A month is a period of the returns; a document has one line, and its    *)
(* value stands for every head of it.                                      *)
(*                                                                         *)
(* Each operation is one step: races between requests are the matter of    *)
(* Billing and Receivables, as payments are of the latter.                 *)
(***************************************************************************)
EXTENDS Integers, FiniteSetsExt, Functions

CONSTANTS Bills, Notes,  \* identities of invoices and of tax notes
          Buyers,        \* [place, registered, primary] of a supply
          MaxValue,      \* bound on the value of a document
          Thresholds,    \* values the B2CL threshold is set to
          LastMonth,     \* bound on the months that pass
          MonthsInYear,
          NoDoc          \* an identity that is no row

ASSUME ReturnsAssumption ==
    /\ IsFiniteSet(Bills) /\ IsFiniteSet(Notes)
    /\ MaxValue \in Nat \ {0}
    /\ Thresholds \subseteq Nat /\ Thresholds # {}
    /\ LastMonth \in Nat \ {0}
    /\ MonthsInYear \in Nat \ {0}
    /\ Buyers \subseteq [place : {"HOME", "AWAY", "ABROAD"},
                         registered : BOOLEAN, primary : BOOLEAN]

VARIABLES bill,       \* invoice rows
          note,       \* tax_note rows
          threshold,  \* settings: finance.gst.b2clThreshold
          month,      \* the current one
          filed,      \* history: invoices in force when their year ended
          orphans     \* history: notes in draft when their invoice was cancelled

returnVars == <<bill, note, threshold, month, filed, orphans>>

Months    == 1..LastMonth
YearOf(m) == (m - 1) \div MonthsInYear
Values    == 1..MaxValue

Bill == [status : {"DRAFT", "ISSUED", "CANCELLED"}, place : {"HOME", "AWAY", "ABROAD"},
         registered : BOOLEAN, primary : BOOLEAN, value : Values, month : Months,
         class : {"B2B", "B2CL", "B2CS", "EXPORT"}, number : Nat]
Note == [status : {"DRAFT", "ISSUED"}, type : {"CREDIT", "DEBIT"}, of : Bills,
         value : Values, month : Months]

ASSUME NoDocAssumption == NoDoc \notin Bill \cup Note

ReturnInit ==
    /\ bill = [b \in Bills |-> NoDoc]
    /\ note = [n \in Notes |-> NoDoc]
    /\ threshold \in Thresholds
    /\ month = 1
    /\ filed = {}
    /\ orphans = {}

Rows          == {b \in Bills : bill[b] # NoDoc}
Drafted(b)    == b \in Rows /\ bill[b].status = "DRAFT"
Issued(b)     == b \in Rows /\ bill[b].status = "ISSUED"
NumberedBills == {b \in Rows : bill[b].status # "DRAFT"}

NoteRows     == {n \in Notes : note[n] # NoDoc}
IssuedNotes  == {n \in NoteRows : note[n].status = "ISSUED"}
NotesOn(b)   == {n \in IssuedNotes : note[n].of = b}
Signed(n)    == IF note[n].type = "CREDIT" THEN note[n].value ELSE -note[n].value
Adjustment(notes) == SumFunctionOnSet([n \in notes |-> Signed(n)], notes)
Credited(b)  == Adjustment(NotesOn(b))
Worth(docs)  == SumFunctionOnSet([b \in docs |-> bill[b].value], docs)

InterState(place) == place # "HOME"

(***************************************************************************)
(* Invoices                                                                *)
(***************************************************************************)
DraftBill(b, buyer, value, m) ==
    /\ bill[b] = NoDoc
    /\ bill' = [bill EXCEPT ![b] =
           [status |-> "DRAFT", place |-> buyer.place, registered |-> buyer.registered,
            primary |-> buyer.primary, value |-> value, month |-> m,
            class |-> IF buyer.registered THEN "B2B" ELSE "B2CS", number |-> 0]]
    /\ UNCHANGED <<note, threshold, month, filed, orphans>>

(* update() changes the date and the place of a draft.                     *)
EditBill(b, place, m) ==
    /\ Drafted(b)
    /\ bill' = [bill EXCEPT ![b].place = place, ![b].month = m]
    /\ UNCHANGED <<note, threshold, month, filed, orphans>>

RemoveBill(b) ==
    /\ Drafted(b)
    /\ bill' = [bill EXCEPT ![b] = NoDoc]
    /\ UNCHANGED <<note, threshold, month, filed, orphans>>

(* Mutant: whether there is a GSTIN is asked last.                         *)
ClassByPlace(row) ==
    IF row.place = "ABROAD" THEN "EXPORT"
    ELSE IF InterState(row.place) /\ row.value > threshold THEN "B2CL"
    ELSE IF row.registered THEN "B2B"
    ELSE "B2CS"

(* classifySupply(), by the setting of the day of issue.                   *)
SupplyType(row) ==
    IF row.place = "ABROAD" THEN "EXPORT"
    ELSE IF row.registered THEN "B2B"
    ELSE IF InterState(row.place) /\ row.value > threshold THEN "B2CL"
    ELSE "B2CS"

IssuedRow(row, m) ==
    [row EXCEPT !.status = "ISSUED", !.month = m, !.class = SupplyType(row),
                !.number = Cardinality(NumberedBills) + 1]

(* issue(): never a sell-out, never dated in the future; any earlier date  *)
(* will do.                                                                *)
IssueBill(b, m) ==
    /\ Drafted(b)
    /\ bill[b].primary
    /\ m <= month
    /\ bill' = [bill EXCEPT ![b] = IssuedRow(bill[b], m)]
    /\ UNCHANGED <<note, threshold, month, filed, orphans>>

(* cancel(): no issued note, and the year of the invoice is not over.      *)
CancelBill(b) ==
    /\ Issued(b)
    /\ NotesOn(b) = {}
    /\ YearOf(bill[b].month) = YearOf(month)
    /\ bill' = [bill EXCEPT ![b].status = "CANCELLED"]
    /\ orphans' = orphans \cup {n \in NoteRows : note[n].of = b}
    /\ UNCHANGED <<note, threshold, month, filed>>

(***************************************************************************)
(* Tax notes                                                               *)
(***************************************************************************)
(* create(): against an invoice that stands; a credit within what is left. *)
DraftNote(n, type, b, value, m) ==
    /\ note[n] = NoDoc
    /\ Issued(b)
    /\ type = "CREDIT" => value <= bill[b].value - Credited(b)
    /\ note' = [note EXCEPT ![n] =
           [status |-> "DRAFT", type |-> type, of |-> b, value |-> value, month |-> m]]
    /\ UNCHANGED <<bill, threshold, month, filed, orphans>>

RemoveNote(n) ==
    /\ n \in NoteRows \ IssuedNotes
    /\ note' = [note EXCEPT ![n] = NoDoc]
    /\ orphans' = orphans \ {n}
    /\ UNCHANGED <<bill, threshold, month, filed>>

(* issue(): the invoice is not looked at again; the CHECK on its           *)
(* settlement is.                                                          *)
IssueNote(n, m) ==
    /\ n \in NoteRows \ IssuedNotes
    /\ Credited(note[n].of) + Signed(n) <= bill[note[n].of].value
    /\ note' = [note EXCEPT ![n].status = "ISSUED", ![n].month = m]
    /\ UNCHANGED <<bill, threshold, month, filed, orphans>>

(***************************************************************************)
(* Time and settings                                                       *)
(***************************************************************************)
SetThreshold(value) ==
    /\ threshold' = value
    /\ UNCHANGED <<bill, note, month, filed, orphans>>

(* When a year is over, its returns are filed.                             *)
NextMonth ==
    /\ month < LastMonth
    /\ month' = month + 1
    /\ filed' = filed \cup {b \in Bills : Issued(b) /\ YearOf(bill[b].month) < YearOf(month')}
    /\ UNCHANGED <<bill, note, threshold, orphans>>

ReturnNext ==
    \/ \E b \in Bills, m \in Months :
           \/ \E buyer \in Buyers, value \in Values : DraftBill(b, buyer, value, m)
           \/ \E place \in {"HOME", "AWAY", "ABROAD"} : EditBill(b, place, m)
           \/ IssueBill(b, m)
    \/ \E b \in Bills : RemoveBill(b) \/ CancelBill(b)
    \/ \E n \in Notes, m \in Months :
           \/ \E type \in {"CREDIT", "DEBIT"}, b \in Bills, value \in Values :
                  DraftNote(n, type, b, value, m)
           \/ IssueNote(n, m)
    \/ \E n \in Notes : RemoveNote(n)
    \/ \E value \in Thresholds : SetThreshold(value)
    \/ NextMonth

ReturnSpec == ReturnInit /\ [][ReturnNext]_returnVars

(***************************************************************************)
(* GSTR-1 of a month                                                       *)
(***************************************************************************)
(* periodWhere(); a sell-out is excluded here and at its issue.            *)
InPeriod(m) == {b \in NumberedBills : bill[b].month = m /\ bill[b].primary}
Excluded(m) == {b \in NumberedBills : bill[b].month = m /\ ~bill[b].primary}
InForce(m)  == {b \in InPeriod(m) : bill[b].status # "CANCELLED"}
Adjusting(m) == {n \in IssuedNotes : note[n].month = m /\ bill[note[n].of].primary}

B2b(m)  == {b \in InForce(m) : bill[b].class = "B2B" /\ bill[b].registered}
B2cl(m) == {b \in InForce(m) : bill[b].class = "B2CL"}

(* Table 7 is consolidated by place of supply.                             *)
B2cs(m) ==
    LET small == {b \in InForce(m) : bill[b].class = "B2CS"}
    IN [place \in {bill[b].place : b \in small} |->
           Worth({b \in small : bill[b].place = place})]

Cdnr(m) == {n \in Adjusting(m) : bill[note[n].of].registered}

(* Tables 12 and 13, and the summary.                                      *)
Hsn(m)        == Worth(InForce(m))
DocsIssued(m) == [total     |-> Cardinality(InPeriod(m)),
                  cancelled |-> Cardinality(InPeriod(m) \ InForce(m))]
Summary(m)    == [invoices |-> Cardinality(InForce(m)), value |-> Worth(InForce(m)),
                  excluded |-> Cardinality(Excluded(m))]

(***************************************************************************)
(* GSTR-3B of a month                                                      *)
(***************************************************************************)
(* The status the spread of periodWhere() brings is overwritten.           *)
Declared(m) == {b \in Rows : /\ bill[b].month = m /\ bill[b].primary
                             /\ bill[b].status # "CANCELLED"}

Outward(m) == Worth(Declared(m)) - Adjustment(Adjusting(m))

(* Table 3.2.                                                              *)
Unregistered(m) ==
    LET sold == {b \in Declared(m) : ~bill[b].registered /\ InterState(bill[b].place)}
    IN [place \in {bill[b].place : b \in sold} |->
           Worth({b \in sold : bill[b].place = place})]

(***************************************************************************)
(* Properties                                                              *)
(***************************************************************************)
SumOf(table, places) == SumFunctionOnSet(table, places \cap DOMAIN table)

Exports(m) == {b \in InForce(m) : bill[b].class = "EXPORT"}

(* Each invoice of a month is in one section of GSTR-1, a registered       *)
(* buyer's in the one they take their credit from; exports are in none.    *)
SectionsCover(m) ==
    /\ \A b \in InForce(m) \ Exports(m) : bill[b].registered => b \in B2b(m)
    /\ Hsn(m) = Worth(B2b(m)) + Worth(B2cl(m)) + Worth(Exports(m))
                + SumOf(B2cs(m), DOMAIN B2cs(m))
    /\ Summary(m).excluded = 0

(* Without drafts in the month, the two returns declare the same.          *)
ReturnsAgree(m) ==
    (\A b \in Bills : Drafted(b) => bill[b].month # m \/ ~bill[b].primary) =>
        /\ Outward(m) = Summary(m).value - Adjustment(Adjusting(m))
        /\ SumOf(Unregistered(m), {"AWAY"}) = Worth(B2cl(m)) + SumOf(B2cs(m), {"AWAY"})

(* "A report and a filing that disagree is worse than either"              *)
(* (reports.service.ts:41): the sections of GSTR-1 add up to its summary   *)
(* and to GSTR-3B; over all months table 13 counts every number of the     *)
(* series, the cancelled ones too; an invoice of a year that was filed is  *)
(* still in force; and what notes take off an invoice never exceeds it,    *)
(* nor stands against a cancelled one, except by a note that was already   *)
(* in draft when the invoice was cancelled.                                *)
ReturnsReconcile ==
    /\ \A m \in Months : SectionsCover(m) /\ ReturnsAgree(m)
    /\ SumFunction([m \in Months |-> DocsIssued(m).total]) = Cardinality(NumberedBills)
    /\ \A b \in filed : Issued(b)
    /\ \A b \in NumberedBills : Credited(b) <= bill[b].value
    /\ \A n \in IssuedNotes : Issued(note[n].of) \/ n \in orphans

(* "DRAFT is excluded (it is not a document yet)"                          *)
(* (gst-returns.service.ts:563, "the period filter every section shares"): *)
(* no liability is declared for an invoice that was never issued.          *)
LiabilityCountsNoDraft ==
    \A m \in Months : \A b \in Declared(m) : ~Drafted(b)
=============================================================================
