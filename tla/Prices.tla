-------------------------------- MODULE Prices -------------------------------
(***************************************************************************)
(* The price of one line, from the quotation by way of the order to its    *)
(* invoices (modules/pricing, catalog/price-lists.service.ts, catalog/     *)
(* pricing-rules.service.ts, sales-pricing.helper.ts and the callers of    *)
(* the engine), while the price list, the discount rules and the tax rates *)
(* change.  A unit price is a fraction n / d of the stored smallest unit,  *)
(* a ten-thousandth of a rupee; the figures of a line are in paise.        *)
(*                                                                         *)
(* Each operation is one step: races are the matter of Conversion, Orders  *)
(* and Billing.  The rules are those whose target matches the product; a   *)
(* rule or list out of its validity dates is one that is not active.       *)
(***************************************************************************)
EXTENDS Money, Sequences, FiniteSetsExt

CONSTANTS PriceLists,   \* the slabs a list may hold: minimum quantity -> price
          Rules,        \* discount rules
          TaxChoices,   \* [rate, cess] a tax rate may state, in percent
          SnapshotRate, \* the rate of the product, where no tax rate covers
          Quantities,   \* quantities of a line
          OverridePrices, \* unit prices a line may be overridden with
          LastDay,      \* bound on the days that pass
          MaxChanges,   \* bound on how often lists, rules and rates change
          NoLine, NoRule, NoOverride, NoCap, OpenEnded

Percentages == 0..100
RuleRows == [code : Nat, kind : {"PERCENT", "FLAT"}, value : Nat, scope : Nat, priority : Nat,
             minQty : Nat, minAmount : Nat, cap : Nat \cup {NoCap}]

(* A code is unique, and no percentage is above a hundred.                 *)
ASSUME PricesAssumption ==
    /\ \A priced \in PriceLists :
           /\ DOMAIN priced \subseteq Nat \ {0} /\ DOMAIN priced # {}
           /\ \A m \in DOMAIN priced : priced[m] \in Nat
    /\ Rules \subseteq RuleRows /\ IsFiniteSet(Rules) /\ NoRule \notin Rules
    /\ \A r \in Rules : r.kind = "PERCENT" => r.value <= 100
    /\ \A r, s \in Rules : r.code = s.code => r = s
    /\ TaxChoices \subseteq [rate : Percentages, cess : Percentages]
    /\ SnapshotRate \in Percentages
    /\ Quantities \subseteq Nat \ {0}
    /\ OverridePrices \subseteq Nat
    /\ LastDay \in Nat \ {0}
    /\ MaxChanges \in Nat

Supplies == {"INTRA", "INTER"}
PerPaisa == 100   \* stored units in a paisa

VARIABLES today, list, rules,
          taxRates,   \* tax_rate rows of the product's HSN code
          quoted,     \* the line of the accepted quotation
          ordered,    \* the line of the order
          approved,   \* the order is past DRAFT
          billed,     \* the lines billed, in order
          changes     \* history: how often lists, rules and rates changed

marketVars == <<today, list, rules, taxRates, changes>>
saleVars   == <<quoted, ordered, approved, billed>>
priceVars  == <<marketVars, saleVars>>

PriceInit ==
    /\ today = 1
    /\ list \in PriceLists
    /\ rules \in SUBSET Rules
    /\ taxRates = {}
    /\ quoted = NoLine
    /\ ordered = NoLine
    /\ approved = FALSE
    /\ billed = <<>>
    /\ changes = 0

(***************************************************************************)
(* The engine                                                              *)
(***************************************************************************)
(* resolveSlab(): the highest minimum that the quantity reaches.           *)
HasPrice(quantity) == \E m \in DOMAIN list : m <= quantity
ListPrice(quantity) == list[Max({m \in DOMAIN list : m <= quantity})]

Eligible(listed, quantity) ==
    {r \in rules : r.minQty <= quantity /\ r.minAmount <= listed * quantity}

(* Lower priority, then the more specific scope, then the code.            *)
Outranks(r, s) ==
    \/ r.priority < s.priority
    \/ r.priority = s.priority /\ r.scope < s.scope
    \/ r.priority = s.priority /\ r.scope = s.scope /\ r.code < s.code

(* selectDiscount(): exactly one rule wins; rules do not stack.            *)
Winner(listed, quantity) ==
    LET found == Eligible(listed, quantity) IN
        IF found = {} THEN NoRule
        ELSE CHOOSE r \in found : \A s \in found \ {r} : Outranks(r, s)

(* A rule takes its percentage, or its amount, off each unit: never more   *)
(* than the price itself.                                                  *)
TakenOff(rule, listed) ==
    LET n == IF rule.kind = "PERCENT" THEN listed * (100 - rule.value)
                                      ELSE 100 * (listed - rule.value)
    IN [n |-> IF n < 0 THEN 0 ELSE n, d |-> 100]

(* Mutant: the cap is taken for each unit.                                 *)
CappedPerUnit(rule, listed, quantity, unit) ==
    IF rule.cap # NoCap /\ listed * unit.d - unit.n > rule.cap * unit.d
    THEN [n |-> listed - rule.cap, d |-> 1] ELSE unit

(* The cap is on the give-away of the whole line.                          *)
Capped(rule, listed, quantity, unit) ==
    IF rule.cap # NoCap /\ (listed * unit.d - unit.n) * quantity > rule.cap * unit.d
    THEN [n |-> listed * quantity - rule.cap, d |-> quantity] ELSE unit

(* Steps 3 and 4: one discount, or the price the caller insists on.        *)
UnitPrice(listed, quantity, override) ==
    LET rule == Winner(listed, quantity) IN
        IF override # NoOverride THEN [n |-> override, d |-> 1]
        ELSE IF rule = NoRule THEN [n |-> listed, d |-> 1]
        ELSE Capped(rule, listed, quantity, TakenOff(rule, listed))

(* resolveTaxRate(): the latest row that covers the day.                   *)
Covering(day) ==
    {t \in taxRates : t.from <= day /\ (t.to = OpenEnded \/ day <= t.to)}

RateOn(day) ==
    IF Covering(day) = {} THEN [rate |-> SnapshotRate, cess |-> 0]
    ELSE LET row == CHOOSE t \in Covering(day) : \A s \in Covering(day) : s.from <= t.from
         IN [rate |-> row.rate, cess |-> row.cess]

(* GstCalculator.computeLine(): every figure is rounded to the paisa on    *)
(* its own; the two halves of an intra-state supply are the same sum.      *)
Percent(value, rate) == RoundHalfUp(value.n * rate, value.d * 100 * PerPaisa)
HalfPercent(value, rate) == RoundHalfUp(value.n * rate, 2 * value.d * 100 * PerPaisa)

Taxed(value, tax, supply) ==
    LET inter == supply = "INTER"
        half  == IF inter THEN 0 ELSE HalfPercent(value, tax.rate)
    IN [taxable |-> RoundHalfUp(value.n, value.d * PerPaisa),
        cgst |-> half, sgst |-> half,
        igst |-> IF inter THEN Percent(value, tax.rate) ELSE 0,
        cess |-> Percent(value, tax.cess)]

Times(unit, quantity) == [n |-> unit.n * quantity, d |-> unit.d]

(* quote() and the snapshot of toSnapshot(); unit is not yet rounded to    *)
(* the column's scale.                                                     *)
Priced(quantity, override, supply, day) ==
    LET listed == ListPrice(quantity)
        unit   == UnitPrice(listed, quantity, override)
    IN [quantity |-> quantity, override |-> override, supply |-> supply, day |-> day,
        listed |-> listed, unit |-> unit, tax |-> RateOn(day),
        candidates |-> Eligible(listed, quantity),
        figures |-> Taxed(Times(unit, quantity), RateOn(day), supply)]

Net(f) == f.taxable + f.cgst + f.sgst + f.igst + f.cess

(* roundToWhole(), of a document with this one line.                       *)
Grand(f) == 100 * RoundHalfUp(Net(f), 100)

(***************************************************************************)
(* Quotation and order                                                     *)
(***************************************************************************)
Quote(quantity, override, supply) ==
    /\ quoted = NoLine
    /\ ordered = NoLine
    /\ HasPrice(quantity)
    /\ quoted' = Priced(quantity, override, supply, today)
    /\ UNCHANGED <<marketVars, ordered, approved, billed>>

(* create(), of an order that had no quotation.                            *)
PlaceOrder(quantity, override, supply) ==
    /\ quoted = NoLine
    /\ ordered = NoLine
    /\ HasPrice(quantity)
    /\ ordered' = Priced(quantity, override, supply, today)
    /\ UNCHANGED <<marketVars, quoted, approved, billed>>

(* createFromQuotation(): product and quantity go back into the engine,    *)
(* the override does not.                                                  *)
Convert ==
    /\ quoted # NoLine
    /\ ordered = NoLine
    /\ HasPrice(quoted.quantity)
    /\ ordered' = Priced(quoted.quantity, NoOverride, quoted.supply, today)
    /\ UNCHANGED <<marketVars, quoted, approved, billed>>

(* OrdersService.update(): priced again, as of the order's date.           *)
Reprice(override) ==
    /\ ordered # NoLine
    /\ ~approved
    /\ HasPrice(ordered.quantity)
    /\ ordered' = Priced(ordered.quantity, override, ordered.supply, ordered.day)
    /\ UNCHANGED <<marketVars, quoted, approved, billed>>

(* submit() and approve(): from here on update() refuses, and billing is   *)
(* allowed.                                                                *)
Approve ==
    /\ ordered # NoLine
    /\ ~approved
    /\ approved' = TRUE
    /\ UNCHANGED <<marketVars, quoted, ordered, billed>>

(***************************************************************************)
(* Invoices                                                                *)
(***************************************************************************)
BilledSoFar == SumFunctionOnSet([i \in 1..Len(billed) |-> billed[i].quantity], 1..Len(billed))

(* The column holds four decimals.                                         *)
StoredUnit(line) == RoundHalfUp(line.unit.n, line.unit.d)

(* orderLineToDraft(): taxed again, from the stored unit price; no cess.   *)
DraftFigures(line, quantity) ==
    Taxed([n |-> StoredUnit(line) * quantity, d |-> 1],
          [rate |-> line.tax.rate, cess |-> 0],
          IF line.figures.igst > 0 THEN "INTER" ELSE "INTRA")

BillPart(quantity) ==
    /\ approved
    /\ BilledSoFar + quantity <= ordered.quantity
    /\ billed' = Append(billed, [quantity |-> quantity,
                                 figures  |-> DraftFigures(ordered, quantity)])
    /\ UNCHANGED <<marketVars, quoted, ordered, approved>>

(***************************************************************************)
(* What the figures are resolved from                                      *)
(***************************************************************************)
NextDay ==
    /\ today < LastDay
    /\ today' = today + 1
    /\ UNCHANGED <<list, rules, taxRates, changes, saleVars>>

Changed == changes < MaxChanges /\ changes' = changes + 1

(* upsertItems() on the live list, or the publication of its successor.    *)
RevisePrices(revised) ==
    /\ Changed
    /\ revised # list
    /\ list' = revised
    /\ UNCHANGED <<today, rules, taxRates, saleVars>>

(* createDiscountRule(), setDiscountRuleActive(), removeDiscountRule().    *)
SwitchRule(rule) ==
    /\ Changed
    /\ rules' = (rules \ {rule}) \cup ({rule} \ rules)
    /\ UNCHANGED <<today, list, taxRates, saleVars>>

(* createTaxRate(): closes the open row the day before, never edits one.   *)
Supersede(tax, from) ==
    LET open == {t \in taxRates : t.to = OpenEnded} IN
    /\ Changed
    /\ \A t \in taxRates : t.from # from
    /\ \A t \in open : t.from < from
    /\ taxRates' = (taxRates \ open)
                   \cup {[t EXCEPT !.to = from - 1] : t \in open}
                   \cup {[rate |-> tax.rate, cess |-> tax.cess, from |-> from, to |-> OpenEnded]}
    /\ UNCHANGED <<today, list, rules, saleVars>>

PriceNext ==
    \/ \E quantity \in Quantities, override \in OverridePrices \cup {NoOverride},
          supply \in Supplies :
           Quote(quantity, override, supply) \/ PlaceOrder(quantity, override, supply)
    \/ Convert
    \/ \E override \in OverridePrices \cup {NoOverride} : Reprice(override)
    \/ Approve
    \/ \E quantity \in 1..Max(Quantities) : BillPart(quantity)
    \/ NextDay
    \/ \E revised \in PriceLists : RevisePrices(revised)
    \/ \E rule \in Rules : SwitchRule(rule)
    \/ \E tax \in TaxChoices, from \in 1..LastDay : Supersede(tax, from)

PriceSpec == PriceInit /\ [][PriceNext]_priceVars

(***************************************************************************)
(* Properties                                                              *)
(***************************************************************************)
Lines == {quoted, ordered} \ {NoLine}

(* What a line gives away, times the denominator of its unit price.        *)
GivenAway(line) == (line.listed * line.unit.d - line.unit.n) * line.quantity

DiscountIsOneRule(line) ==
    \/ GivenAway(line) = 0
    \/ \E r \in line.candidates :
           /\ r.cap = NoCap \/ GivenAway(line) <= r.cap * line.unit.d
           /\ TakenOff(r, line.listed).n * line.unit.d <= line.unit.n * 100

TaxesAddUp(line) ==
    LET f == line.figures
        other == Taxed(Times(line.unit, line.quantity), line.tax,
                       IF line.supply = "INTRA" THEN "INTER" ELSE "INTRA")
    IN /\ Magnitude(Net(f) - Net(other)) <= 1
       /\ Magnitude(Grand(f) - Net(f)) <= 50

Total(head) == SumFunctionOnSet([i \in 1..Len(billed) |-> billed[i].figures[head]],
                                 1..Len(billed))

(* Half a paisa for each rounding; nothing where none was needed.          *)
InvoicesFollowTheOrder ==
    approved /\ BilledSoFar = ordered.quantity =>
        \A head \in {"taxable", "cgst", "sgst", "igst"} :
            LET gap == Magnitude(Total(head) - ordered.figures[head]) IN
            /\ 200 * gap <= 100 * (Len(billed) + 1) + ordered.quantity
            /\ Len(billed) = 1 /\ ordered.unit.n % ordered.unit.d = 0 => gap = 0

(* A price can be defended at a margin review (discount-resolver.ts,       *)
(* pricing.service.ts): unless it was overridden, a line gives away no     *)
(* more than some single eligible rule allows it - its percentage or its   *)
(* amount, and its cap on the whole line - and never more than the price.  *)
(* Its tax is the same to the paisa whatever the place of supply, and the  *)
(* rounding of a document moves it by half a rupee at most.  "A quote and  *)
(* the invoice it becomes must never disagree" (pricing.service.ts:31):    *)
(* whatever the prices, rules and rates become after approval, and in      *)
(* whatever parts the order is billed, each head of its invoices, the cess *)
(* apart, adds up to the order's but for the roundings of the parts.       *)
PricesAreDefensible ==
    /\ \A line \in Lines :
           /\ line.unit.n >= 0
           /\ line.override = NoOverride => DiscountIsOneRule(line)
           /\ TaxesAddUp(line)
    /\ InvoicesFollowTheOrder

(* "Converting a quotation to an order re-runs the engine and shows the    *)
(* difference if anything moved; it does not quietly adopt new numbers"    *)
(* (docs/adr/0011, line 48): an order that was converted and not edited    *)
(* has the figures of the quotation its customer accepted.                 *)
ConversionKeepsTheNumbers ==
    [][Convert => ordered'.figures = quoted.figures]_priceVars
=============================================================================
