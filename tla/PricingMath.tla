----------------------------- MODULE PricingMath ------------------------------
(***************************************************************************)
(* What an estimate comes to (services/estimateCalculations.js), what part *)
(* of it is labor (services/timeTrackingCalculations.js), and what a line  *)
(* item is filled in with (normalizeLineItem in models/Estimate.js).       *)
(*                                                                         *)
(* Money is counted in cents, quantities in hundredths, markup and tax     *)
(* rates in hundredths of a percent; what the code adds up is rounded to   *)
(* cents already, so its sums are sums of integers.  The code's floating   *)
(* point is taken as exact: where an amount is half a cent up to an error  *)
(* of representation, the code may round it the other way.                 *)
(*                                                                         *)
(* A definition named ...Fault is the definition that follows it with a    *)
(* plausible mistake in it, which the properties are expected to notice.   *)
(***************************************************************************)
EXTENDS Integers, Sequences, Functions

Categories ==
    {"materials", "labor", "equipment", "subcontract", "travel", "other"}

MarkupTypes == {"percent", "fixed"}
DepositTypes == {"percent", "fixed", "none"}    \* "none" is null in the code

Percent == 100      \* hundredths of a percent in a percent

\* DEFAULT_MARKUP_PERCENT_BY_CATEGORY
DefaultMarkup ==
    [materials |-> 30 * Percent, labor |-> 50 * Percent,
     equipment |-> 20 * Percent, subcontract |-> 15 * Percent,
     travel |-> 0, other |-> 20 * Percent]

\* What normalizeLineItem lets through: a number is any number, also below 0.
LineItems ==
    [category : Categories, quantity : Int, unitCost : Int,
     markupType : MarkupTypes, markupValue : Int]

\* The part of an estimate its totals are computed from, as EstimateRepository
\* stores it; a depositValue of null counts as 0.
Offers ==
    [lineItems : Seq(LineItems), taxRate : Int,
     depositType : DepositTypes, depositValue : Int]

\* normalizeLineItem: `absent` stands for a field the request leaves out.
NormalizeLineItem(li, absent) ==
    LET category == IF li.category = absent THEN "materials" ELSE li.category
    IN [category |-> category,
        quantity |-> IF li.quantity = absent THEN 100 ELSE li.quantity,
        unitCost |-> IF li.unitCost = absent THEN 0 ELSE li.unitCost,
        markupType |->
           IF li.markupType = absent THEN "percent" ELSE li.markupType,
        markupValue |->
           IF li.markupValue = absent THEN DefaultMarkup[category]
                                      ELSE li.markupValue]

-----------------------------------------------------------------------------
(* One line                                                                  *)

\* round2 of n/d cents: to the nearest cent, a half up.
Round2(n, d) == (2 * n + d) \div (2 * d)

Cost(li) == Round2(li.quantity * li.unitCost, 100)

\* A fixed markup is for the whole line, whatever its quantity.
MarkupAmount(li) ==
    IF li.markupType = "fixed" THEN li.markupValue
    ELSE Round2(Cost(li) * li.markupValue, 100 * Percent)

PriceFault(li) ==   \* the price is computed from the unrounded cost
    IF li.markupType = "fixed" THEN Cost(li) + li.markupValue
    ELSE Round2(li.quantity * li.unitCost * (100 * Percent + li.markupValue),
                100 * 100 * Percent)

Price(li) == Cost(li) + MarkupAmount(li)

-----------------------------------------------------------------------------
(* The whole estimate                                                        *)

\* The lines as calculateLineItem resolves them, a column at a time.
Costs(lines) == [i \in DOMAIN lines |-> Cost(lines[i])]
MarkupAmounts(lines) == [i \in DOMAIN lines |-> MarkupAmount(lines[i])]
LinePrices(lines) == [i \in DOMAIN lines |-> Price(lines[i])]

TotalCost(lines) == SumFunction(Costs(lines))
TotalMarkup(lines) == SumFunction(MarkupAmounts(lines))
SubtotalPrice(lines) == TotalCost(lines) + TotalMarkup(lines)

TaxAmount(offer) ==
    Round2(SubtotalPrice(offer.lineItems) * offer.taxRate, 100 * Percent)

TotalPrice(offer) == SubtotalPrice(offer.lineItems) + TaxAmount(offer)

\* calculateDeposit: never more than the total, when it is a fixed amount.
Deposit(offer) ==
    CASE offer.depositType = "percent" ->
            Round2(TotalPrice(offer) * offer.depositValue, 100 * Percent)
      [] offer.depositType = "fixed" ->
            IF offer.depositValue < TotalPrice(offer)
            THEN offer.depositValue ELSE TotalPrice(offer)
      [] OTHER -> 0

BalanceDue(offer) == TotalPrice(offer) - Deposit(offer)

\* The price of the lines in some of the categories.
PriceOf(lines, categories) ==
    SumFunctionOnSet(LinePrices(lines),
                     {i \in DOMAIN lines : lines[i].category \in categories})

\* byCategory[c].price, for each category
ByCategory(lines) == [c \in Categories |-> PriceOf(lines, {c})]

LaborPrice(offer) == PriceOf(offer.lineItems, {"labor"})

NonLaborPrice(offer) == PriceOf(offer.lineItems, Categories \ {"labor"})

\* projectMarkupChange: every percent markup moved by delta, not below 0.
ProjectMarkupChange(offer, delta) ==
    [offer EXCEPT !.lineItems =
        [i \in DOMAIN offer.lineItems |->
           LET li == offer.lineItems[i] IN
           IF li.markupType = "fixed" THEN li
           ELSE [li EXCEPT !.markupValue =
                    IF @ + delta < 0 THEN 0 ELSE @ + delta]]]

-----------------------------------------------------------------------------
(* What must hold of every offer                                             *)

\* What the customer sees adds up to the cent, although cost, markup, tax and
\* deposit are each rounded on their own: the lines' prices and the categories'
\* prices both come to the subtotal, labor, the rest and the tax share the
\* total, and a deposit of at most all of it leaves a balance that is not
\* negative.
AddsUp(offer) ==
    LET lines == offer.lineItems IN
    /\ SumFunction(LinePrices(lines)) = SubtotalPrice(lines)
    /\ SumFunction(ByCategory(lines)) = SubtotalPrice(lines)
    /\ LaborPrice(offer) + NonLaborPrice(offer) + TaxAmount(offer)
          = TotalPrice(offer)
    /\ /\ TotalPrice(offer) >= 0
       /\ offer.depositValue >= 0
       /\ offer.depositType = "percent" => offer.depositValue <= 100 * Percent
       => Deposit(offer) >= 0 /\ BalanceDue(offer) >= 0

PercentLines(offer) ==
    {i \in DOMAIN offer.lineItems : offer.lineItems[i].markupType = "percent"}

\* A discount is never a surcharge: projecting a smaller markup never shows a
\* higher total, as long as no line with a percent markup is a credit and the
\* tax takes no more than all of it back.  Projecting no change shows the
\* estimate's own total, as long as no percent markup is below zero already.
ProjectsInOrder(offer, deltas) ==
    /\ (\A i \in PercentLines(offer) : offer.lineItems[i].markupValue >= 0)
          => TotalPrice(ProjectMarkupChange(offer, 0)) = TotalPrice(offer)
    /\ /\ \A i \in PercentLines(offer) : Cost(offer.lineItems[i]) >= 0
       /\ offer.taxRate >= -100 * Percent
       => \A a, b \in deltas :
             a <= b => TotalPrice(ProjectMarkupChange(offer, a))
                          <= TotalPrice(ProjectMarkupChange(offer, b))
===============================================================================
