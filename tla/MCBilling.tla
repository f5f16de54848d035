------------------------------ MODULE MCBilling -------------------------------
(***************************************************************************)
(* Billing for TLC: two offers with prices that tell them apart, and the   *)
(* arithmetic of prices for every edit of them by up to two more lines.    *)
(***************************************************************************)
EXTENDS Billing, TLC

\* One unit of something, at the category's markup.
Line(category, cents) ==
    NormalizeLineItem(
       [category |-> category, quantity |-> None, unitCost |-> cents,
        markupType |-> None, markupValue |-> None], None)

Offer(lines, taxRate) ==
    [lineItems |-> lines, taxRate |-> taxRate,
     depositType |-> "percent", depositValue |-> 50 * Percent]

TwoOffers ==
    {Offer(<<Line("labor", 4), Line("materials", 3)>>, 10 * Percent),
     Offer(<<Line("materials", 9)>>, 0)}

\* Costs of half a cent on both sides of zero, and credits.
Lines ==
    [category : {"labor", "travel"}, quantity : {33, 150}, unitCost : {1, -335},
     markupType : {"percent", "fixed"}, markupValue : {3333}]

MoreLines == {<< >>} \cup {<<x>> : x \in Lines} \cup (Lines \X Lines)

EditsOf(offer) ==
    {[lineItems |-> offer.lineItems \o more, taxRate |-> rate,
      depositType |-> type, depositValue |-> value] :
        more \in MoreLines, rate \in {0, 825}, type \in {"percent", "fixed"},
        value \in {3333, 100 * Percent}}

SomeEdits == [offer \in TwoOffers |-> EditsOf(offer)]

MarkupChanges == {-1000, 0, 1000}

\* A bound: nothing is followed any further once a member has left, which only
\* stops her from clocking in and is the business of MCTimeTracking.
MembersStay == DOMAIN rates = Users
===============================================================================
