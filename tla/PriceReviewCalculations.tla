----------------------- MODULE PriceReviewCalculations -----------------------
(***************************************************************************)
(* analytics/price_review_calculations.py: when two prices may be compared, *)
(* what kind of movement it is and what it costs in a year; and the summary *)
(* of a review (price_review_summary.py).  Amounts are integers that count  *)
(* ten-thousandths; a percentage counts millionths (PERCENT_QUANTIZE).      *)
(***************************************************************************)
EXTENDS Decimals, SequencesExt

CONSTANT NULL          \* None

PercentUnit == 1000000

\* determine_comparison_basis.
ComparisonBasis(oldNorm, newNorm, oldUnit, newUnit) ==
  CASE oldNorm # NULL /\ newNorm # NULL /\ oldUnit = newUnit -> "normalized"
    [] oldNorm = NULL /\ newNorm = NULL -> "raw"
    [] OTHER -> "unit_mismatch"

PriceChange(old, new) == new - old

\* calculate_percentage_change: undefined from a price of zero.
PercentageChange(old, new) ==
  IF old = 0 THEN NULL ELSE RoundHalfEven((new - old) * PercentUnit, old)

AnnualImpact(change, quantity) == change * quantity

\* calculate_potential_cost_avoidance and calculate_actual_cost_avoidance.
CostAvoidance(requested, agreed, quantity) == (requested - agreed) * quantity

\* classify_movement_type, as calculate_line_movement calls it: of a matched line.
MovementType(packChanged, pct) ==
  CASE packChanged                              -> "pack_change"
    [] ~packChanged /\ pct = NULL               -> "review_required"
    [] ~packChanged /\ pct # NULL /\ pct > 0    -> "price_increase"
    [] ~packChanged /\ pct # NULL /\ pct < 0    -> "price_decrease"
    [] ~packChanged /\ pct = 0                  -> "no_change"

Within(bound, magnitude) == magnitude <= bound * (PercentUnit \div 100)

\* classify_risk, with its default thresholds of 2, 5 and 10 percent.
RiskClass(pct) ==
  IF pct = NULL THEN "unclassified"
  ELSE CASE Within(2, Abs(pct)) -> "low"
         [] Within(5, Abs(pct)) /\ ~Within(2, Abs(pct)) -> "medium"
         [] Within(10, Abs(pct)) /\ ~Within(5, Abs(pct)) -> "high"
         [] ~Within(10, Abs(pct)) -> "critical"

-----------------------------------------------------------------------------
(* Quantities and margins; NULL where the code refuses to answer.           *)

\* calculate_annualized_quantity, of a whole number of months.
AnnualizedQuantity(observed, months) ==
  IF months <= 0 THEN NULL
  ELSE [quantity |-> RoundHalfEven(observed * 12 * 10000, months),
        confidence |-> CASE months >= 12 -> "high"
                         [] months >= 6 /\ months < 12 -> "medium"
                         [] months < 6 -> "low"]

\* calculate_normalized_unit_price
NormalizedUnitPrice(price, baseQuantity) ==
  IF baseQuantity = 0 THEN NULL ELSE Quotient(price, baseQuantity)

\* calculate_gross_margin
GrossMargin(selling, cost) ==
  IF selling = 0 THEN NULL
  ELSE [profit |-> selling - cost, margin_pct |-> Quotient((selling - cost) * PercentUnit, selling)]

\* calculate_required_selling_price, of a margin in percent.
RequiredSellingPrice(cost, margin) ==
  IF margin >= 100 THEN NULL ELSE RoundHalfEven(100 * cost, 100 - margin)

-----------------------------------------------------------------------------
(* The summary of a review, of a sequence of lines [movement, pct, impact,  *)
(* quantity, pack_changed, requires_review].                                *)

Priced == {"price_increase", "price_decrease", "no_change", "pack_change"}

Weighed(lines) == SelectSeq(lines, LAMBDA l : l.pct # NULL /\ l.quantity # NULL /\ l.movement \in Priced)

\* weighted_average_increase, by quantity.
WeightedAverageIncrease(lines) ==
  LET weighed == Weighed(lines)
      weight  == Total([k \in DOMAIN weighed |-> weighed[k].quantity])
  IN  IF weight = 0 THEN NULL
      ELSE Quotient(Total([k \in DOMAIN weighed |-> weighed[k].pct * weighed[k].quantity]), weight)

Unmatched == {"new_product", "discontinued", "review_required"}

Count(lines, movements) == Len(SelectSeq(lines, LAMBDA l : l.movement \in movements))

\* summarize
Summary(lines) ==
  LET matched == Len(lines) - Count(lines, Unmatched)
      added   == Count(lines, {"new_product"})
      gone    == Count(lines, {"discontinued"})
  IN  [matched_skus |-> matched, new_skus |-> added, discontinued_skus |-> gone,
       unmatched_skus |-> Len(lines) - matched - added - gone,
       increasing_skus |-> Count(lines, {"price_increase"}),
       decreasing_skus |-> Count(lines, {"price_decrease"}),
       unchanged_skus |-> Count(lines, {"no_change"}),
       pack_changes |-> Len(SelectSeq(lines, LAMBDA l : l.pack_changed)),
       weighted_average_price_increase_pct |-> WeightedAverageIncrease(lines),
       annual_cost_impact |-> Total([k \in DOMAIN lines |-> IF lines[k].impact = NULL THEN 0 ELSE lines[k].impact]),
       products_requiring_manual_review |-> Len(SelectSeq(lines, LAMBDA l : l.requires_review))]

=============================================================================
