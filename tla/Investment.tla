------------------------------- MODULE Investment -------------------------------
(***************************************************************************)
(* analytics/capital_investment: the appraisal of a project by the flows of  *)
(* its years, the first of which is the outlay.  Money counts                *)
(* ten-thousandths, a rate whole percent.  Sums of discounted flows are kept *)
(* as exact numerators over a common denominator, so that nothing is rounded *)
(* before the code rounds it.  Refused is a ValueError, NULL is None.        *)
(***************************************************************************)
EXTENDS Decimals, SequencesExt

CONSTANTS NULL, Refused

\* _npv_at_rate for 1 + rate = n / d, times n ^ (Len(flows) - 1).
Discounted(n, d, flows) ==
  Total([k \in DOMAIN flows |-> flows[k] * d ^ (k - 1) * n ^ (Len(flows) - k)])

\* calculate_npv
Npv(rate, flows) ==
  IF rate <= 0 THEN Refused
  ELSE RoundHalfEven(Discounted(100 + rate, 100, flows), (100 + rate) ^ (Len(flows) - 1))

\* _count_sign_changes
SignChanges(flows) ==
  LET nonzero == SelectSeq(flows, LAMBDA cf : cf # 0)
  IN  Cardinality({k \in 2 .. Len(nonzero) : (nonzero[k] > 0) # (nonzero[k - 1] > 0)})

\* calculate_irr answers: one sign change, and a root between -99.99% and 10000%.  (The
\* bisection that then finds it is not modelled.)
HasIrr(flows) ==
  LET low  == Discounted(1, 10000, flows)
      high == Discounted(101, 1, flows)
  IN  SignChanges(flows) = 1 /\ ~(low > 0 /\ high > 0) /\ ~(low < 0 /\ high < 0)

\* The sum of the discounted flows of the first k years, over a positive number.
Cumulative(rate, flows, k) ==
  IF k = 0 THEN 0 ELSE Discounted(100 + rate, 100, SubSeq(flows, 1, k))

\* What is left to recover before year k, as a part of what year k brings.
Payback(rate, flows, k) ==
  [years |-> k - 2, part |-> -Cumulative(rate, flows, k - 1) * (100 + rate),
   of |-> flows[k] * 100 ^ (k - 1)]

\* Mutant: a project that recovers its outlay and no more has not paid back.
DiscountedPayback_Strict(rate, flows) ==
  LET crossed == {k \in 2 .. Len(flows) : /\ Cumulative(rate, flows, k - 1) < 0
                                          /\ Cumulative(rate, flows, k) > 0}
  IN  IF rate <= 0 THEN Refused
      ELSE IF crossed = {} THEN NULL
      ELSE Payback(rate, flows, CHOOSE k \in crossed : \A j \in crossed : k <= j)

\* calculate_discounted_payback_period: the first year in which the sum is no longer
\* negative.
DiscountedPayback(rate, flows) ==
  LET crossed == {k \in 2 .. Len(flows) : /\ Cumulative(rate, flows, k - 1) < 0
                                          /\ Cumulative(rate, flows, k) >= 0}
  IN  IF rate <= 0 THEN Refused
      ELSE IF crossed = {} THEN NULL
      ELSE Payback(rate, flows, CHOOSE k \in crossed : \A j \in crossed : k <= j)

\* apply_tax_shield_to_cash_flows: of the years after the outlay.
TaxShielded(flows, allowances, taxPercent) ==
  IF Len(flows) # Len(allowances) THEN Refused
  ELSE [k \in DOMAIN flows |-> RoundHalfEven(100 * flows[k] + allowances[k] * taxPercent, 100)]

\* flag_speculative_residual_value: at the threshold too.
ResidualFlag(residual, outlay, thresholdPercent) ==
  LET share == RoundHalfEven(1000000 * Abs(residual), Abs(outlay))
  IN  IF outlay = 0 THEN [is_speculative |-> FALSE, residual_pct_of_outlay |-> NULL]
      ELSE [is_speculative |-> share >= 10000 * thresholdPercent, residual_pct_of_outlay |-> share]

\* evaluate_capital_investment
Evaluate(rate, flows, residual, thresholdPercent) ==
  IF rate <= 0 THEN Refused
  ELSE [npv |-> Npv(rate, flows), has_irr |-> HasIrr(flows),
        discounted_payback_period |-> DiscountedPayback(rate, flows),
        residual_value_flag |-> ResidualFlag(residual, flows[1], thresholdPercent)]

=============================================================================
