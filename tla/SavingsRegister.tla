---------------------------- MODULE SavingsRegister ----------------------------
(***************************************************************************)
(* analytics/savings_register, the routes of api/v1/savings_register, the    *)
(* counts of api/v1/dashboard and analytics/cash_forecast.                   *)
(*                                                                         *)
(* Money counts ten-thousandths; NULL is None.                              *)
(***************************************************************************)
EXTENDS Decimals, SequencesExt

CONSTANT NULL

WaterfallStages == {"identified", "validated", "approved", "implementation", "realised"}

Result(type, amount, methodology) ==
  [savings_type |-> type, amount |-> amount, baseline_methodology |-> methodology,
   is_one_time |-> type = "working_capital"]

\* The five types, each of its own inputs; quantities, days and hours are whole.
HardSaving(baseline, new, quantity, methodology) ==
  Result("hard_saving", (baseline - new) * quantity, methodology)
CostAvoidance(requested, agreed, quantity) ==
  Result("cost_avoidance", (requested - agreed) * quantity, NULL)
WorkingCapitalRelease(dailySpend, currentDays, proposedDays) ==
  Result("working_capital", dailySpend * (proposedDays - currentDays), NULL)
MarginProtection(percent, revenue) ==
  Result("margin_protection", RoundHalfEven(percent * revenue, 100), NULL)
EfficiencySaving(hours, rate) == Result("efficiency_saving", hours * rate, NULL)

\* calculate_savings_waterfall: of each stage the amounts that are at it now.
SavingsWaterfall(entries) ==
  [stage \in WaterfallStages |->
     Total([k \in DOMAIN entries |-> IF entries[k].status = stage THEN entries[k].amount ELSE 0])]

\* Mutant: the estimate of a realised opportunity is reported until its savings are.
Reported_Estimate(o) ==
  IF o.status = "realised" /\ o.realised # NULL
    THEN [amount |-> o.realised, status |-> o.realisedStatus, accepted |-> {"calculated", "confirmed"}]
    ELSE [amount |-> o.impact, status |-> o.impactStatus, accepted |-> {"estimated", "calculated"}]

\* The measure that an opportunity is reported by: what was realised of a realised one.
Reported(o) ==
  IF o.status = "realised"
    THEN [amount |-> o.realised, status |-> o.realisedStatus, accepted |-> {"calculated", "confirmed"}]
    ELSE [amount |-> o.impact, status |-> o.impactStatus, accepted |-> {"estimated", "calculated"}]

\* get_savings_waterfall: what has no accepted evidence is counted and left out.
SavingsReport(opportunities) ==
  LET counted  == SelectSeq(opportunities, LAMBDA o : Reported(o).status \in Reported(o).accepted)
      excluded == SelectSeq(opportunities, LAMBDA o : Reported(o).status \notin Reported(o).accepted)
      legacy   == SelectSeq(excluded, LAMBDA o : Reported(o).status = "legacy_unverified")
  IN  [totals |-> SavingsWaterfall([k \in DOMAIN counted |->
                    [status |-> counted[k].status, amount |-> Reported(counted[k]).amount]]),
       excluded_count |-> Len(excluded),
       unknown |-> Len(excluded) - Len(legacy), legacy_unverified |-> Len(legacy)]

\* list_savings_register: the entries of one type, or all.
Register(opportunities, type) ==
  SelectSeq(opportunities, LAMBDA o : type = NULL \/ o.type = type)

\* get_executive_metrics
ExecutiveMetrics(contracts, periods, flags) ==
  [active_contracts |-> Len(SelectSeq(contracts, LAMBDA c : c # "expired")),
   open_rebate_periods |-> Len(SelectSeq(periods, LAMBDA earned : earned = NULL)),
   open_consolidation_flags |-> Len(SelectSeq(flags, LAMBDA f : f \in {"flagged", "under_review"}))]

-----------------------------------------------------------------------------
(* Cash                                                                     *)

CashReceipts(expected, disputed, unapplied) == expected - disputed + unapplied
SupplierPayments(expected, receivedNotInvoiced) == expected + receivedNotInvoiced

Horizon == 13

\* calculate_weekly_cash_position
CashPosition(cash, week) ==
  LET ending == cash + week.receipts - week.payments - week.costs
  IN  [ending_cash |-> ending, is_overdraft |-> ending < 0]

Known(week) == NULL \notin {week.receipts, week.payments, week.costs}

\* build_13_week_cash_forecast: every week or none.
CashForecast(opening, weeks) ==
  LET position[k \in 1 .. Horizon] ==
        CashPosition(IF k = 1 THEN opening ELSE position[k - 1].ending_cash, weeks[k])
      overdrawn == {k \in 1 .. Horizon : position[k].is_overdraft}
  IN  IF Len(weeks) # Horizon \/ \E k \in DOMAIN weeks : ~Known(weeks[k])
        THEN [is_complete |-> FALSE, weeks |-> NULL]
        ELSE [is_complete |-> TRUE, weeks |-> position,
              first_overdraft_week |-> IF overdrawn = {} THEN NULL
                                       ELSE CHOOSE k \in overdrawn : \A j \in overdrawn : k <= j]

=============================================================================
