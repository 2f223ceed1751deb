-------------------------- MODULE ManagementAccounting --------------------------
(***************************************************************************)
(* analytics/management_accounting, revenue_waterfall and treasury_engine,   *)
(* with the storage boundary of working_capital_service.                    *)
(*                                                                         *)
(* Money counts ten-thousandths, days and the volume of an activity count    *)
(* tenths, a ratio counts hundredths.  NULL is None: not known.  Refused is  *)
(* a ValueError.                                                            *)
(***************************************************************************)
EXTENDS Decimals, FiniteSets

CONSTANTS NULL, Refused, StorageMax     \* the largest number of days a column holds

-----------------------------------------------------------------------------
(* Allocation                                                               *)

RecognizedAllocationTypes == {"per_unit", "per_pallet", "per_km", "pct_revenue"}

VolumeParts == 10

\* determine_allocation_level: the first basis there is.
AllocationLevel(direct, rate, volume) ==
  CASE direct                       -> "direct"
    [] ~direct /\ rate              -> "activity_rate"
    [] ~direct /\ ~rate /\ volume   -> "volumetric"
    [] ~direct /\ ~rate /\ ~volume  -> "unallocated"

AllocateActivityCost(pool, volume, type) ==
  CASE type \notin RecognizedAllocationTypes -> Refused
    [] type \in RecognizedAllocationTypes /\ volume = 0 -> NULL
    [] type \in RecognizedAllocationTypes /\ volume # 0 -> Quotient(VolumeParts * pool, volume)

\* calculate_allocation_variance
AllocationVariance(volume, rate, allocated, fallback) ==
  LET cost == RoundHalfEven(volume * rate, VolumeParts)
  IN  IF rate = 0 THEN NULL
      ELSE [activity_based_cost |-> cost, variance |-> allocated - cost,
            is_undercosted |-> allocated < cost,
            rate_confidence |-> IF fallback THEN "fallback" ELSE "matched"]

\* is_rate_stale: on the day of the threshold, and where no date is known.
RateStale(effective, today, threshold) ==
  IF effective = NULL THEN TRUE ELSE today - effective >= threshold

ZeroMassRisk(mass, moved) == mass = 0 /\ moved

-----------------------------------------------------------------------------
(* From gross sales to the net margin of a customer                         *)

DeductionLines == {"settlement_discounts", "volume_growth_rebates", "credit_notes_issued",
                   "operational_claims_returns"}
SignedLines == {"retro_pricing_adjustment", "supplier_recoveries_allowances"}

Sum(lines, names) ==
  LET sum[s \in SUBSET names] ==
        IF s = {} THEN 0 ELSE LET n == CHOOSE x \in s : TRUE IN lines[n] + sum[s \ {n}]
  IN  sum[names]

\* calculate_gross_to_net_waterfall
GrossToNet(gross, lines) ==
  LET missing == {n \in DOMAIN lines : lines[n] = NULL}
  IN  [is_complete |-> missing = {}, missing_lines |-> missing, gross_sales |-> gross,
       net_revenue |-> IF missing # {} THEN NULL
                       ELSE gross - Sum(lines, DeductionLines) + Sum(lines, SignedLines)]

\* resolve_trade_spend_for_period
TradeSpend(record, agreementExists) ==
  CASE ~agreementExists -> 0
    [] agreementExists /\ record = NULL -> Refused
    [] agreementExists /\ record # NULL -> record

\* calculate_customer_net_margin
NetMargin(revenue, cogs, logistics, warehouse, tradeSpend, basis) ==
  LET net == revenue - tradeSpend
      toServe == logistics + warehouse
      margin == net - cogs - toServe
  IN  IF \/ basis \notin {"gross", "net_of_waterfall"}
         \/ basis = "net_of_waterfall" /\ tradeSpend # 0
        THEN Refused
        ELSE [net_revenue |-> net, gross_margin |-> net - cogs, cost_to_serve |-> toServe,
              net_margin |-> margin,
              net_margin_pct |-> IF revenue = 0 THEN NULL ELSE Quotient(10000 * margin, revenue),
              is_net_revenue_negative |-> net < 0]

-----------------------------------------------------------------------------
(* Working capital                                                          *)

\* calculate_working_capital_metrics
WorkingCapital(ar, ap, inventory, revenue, cogs, cash) ==
  LET dso == IF revenue = 0 THEN NULL ELSE Quotient(3650 * ar, revenue)
      dio == IF cogs = 0 THEN NULL ELSE Quotient(3650 * inventory, cogs)
      dpo == IF cogs = 0 THEN NULL ELSE Quotient(3650 * ap, cogs)
  IN  [dso |-> dso, dio |-> dio, dpo |-> dpo,
       ccc |-> IF NULL \in {dso, dio, dpo} THEN NULL ELSE dio + dso - dpo,
       ratio |-> IF cash = NULL \/ ap = 0 THEN NULL ELSE Quotient(100 * (ar + inventory + cash), ap)]

OutOfRange(days) == IF days = NULL THEN FALSE ELSE Abs(days) > StorageMax

\* Mutant: the cycle is kept when one of its components does not fit.
StorageBoundary_KeepCycle(m) ==
  LET out == {n \in {"dso", "dio", "dpo"} : OutOfRange(m[n])}
      safe(n) == IF n \in out THEN NULL ELSE m[n]
      cycleOut == OutOfRange(m.ccc)
  IN  [dso |-> safe("dso"), dio |-> safe("dio"), dpo |-> safe("dpo"),
       ccc |-> IF cycleOut THEN NULL ELSE m.ccc, ratio |-> m.ratio,
       out_of_range |-> out \cup (IF cycleOut THEN {"ccc"} ELSE {}), ccc_unavailable |-> {}]

\* _apply_days_metric_storage_boundary: what does not fit its column is not known, and
\* the diagnostics say which, and which of them the cycle was lost to.
StorageBoundary(m) ==
  LET out == {n \in {"dso", "dio", "dpo"} : OutOfRange(m[n])}
      safe(n) == IF n \in out THEN NULL ELSE m[n]
      whole == NULL \notin {safe("dso"), safe("dio"), safe("dpo")}
      cycleOut == whole /\ OutOfRange(m.ccc)
  IN  [dso |-> safe("dso"), dio |-> safe("dio"), dpo |-> safe("dpo"),
       ccc |-> IF whole /\ ~cycleOut THEN m.ccc ELSE NULL, ratio |-> m.ratio,
       out_of_range |-> out \cup (IF cycleOut THEN {"ccc"} ELSE {}),
       ccc_unavailable |-> IF whole THEN {} ELSE out]

\* calculate_variance_vs_prior
VarianceVsPrior(current, prior) == IF NULL \in {current, prior} THEN NULL ELSE current - prior

BucketOf(days) ==
  CASE days < 30 -> "current"
    [] days >= 30 /\ days < 60 -> "days_30"
    [] days >= 60 /\ days < 90 -> "days_60"
    [] days >= 90 /\ days < 120 -> "days_90"
    [] days >= 120 -> "days_120_plus"

\* classify_aging_buckets, of a sequence of [amount, days].
AgingBuckets(invoices) ==
  [b \in {"current", "days_30", "days_60", "days_90", "days_120_plus"} |->
     Total([i \in DOMAIN invoices |-> IF BucketOf(invoices[i].days) = b THEN invoices[i].amount ELSE 0])]

-----------------------------------------------------------------------------
(* Inventory value                                                          *)

\* check_inventory_reconciliation
Reconciliation(control, subLedger, tolerance) ==
  [control_total |-> control, variance |-> control - subLedger,
   is_reconciled |-> Abs(control - subLedger) <= tolerance]

\* resolve_gated_inventory_value: the control total or nothing.
GatedInventoryValue(reconciliation, documented) ==
  IF reconciliation.is_reconciled \/ documented THEN reconciliation.control_total ELSE NULL

\* refuse_timing_bridge_allocation
BridgeAllocation(variance, entity) ==
  IF variance # 0 /\ entity # NULL THEN Refused ELSE NULL

\* validate_reconciliation_bridge_completeness
BridgeCompleteness(control, subLedger, bridge) ==
  [reconciled_total |-> subLedger + bridge, final_variance |-> subLedger + bridge - control,
   is_fully_explained |-> subLedger + bridge = control]

ReplacementExposure(quantity, replacement, recorded) ==
  LET total == (replacement - recorded) * quantity
  IN  [exposure_per_unit |-> replacement - recorded, total_exposure |-> total,
       is_adverse |-> total > 0]

\* flag_replacement_cost_divergence, of a threshold in percent.
ReplacementDivergence(exposure, control, threshold) ==
  /\ control # 0
  /\ IF control > 0 THEN 100 * Abs(exposure) > threshold * control
     ELSE -100 * Abs(exposure) < threshold * control

Gmroi(margin, inventory) == IF inventory = 0 THEN NULL ELSE Quotient(100 * margin, inventory)

\* calculate_markdown_adjusted_gmroi, of a markdown in percent.
MarkdownGmroi(margin, inventory, atRisk, markdown) ==
  Gmroi(margin - RoundHalfEven(atRisk * markdown, 100), inventory)

-----------------------------------------------------------------------------
(* Evidence tiers and foreign currency                                      *)

\* classify_evidence_tier
EvidenceTier(status) ==
  CASE status \in {"unknown", "not_applicable"} -> 0
    [] status = "legacy_unverified" -> 1
    [] status = "estimated" -> 2
    [] status = "calculated" -> 3
    [] status = "confirmed" -> 4

EvidenceDowngrade(previous, new) ==
  IF previous = NULL THEN FALSE ELSE EvidenceTier(new) < EvidenceTier(previous)

\* calculate_fx_transaction_exposure: a forward contract takes the place of the spot rate.
FxExposure(amount, booked, reporting, forward) ==
  CASE booked <= 0 \/ reporting <= 0 -> Refused
    [] booked > 0 /\ reporting > 0 /\ forward = NULL ->
         [is_hedged |-> FALSE, hedging_gain_loss |-> NULL,
          unrealized_variance |-> (reporting - booked) * amount]
    [] booked > 0 /\ reporting > 0 /\ forward # NULL ->
         IF forward <= 0 THEN Refused
         ELSE [is_hedged |-> TRUE, hedging_gain_loss |-> (reporting - forward) * amount,
               unrealized_variance |-> NULL]

=============================================================================
