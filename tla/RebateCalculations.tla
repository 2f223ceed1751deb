-------------------------- MODULE RebateCalculations --------------------------
(***************************************************************************)
(* analytics/rebate_calculations.py: what a supplier owes for a spend, how *)
(* far the next tier is, when that deserves an alert, what leaked and what *)
(* state a period is in.                                                   *)
(*                                                                         *)
(* A Decimal amount is an integer count of ten-thousandths of the currency *)
(* (CURRENCY_QUANTIZE) and a rate an integer count of 1 / RateUnit.  The    *)
(* threshold of a tier may have any number of decimals (schemas/rebate.py, *)
(* JSONB): it counts 1 / Parts of a ten-thousandth.  So round_currency is   *)
(* visible where it matters: after a multiplication, and where a spend is   *)
(* subtracted from a threshold.                                            *)
(***************************************************************************)
EXTENDS Decimals

CONSTANTS
  NULL,          \* None
  Parts          \* the parts of a ten-thousandth that a threshold counts

ASSUME PartsAssumption == Parts \in Nat \ {0}

RateUnit == 10000

FlatTypes   == {"fixed_percentage", "volume", "growth"}
BandedTypes == {"tiered", "retrospective"}

AtRate(spend, rate) == RoundHalfEven(spend * rate, RateUnit)

-----------------------------------------------------------------------------
(* Tiers: bands is the sequence of [threshold, rate] of the agreement, in    *)
(* the order in which it was entered.                                       *)

Reached(spend, bands) == {i \in DOMAIN bands : Parts * spend >= bands[i].threshold}

\* Mutant: the first band that is reached, not the highest.
BestBand_First(spend, bands) ==
  LET reached == Reached(spend, bands)
  IN  bands[CHOOSE i \in reached : \A j \in reached : i <= j]

\* max(applicable, key=threshold): the first of the bands with the highest one.
BestBand(spend, bands) ==
  LET reached == Reached(spend, bands)
  IN  bands[CHOOSE i \in reached : \A j \in reached :
              \/ bands[j].threshold < bands[i].threshold
              \/ bands[j].threshold = bands[i].threshold /\ i <= j]

\* Mutant: the rate applies only above the threshold of its band.
ExpectedRebate_AboveThreshold(spend, terms) ==
  CASE terms.type \in FlatTypes -> AtRate(spend, terms.rate)
    [] terms.type \in BandedTypes ->
         IF Reached(spend, terms.bands) = {} THEN 0
         ELSE LET band == BestBand(spend, terms.bands)
              IN  RoundHalfEven((Parts * spend - band.threshold) * band.rate, Parts * RateUnit)
    [] terms.type = "fixed_amount" -> terms.fixed

\* calculate_expected_rebate.  The request schema and the CHECK constraints of
\* migration 0005 give every agreement the terms of its type.
ExpectedRebate(spend, terms) ==
  CASE terms.type \in FlatTypes -> AtRate(spend, terms.rate)
    [] terms.type \in BandedTypes ->
         IF Reached(spend, terms.bands) = {} THEN 0
         ELSE AtRate(spend, BestBand(spend, terms.bands).rate)
    [] terms.type = "fixed_amount" -> terms.fixed

\* Mutant: a tier that was just reached still counts as ahead.
Ahead_Inclusive(spend, bands) ==
  {bands[i].threshold : i \in {j \in DOMAIN bands : bands[j].threshold >= Parts * spend}}

Ahead(spend, bands) ==
  {bands[i].threshold : i \in {j \in DOMAIN bands : bands[j].threshold > Parts * spend}}

\* The threshold half of calculate_progress_to_next_tier; NULL above the last tier.
NextTier(spend, bands) ==
  IF Ahead(spend, bands) = {} THEN NULL
  ELSE CHOOSE t \in Ahead(spend, bands) : \A u \in Ahead(spend, bands) : t <= u

\* Mutant: the remainder is cut off where it should be rounded.
AmountToNextTier_Truncated(spend, bands) ==
  IF NextTier(spend, bands) = NULL THEN NULL
  ELSE (NextTier(spend, bands) - Parts * spend) \div Parts

\* Its other half, rounded to an amount.
AmountToNextTier(spend, bands) ==
  IF NextTier(spend, bands) = NULL THEN NULL
  ELSE RoundHalfEven(NextTier(spend, bands) - Parts * spend, Parts)

BufferPct  == 85
BufferDays == 30

\* is_threshold_alert_due.
AlertDue(spend, bands, today, end) ==
  /\ NextTier(spend, bands) # NULL
  /\ end - today \in 0 .. BufferDays
  /\ 100 * Parts * spend >= NextTier(spend, bands) * BufferPct

-----------------------------------------------------------------------------
(* Leakage and status                                                       *)

\* calculate_rebate_leakage: nothing received is everything at risk.
Leakage(expected, received) == expected - (IF received = NULL THEN 0 ELSE received)

\* classify_rebate_status; a leakage of one ten-thousandth is forgiven.
Classify(expected, received, closed, alertDue) ==
  CASE received # NULL /\ Leakage(expected, received) <= 1 -> "reconciled"
    [] received # NULL /\ Leakage(expected, received) > 1  -> "leakage_detected"
    [] received = NULL /\ closed -> "period_closed_awaiting_payment"
    [] received = NULL /\ ~closed /\ alertDue -> "threshold_approaching"
    [] received = NULL /\ ~closed /\ ~alertDue -> "on_track"

\* is_period_due_for_close.
DueForClose(end, today) == today >= end

\* aggregate_transactions_for_period, its total_spend; rows are <<date, amount>>.
SpendWithin(rows, start, end) ==
  LET sum[n \in 0 .. Len(rows)] ==
        IF n = 0 THEN 0
        ELSE sum[n - 1] + (IF rows[n][1] \in start .. end THEN rows[n][2] ELSE 0)
  IN  sum[Len(rows)]

=============================================================================
