----------------------------- MODULE SpendAnalytics -----------------------------
(***************************************************************************)
(* analytics/spend_analytics with the queries of                            *)
(* services/spend_analytics_service and services/negotiation_brief_service, *)
(* and analytics/purchase_ledger_calculations.                              *)
(*                                                                         *)
(* Money counts ten-thousandths, as its columns do, so that a sum needs no   *)
(* rounding; a share counts millionths.  Quantities are whole, a discount    *)
(* and a tax count percent.  NULL is None, Refused a ValueError.             *)
(***************************************************************************)
EXTENDS Decimals, SequencesExt

CONSTANTS NULL, Refused

ShareUnit == 1000000

\* The share of the whole, rounded to the sixth decimal.
Share(part, whole) == Quotient(ShareUnit * part, whole)

-----------------------------------------------------------------------------
(* The rows that count                                                      *)

\* An invoice is [supplier, correction, month, lines], a line and a transaction
\* carry sku, text and amount; a month is a number.
Active(documents) == SelectSeq(documents, LAMBDA d : ~d.correction)

\* _suppliers_with_invoice_data
InvoiceSuppliers(invoices) == {inv.supplier : inv \in ToSet(Active(invoices))}

InvoiceRows(invoices) ==
  FlattenSeq([k \in DOMAIN invoices |->
    [j \in DOMAIN invoices[k].lines |->
       [supplier |-> invoices[k].supplier, month |-> invoices[k].month,
        sku |-> invoices[k].lines[j].sku, text |-> invoices[k].lines[j].text,
        amount |-> invoices[k].lines[j].amount]]])

\* Mutant: what is recorded in both places counts twice.
CountedRows_Both(ledger) ==
  InvoiceRows(Active(ledger.invoices)) \o Active(ledger.transactions)

\* What every report counts: the lines of the invoices, and the transactions of the
\* suppliers that have no invoice at all.
CountedRows(ledger) ==
  InvoiceRows(Active(ledger.invoices))
    \o SelectSeq(Active(ledger.transactions),
                 LAMBDA t : t.supplier \notin InvoiceSuppliers(ledger.invoices))

\* aggregate_spend, of a sequence of [key, amount]: the highest amount first, of equals
\* the one that came first.
AggregateSpend(rows) ==
  LET First(key) == CHOOSE i \in DOMAIN rows : /\ rows[i].key = key
                                               /\ \A j \in 1 .. i - 1 : rows[j].key # key
      total == [key \in {r.key : r \in ToSet(rows)} |->
                  Total([i \in DOMAIN rows |-> IF rows[i].key = key THEN rows[i].amount ELSE 0])]
      order == SetToSortSeq(DOMAIN total,
                 LAMBDA a, b : total[a] > total[b] \/ (total[a] = total[b] /\ First(a) < First(b)))
  IN  [k \in DOMAIN order |-> [key |-> order[k], amount |-> total[order[k]]]]

Keyed(rows, Key(_)) == [i \in DOMAIN rows |-> [key |-> Key(rows[i]), amount |-> rows[i].amount]]

\* get_spend_by_supplier
SpendBySupplier(ledger) == AggregateSpend(Keyed(CountedRows(ledger), LAMBDA r : r.supplier))

ItemKey(row) == IF row.sku # NULL THEN row.sku ELSE IF row.text # NULL THEN row.text ELSE "unknown"

\* get_spend_by_sku, of all suppliers where supplier is NULL.
SpendBySku(ledger, supplier) ==
  AggregateSpend(Keyed(SelectSeq(CountedRows(ledger),
                                 LAMBDA r : supplier = NULL \/ r.supplier = supplier), ItemKey))

-----------------------------------------------------------------------------
(* Rankings                                                                 *)

SumOf(items) == Total([k \in DOMAIN items |-> items[k].amount])

Running(items, k) == SumOf(SubSeq(items, 1, k))

\* calculate_abc_classification, with its thresholds of 80% and 95%.
AbcClassification(items) ==
  [k \in DOMAIN items |->
     LET share == IF SumOf(items) = 0 THEN 0 ELSE Share(Running(items, k), SumOf(items))
     IN  [item |-> items[k], cumulative_pct |-> share,
          classification |-> CASE SumOf(items) = 0 -> "C"
                               [] SumOf(items) # 0 /\ share <= 800000 -> "A"
                               [] SumOf(items) # 0 /\ share > 800000 /\ share <= 950000 -> "B"
                               [] SumOf(items) # 0 /\ share > 950000 -> "C"]]

ReachesTarget(part, whole) ==
  IF whole > 0 THEN 10 * part >= 8 * whole ELSE 10 * part <= 8 * whole

\* Mutant: an item that takes the sum across the target is left out.
ParetoContributors_Below(items) ==
  LET short == {n \in DOMAIN items : ~ReachesTarget(Running(items, n), SumOf(items))}
      count == Cardinality(short)
  IN  IF SumOf(items) = 0 THEN [contributors |-> <<>>, cumulative_pct_covered |-> 0]
      ELSE [contributors |-> SubSeq(items, 1, count),
            cumulative_pct_covered |-> Share(Running(items, count), SumOf(items))]

\* calculate_pareto_contributors: up to the first item at which 80% is reached.
ParetoContributors(items) ==
  LET reached == {n \in DOMAIN items : ReachesTarget(Running(items, n), SumOf(items))}
      count   == IF reached = {} THEN Len(items) ELSE CHOOSE n \in reached : \A m \in reached : n <= m
  IN  IF SumOf(items) = 0 THEN [contributors |-> <<>>, cumulative_pct_covered |-> 0]
      ELSE [contributors |-> SubSeq(items, 1, count),
            cumulative_pct_covered |-> Share(Running(items, count), SumOf(items))]

\* get_month_over_month_trend and calculate_month_over_month_trend: the months that have
\* spend; no change from nothing or from zero.
MonthTrend(ledger) ==
  LET rows   == CountedRows(ledger)
      months == SetToSortSeq({r.month : r \in ToSet(rows)}, <)
      amount(k) == Total([i \in DOMAIN rows |-> IF rows[i].month = months[k] THEN rows[i].amount ELSE 0])
  IN  [k \in DOMAIN months |->
        [month |-> months[k], amount |-> amount(k),
         change_pct |-> IF k = 1 THEN NULL
                        ELSE IF amount(k - 1) = 0 THEN NULL
                        ELSE Share(amount(k) - amount(k - 1), amount(k - 1))]]

\* get_top_supplier_price_increases: a descending order begins with the lines whose impact
\* is not known, and the order of equals is the database's; the possible choices.
TopPriceIncreases(lines, limit) ==
  LET increases == {k \in DOMAIN lines : lines[k].movement = "price_increase"}
      before(a, b) == /\ lines[b].impact # NULL
                      /\ IF lines[a].impact = NULL THEN TRUE ELSE lines[a].impact > lines[b].impact
  IN  {s \in SUBSET increases :
         /\ Cardinality(s) = (IF Cardinality(increases) < limit THEN Cardinality(increases) ELSE limit)
         /\ \A a \in s, b \in increases \ s : ~before(b, a)}

-----------------------------------------------------------------------------
(* Prices                                                                   *)

\* calculate_price_consistency, of a sequence of prices and a threshold in millionths.
PriceConsistency(prices, threshold) ==
  LET all == ToSet(prices)
      low == CHOOSE p \in all : \A q \in all : p <= q
      high == CHOOSE p \in all : \A q \in all : p >= q
      pct == IF low = 0 THEN NULL ELSE Share(high - low, low)
  IN  IF prices = <<>> THEN Refused
      ELSE [min_price |-> low, max_price |-> high, spread |-> high - low, spread_pct |-> pct,
            is_significant |-> IF pct = NULL THEN FALSE ELSE pct >= threshold,
            observation_count |-> Len(prices)]

\* check_price_consistency: of every line, also of a document that was corrected, and of
\* no transaction.
ConsistencyOf(ledger, supplier, item) ==
  LET own == SelectSeq(ledger.invoices, LAMBDA inv : inv.supplier = supplier)
      lines == SelectSeq(FlattenSeq([k \in DOMAIN own |-> own[k].lines]),
                         LAMBDA l : item \in {l.sku, l.text})
  IN  PriceConsistency([k \in DOMAIN lines |-> lines[k].price], 50000)

\* calculate_purchase_price_variance
PriceVariance(reference, actual, quantity) ==
  LET variance == actual * quantity - reference * quantity
  IN  [expected_cost |-> reference * quantity, actual_cost |-> actual * quantity,
       variance |-> variance,
       variance_pct |-> IF reference * quantity = 0 THEN NULL ELSE Share(variance, reference * quantity)]

\* calculate_invoice_line_net_amount and calculate_invoice_line_total_incl_tax
NetAmount(quantity, price, discount) == RoundHalfEven(quantity * price * (100 - discount), 100)
TotalInclTax(net, tax) == RoundHalfEven(net * (100 + tax), 100)

\* calculate_receipt_variance
ReceiptVariance(ordered, received) ==
  LET variance == received - ordered
  IN  IF ordered < 0 \/ received < 0 THEN Refused
      ELSE [variance_quantity |-> variance,
            variance_pct |-> IF ordered = 0 THEN NULL ELSE Share(variance, ordered),
            status |-> CASE variance = 0 -> "complete" [] variance < 0 -> "short" [] variance > 0 -> "over"]

-----------------------------------------------------------------------------
(* What a negotiation is prepared with                                      *)

\* build_negotiation_brief_context: the impacts that are known, the ten largest first.
BriefFromReview(lines) ==
  LET known == SelectSeq([k \in DOMAIN lines |-> [line |-> k, impact |-> lines[k].impact]],
                         LAMBDA l : l.impact # NULL)
      order == SetToSortSeq(DOMAIN known,
                 LAMBDA a, b : \/ Abs(known[a].impact) > Abs(known[b].impact)
                               \/ Abs(known[a].impact) = Abs(known[b].impact) /\ a < b)
      total == Total([k \in DOMAIN known |-> known[k].impact])
  IN  [annual_spend |-> total, total_annual_impact |-> total,
       top |-> SubSeq([k \in DOMAIN order |-> known[order[k]]], 1, IF Len(order) < 10 THEN Len(order) ELSE 10),
       targets |-> {k \in DOMAIN lines : lines[k].target # NULL}]

\* build_negotiation_brief_context_from_spend: the ten items with the most spend, and the
\* first five of them whose price is not consistent.
BriefFromSpend(ledger, supplier) ==
  LET items == SpendBySku(ledger, supplier)
      top   == SubSeq(items, 1, IF Len(items) < 10 THEN Len(items) ELSE 10)
  IN  [annual_spend |-> SumOf(items), total_annual_impact |-> SumOf(items), top |-> top,
       notes |-> {k \in DOMAIN top :
                    LET found == ConsistencyOf(ledger, supplier, top[k].key)
                    IN  k <= 5 /\ (IF found = Refused THEN FALSE ELSE found.is_significant)}]

=============================================================================
