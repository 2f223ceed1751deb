----------------------------- MODULE MCCalculations -----------------------------
(***************************************************************************)
(* The pure calculations, checked against each other and against what a      *)
(* reader of their results would work out.  A behaviour is either one rebate *)
(* agreement whose spend grows, or one question that is put to another       *)
(* calculation; the operators answer it in the invariants.                     *)
(***************************************************************************)
EXTENDS RebateCalculations, SequencesExt, TLC

CONSTANTS Refused, Thresholds, Rates, MaxSpend, Steps, StorageMax

\* The schemas of the requests refuse a negative rate, but not a negative threshold.
ASSUME TermsAssumption == Thresholds \subseteq Int /\ Rates \subseteq Nat /\ Steps \subseteq Nat

VARIABLES terms, spend, question

vars == <<terms, spend, question>>

\* Letter by letter, all descriptions are alike; the spelling of the words below.
MCLetterScore(a, b) == 95
MCEndsWith(w, v) == w = v \/ <<w, v>> = <<"yellow", "low">>
MCStartsWith(w, v) == w = v

Spend    == INSTANCE SpendAnalytics
Savings  == INSTANCE SavingsRegister
Routes   == INSTANCE RouteCosts
Accounts == INSTANCE ManagementAccounting
Invest   == INSTANCE Investment
Stock    == INSTANCE InventoryCalculations
Canvas   == INSTANCE CanvasLens
Review   == INSTANCE PriceReviewCalculations
Match    == INSTANCE Matching WITH LetterScore <- MCLetterScore, EndsWith <- MCEndsWith,
                                   StartsWith <- MCStartsWith
Contract == INSTANCE ContractCalculations WITH Thresholds <- {180, 90, 60, 30}, SoonDays <- 90

SeqsTo(set, n) == UNION {[1 .. k -> set] : k \in 0 .. n}

-----------------------------------------------------------------------------
(* Agreements                                                               *)

Bands == [threshold : Thresholds, rate : Rates]

Agreements ==
  [type : {"volume"}, rate : Rates, bands : {<<>>}, fixed : {0}]
    \cup [type : {"fixed_amount"}, rate : {0}, bands : {<<>>}, fixed : {7}]
    \cup [type : {"tiered"}, rate : {0}, fixed : {0},
          bands : SeqsTo(Bands, 3) \ {<<>>}]

-----------------------------------------------------------------------------
(* Questions                                                                *)

\* Two suppliers, one of them with invoices and transactions or either; items with a code, a
\* text or both, in two months; documents that correct an earlier one.
Lines == {[sku |-> "x", text |-> "tin", amount |-> 3, price |-> 3],
          [sku |-> NULL, text |-> "x", amount |-> 2, price |-> 1],
          [sku |-> "z", text |-> NULL, amount |-> -1, price |-> 1]}

Invoices ==
  [supplier : {1, 2}, correction : {FALSE}, month : {1, 2}, lines : {<<l>> : l \in Lines}]
    \cup [supplier : {1, 2}, correction : {TRUE}, month : {2}, lines : {<<l>> : l \in Lines}]
    \cup [supplier : {1}, correction : {FALSE}, month : {2}, lines : [1 .. 2 -> Lines]]

Transactions ==
  [supplier : {1, 2}, correction : {FALSE}, month : {1, 3}, sku : {"x", NULL}, text : {NULL},
   amount : {2}]
    \cup [supplier : {1, 2}, correction : {TRUE}, month : {3}, sku : {"x"}, text : {NULL}, amount : {5}]

Ledgers ==
  [kind : {"ledger"}, suppliers : {{[id |-> 1, category |-> "food", deleted |-> FALSE],
                                    [id |-> 2, category |-> NULL, deleted |-> d]} : d \in BOOLEAN},
   invoices : SeqsTo(Invoices, 1), transactions : SeqsTo(Transactions, 2)]
    \cup [kind : {"ledger"}, suppliers : {{[id |-> 1, category |-> NULL, deleted |-> FALSE],
                                           [id |-> 2, category |-> NULL, deleted |-> FALSE]}},
           invoices : [1 .. 2 -> Invoices], transactions : SeqsTo(Transactions, 1)]

Rankings ==
  [kind : {"ranking"},
   amounts : {s \in SeqsTo({5, 15, 20, 60, 80}, 4) : \A k \in 2 .. Len(s) : s[k] <= s[k - 1]}]

Trips == [kind : {"trip"}, stem : 0 .. 3, drop : 0 .. 3, return : 1 .. 2, pool : 1 .. 12]

Pools == [kind : {"pool"}, cost : 0 .. 12, volume : {0, 5, 10, 15, 30, 45}, type : {"per_km", "per_mile"}]

\* A customer's sales with every line of the waterfall known or one unknown, the evidence of
\* its trade spend and a trip whose costs are valid or refused.
Margins ==
  [kind : {"margin"}, unknown : {NULL, "settlement_discounts", "supplier_recoveries_allowances"},
   record : {NULL, 0, 4, 200}, agreement : BOOLEAN, basis : {"gross", "net_of_waterfall"},
   codriver : {-1, 0, 2}, multiplier : {9, 10, 15}, minutes : {-1, 5, 9}, cube : {0, 2}]

Targets == [kind : {"target"}, cost : {1, 7, 10, 20}, margin : {0, 20, 33, 99, 100}]

Moves == [kind : {"move"}, old : {0, 100, 2000}, new : {0, 98, 100, 102, 103, 111, 2001}]

Agings ==
  [kind : {"aging"},
   receivables : SeqsTo([amount : {1, 5}, days : {-1, 29, 30, 59, 60, 89, 90, 119, 120}], 2)]

Capitals ==
  [kind : {"capital"}, ar : {0, 5, 900}, ap : {0, 5, 900}, inventory : {0, 5, 900},
   revenue : {0, 1, 100}, cogs : {0, 1, 100}, cash : {NULL, 5}]

Waterfalls ==
  [kind : {"waterfall"},
   lines : [Accounts!DeductionLines \cup Accounts!SignedLines -> {NULL, 3}]]

\* Thirteen weeks or twelve, one of them of its own.
Forecasts ==
  [kind : {"forecast"}, opening : {0, 3}, length : {12, 13}, odd : {1, 7, 12},
   week : [receipts : {NULL, 1, 4}, payments : {NULL, 4}, costs : {NULL, 0}]]

Opportunities ==
  [status : {"identified", "implementation", "realised", "rejected"}, impact : {NULL, 2},
   impactStatus : {"unknown", "estimated", "legacy_unverified"}, realised : {NULL, 7},
   realisedStatus : {"unknown", "confirmed", "legacy_unverified"}, type : {"hard_saving"}]

\* The combinations that the constraints of the table let in.
Possible(o) ==
  /\ o.impact = NULL <=> o.impactStatus = "unknown"
  /\ o.realised = NULL <=> o.realisedStatus = "unknown"

Registers ==
  [kind : {"register"}, opportunities : SeqsTo({o \in Opportunities : Possible(o)}, 2)]

Projects ==
  [kind : {"project"}, percent : {10, 100},
   flows : UNION {[1 .. k -> {-20, -10, 0, 11, 20}] : k \in 2 .. 3}]

Words == <<"cape", "dairy", "farm", "cheddar", "cheese", "block">>

Items == [sku : {NULL, "s"}, barcode : {NULL},
          text : {Words \o v : v \in {<<>>, <<"mature">>, <<"matured">>, <<"mild">>, <<"lite">>,
                                   <<"yellow", "fat">>}}]

Matchings == [kind : {"match"}, old : Items, candidates : SeqsTo(Items, 2)]

Renewals ==
  [kind : {"renewal"}, year : {2023, 2024}, month : {1, 2, 11, 12}, day : 28 .. 31,
   first : {0, 1, 11}, second : {0, 1, 12, 13}]

ReviewLines ==
  {l \in [movement : {"price_increase", "price_decrease", "pack_change", "new_product",
                      "review_required"},
          pct : {NULL, -25000, 100000}, impact : {NULL, 6}, quantity : {NULL, 0, 3}, target : {NULL},
          pack_changed : {FALSE}, requires_review : {FALSE}] :
     /\ l.movement = "price_increase" => l.pct = 100000
     /\ l.movement = "price_decrease" => l.pct = -25000
     /\ l.movement = "new_product" => l.pct = NULL}

Summaries == [kind : {"summary"}, lines : SeqsTo(ReviewLines, 2)]

\* One item at one place, counted on some of four days.
Stocks ==
  [kind : {"stock"}, counts : UNION {[days -> {0, 2, 5}] : days \in (SUBSET (1 .. 4)) \ {{}}},
   expiry : {NULL, 4, 36}]

Questions ==
  Ledgers \cup Rankings \cup Trips \cup Pools \cup Margins \cup Targets \cup Moves
    \cup Agings \cup Capitals \cup Waterfalls \cup Forecasts
    \cup Registers \cup Projects \cup Matchings \cup Renewals \cup Summaries \cup Stocks

-----------------------------------------------------------------------------
Init ==
  /\ spend = 0
  /\ \/ terms \in Agreements /\ question = NULL
     \/ terms = NULL /\ question \in Questions

\* Purchases are aggregated.
Buy ==
  \E n \in Steps :
    /\ terms # NULL
    /\ spend + n <= MaxSpend
    /\ spend' = spend + n
    /\ UNCHANGED <<terms, question>>

Next == Buy

Spec == Init /\ [][Next]_vars

Asked(kind) == IF question = NULL THEN FALSE ELSE question.kind = kind

-----------------------------------------------------------------------------
(* Rebates                                                                  *)

Banded == IF terms = NULL THEN FALSE ELSE terms.type \in BandedTypes

\* Better rates for more spend, one rate per threshold.
Progressive ==
  \A i, j \in DOMAIN terms.bands :
    /\ terms.bands[i].threshold < terms.bands[j].threshold
         => terms.bands[i].rate <= terms.bands[j].rate
    /\ terms.bands[i].threshold = terms.bands[j].threshold
         => terms.bands[i].rate = terms.bands[j].rate

\* The tier that is paid and the tier that is announced are neighbours: no band
\* lies between them, in whatever order the bands were entered
\* (calculate_expected_rebate and calculate_progress_to_next_tier agree); and a price that
\* escalates by the same bands is escalated at the tier that is paid
\* (calculate_tiered_escalated_price).
TiersMeet ==
  Banded =>
    /\ \A i \in DOMAIN terms.bands :
         LET t == terms.bands[i].threshold
         IN  IF t <= Parts * spend
               THEN t <= BestBand(spend, terms.bands).threshold
               ELSE t >= NextTier(spend, terms.bands)
    /\ LET price == Contract!TieredPrice(15, Parts * spend, terms.bands)
       IN  IF Reached(spend, terms.bands) = {}
             THEN Contract!EscalatedPrice(15, "none", {}, {}, 1) = {price}
             ELSE Contract!EscalatedPrice(15, "fixed_percentage",
                                          {BestBand(spend, terms.bands).rate}, {}, 1) = {price}

\* Spending exactly the announced remainder ends within half a step of the announced tier.
\* Either that tier is then reached, and the band that is paid is none below it; or the
\* remainder was rounded down, and the same tier is announced with nothing left to spend
\* (calculate_progress_to_next_tier, calculate_expected_rebate).
RemainderMeetsTier ==
  Banded /\ NextTier(spend, terms.bands) # NULL =>
    LET bands == terms.bands
        next  == NextTier(spend, bands)
        then  == spend + AmountToNextTier(spend, bands)
    IN  /\ 2 * Abs(Parts * then - next) <= Parts
        /\ IF Parts * then >= next
             THEN BestBand(then, bands).threshold \in next .. Parts * then
             ELSE NextTier(then, bands) = next /\ AmountToNextTier(then, bands) = 0

\* Under progressive terms a buyer never loses rebate by buying more, rounding
\* included (calculate_expected_rebate).
MoreSpendMoreRebate ==
  [][terms # NULL /\ Progressive => ExpectedRebate(spend', terms') >= ExpectedRebate(spend, terms)]_vars

-----------------------------------------------------------------------------
(* Spend                                                                    *)

\* What a supplier was paid, by what corrects nothing: its invoices, or its transactions
\* where it has none.
PaidTo(supplier, ledger) ==
  LET invoices == SelectSeq(ledger.invoices, LAMBDA inv : inv.supplier = supplier /\ ~inv.correction)
      transactions == SelectSeq(ledger.transactions,
                                LAMBDA t : t.supplier = supplier /\ ~t.correction)
      Billed(inv) == Total([j \in DOMAIN inv.lines |-> inv.lines[j].amount])
  IN  IF invoices # <<>> THEN Total([k \in DOMAIN invoices |-> Billed(invoices[k])])
      ELSE Total([k \in DOMAIN transactions |-> transactions[k].amount])

\* No purchase is counted twice or lost: every supplier is reported at what it was paid, and
\* the reports by item and by month, the briefs of the suppliers and the categories of the canvas
\* add up to the same money; a review costs the same in its summary and in its brief
\* (get_spend_by_supplier, get_spend_by_sku, get_month_over_month_trend,
\* build_negotiation_brief_context, build_procurement_lens, summarize).
ReportsAgree ==
  /\ Asked("ledger") =>
    LET bySupplier == Spend!SpendBySupplier(question)
        all    == Spend!SumOf(bySupplier)
        graph  == Canvas!ProcurementLens(question.suppliers, question, {}, {})
        shown  == {s.id : s \in {s \in question.suppliers : ~s.deleted}}
        categories == {n \in graph.nodes : n.id[1] = "category"}
    IN  /\ \A k \in DOMAIN bySupplier : bySupplier[k].amount = PaidTo(bySupplier[k].key, question)
        /\ Spend!SumOf(Spend!SpendBySku(question, NULL)) = all
        /\ Spend!SumOf(Spend!MonthTrend(question)) = all
        /\ Canvas!Summed(categories, LAMBDA n : n.metric)
             = Canvas!Summed(shown, LAMBDA id : PaidTo(id, question))
        /\ \A s \in question.suppliers :
             Spend!BriefFromSpend(question, s.id).annual_spend = PaidTo(s.id, question)
  /\ Asked("summary") =>
       Review!Summary(question.lines).annual_cost_impact
         = Spend!BriefFromReview(question.lines).total_annual_impact

\* The two views of one ranking do not contradict each other: the contributors cover the
\* target, without the last of them they would not, all but the last are of class A, and no
\* item is of a better class than one that outranks it; and a price whose movement is left to a
\* reviewer is one without a class of risk (calculate_abc_classification,
\* calculate_pareto_contributors, classify_movement_type, classify_risk).
ClassesAndContributorsAgree ==
  /\ Asked("move") =>
       LET pct == Review!PercentageChange(question.old, question.new)
           movement == Review!MovementType(FALSE, pct)
       IN  /\ movement = "review_required" <=> Review!RiskClass(pct) = "unclassified"
           /\ movement = "price_increase" => question.new > question.old
           /\ movement = "price_decrease" => question.new < question.old
           /\ movement = "no_change" => Review!RiskClass(pct) = "low"
  /\ Asked("ranking") /\ question.amounts # <<>> =>
    LET items  == [k \in DOMAIN question.amounts |-> [key |-> k, amount |-> question.amounts[k]]]
        class(k) == Spend!AbcClassification(items)[k].classification
        pareto == Spend!ParetoContributors(items)
        count  == Len(pareto.contributors)
        rank   == [A |-> 1, B |-> 2, C |-> 3]
    IN  /\ 10 * Spend!SumOf(pareto.contributors) >= 8 * Spend!SumOf(items)
        /\ 10 * Spend!SumOf(SubSeq(items, 1, count - 1)) < 8 * Spend!SumOf(items)
        /\ \A k \in 1 .. count - 1 : class(k) = "A"
        /\ \A k \in count + 1 .. Len(items) : class(k) # "A"
        /\ \A j, k \in DOMAIN items : j <= k => rank[class(j)] <= rank[class(k)]

-----------------------------------------------------------------------------
(* Costs and cash                                                           *)

\* What a trip leaves, with the revenue before or after the waterfall of deductions.
Profit(q) ==
  LET lines == [n \in Accounts!DeductionLines \cup Accounts!SignedLines |->
                  IF n = q.unknown THEN NULL ELSE 3]
      net   == Accounts!GrossToNet(100, lines).net_revenue
      tradeSpend == Accounts!TradeSpend(q.record, q.agreement)
      fixed == Routes!TripFixedCost(10, q.codriver, 5)
      distance == Routes!DistanceVariableCost(4, 3, 1, q.multiplier)
      picking == Routes!PickingCost(3, q.cube, 1, 2)
      waiting == Routes!DemurrageCost(q.minutes, 7, 3)
      revenue == IF q.basis = "gross" THEN 100 ELSE net
  IN  IF revenue = NULL \/ Refused \in {tradeSpend, fixed, distance, picking, waiting} THEN NULL
      ELSE [result |-> Routes!RouteProfitability(revenue, 20, tradeSpend, q.basis, fixed,
                                                 distance.total, picking + waiting),
            tradeSpend |-> tradeSpend, deducted |-> 100 - revenue]

\* Nothing leaks where a whole is split: the legs of a trip make up its cost within one
\* rounding step, the units that share a pool its cost within half a step for each and for
\* their sum, the costs and deductions of a route its revenue, none of them made twice, the margin and the cost a
\* price, the buckets of the receivables all that is owed, the stages of the savings
\* what has evidence, the rest being counted as left out, and the summary of a review its lines
\* (calculate_segregated_route_cost, allocate_activity_cost, calculate_true_route_profitability,
\* calculate_required_selling_price, classify_aging_buckets, get_savings_waterfall, summarize).
PartsAddUp ==
  /\ Asked("trip") =>
       LET cost == Routes!SegregatedRouteCost(question.stem, question.drop, question.return,
                                              question.pool)
       IN  cost # Refused => Abs(cost.fixed_stem_cost + cost.variable_drop_cost - question.pool) <= 1
  /\ Asked("pool") =>
       LET rate == Accounts!AllocateActivityCost(question.cost, question.volume, question.type)
           check == Accounts!AllocationVariance(question.volume, rate, question.cost, FALSE)
       IN  rate \notin {Refused, NULL, 0} =>
             /\ 2 * Accounts!VolumeParts * Abs(check.variance) <= question.volume + Accounts!VolumeParts
             /\ check.activity_based_cost + check.variance = question.cost
  /\ Asked("margin") =>
       LET p == Profit(question)
           r == p.result
       IN  p # NULL =>
             IF r = Refused THEN p.deducted # 0 /\ p.tradeSpend # 0
             ELSE /\ {p.deducted, p.tradeSpend} \cap {0} # {}
                  /\ 100 = r.net_net_profit + p.deducted + p.tradeSpend + 20 + r.trip_fixed_costs
                            + r.distance_variable_costs + r.activity_time_costs
                  /\ r.is_net_revenue_negative => r.net_net_profit < 0
  /\ Asked("target") =>
       LET price == Review!RequiredSellingPrice(question.cost, question.margin)
           found == Review!GrossMargin(price, question.cost)
       IN  price # NULL => /\ found.profit + question.cost = price
                           /\ Abs(100 * found.profit - question.margin * price) <= 50
  /\ Asked("aging") =>
       LET buckets == Accounts!AgingBuckets(question.receivables)
       IN  Canvas!Summed(DOMAIN buckets, LAMBDA b : buckets[b])
             = Total([k \in DOMAIN question.receivables |-> question.receivables[k].amount])
  /\ Asked("register") =>
       LET report  == Savings!SavingsReport(question.opportunities)
           proven(o) == IF o.status = "realised" THEN o.realisedStatus = "confirmed"
                        ELSE o.impactStatus = "estimated"
           counted == SelectSeq(question.opportunities, LAMBDA o : proven(o) /\ o.status # "rejected")
       IN  /\ Canvas!Summed(DOMAIN report.totals, LAMBDA s : report.totals[s])
                = Total([k \in DOMAIN counted |-> IF counted[k].status = "realised"
                                                  THEN counted[k].realised ELSE counted[k].impact])
           /\ report.excluded_count = report.unknown + report.legacy_unverified
           /\ report.excluded_count = Len(SelectSeq(question.opportunities, LAMBDA o : ~proven(o)))
  /\ Asked("summary") =>
       LET s == Review!Summary(question.lines)
           changes == {question.lines[k].pct : k \in DOMAIN question.lines} \ {NULL}
           average == s.weighted_average_price_increase_pct
       IN  /\ s.matched_skus + s.unmatched_skus + s.new_skus + s.discontinued_skus = Len(question.lines)
           /\ average # NULL => /\ \E c \in changes : c <= average
                                /\ \E c \in changes : c >= average

\* A number that is shown is made of numbers that are known: a cycle that is stored is made of
\* the three stored days, a net revenue of every line, a forecast of every week, an age of stock
\* of a day on which less of it was found than before, or of the first count; and a node of the
\* canvas alarms for what is known only (_apply_days_metric_storage_boundary,
\* calculate_gross_to_net_waterfall, build_13_week_cash_forecast,
\* calculate_days_since_last_movement, build_management_lens, build_inventory_lens).
UnknownStaysUnknown ==
  /\ Asked("capital") =>
       LET q == question
           stored == Accounts!StorageBoundary(
             Accounts!WorkingCapital(q.ar, q.ap, q.inventory, q.revenue, q.cogs, q.cash))
           lens   == Canvas!ManagementLens(<<stored>>, {})
           node(n) == CHOOSE x \in lens.nodes : x.id = <<n>>
       IN  /\ stored.ccc # NULL => /\ NULL \notin {stored.dso, stored.dio, stored.dpo}
                                   /\ stored.ccc = stored.dio + stored.dso - stored.dpo
           /\ \A n \in {"dso", "dio", "dpo", "ccc"} :
                stored[n] # NULL => stored[n] \in -StorageMax .. StorageMax
           /\ stored.ccc = NULL =>
                \/ 0 \in {q.revenue, q.cogs}
                \/ stored.ccc_unavailable # {} \/ "ccc" \in stored.out_of_range
           /\ stored.ccc # NULL =>
                node("ccc").metric = node("dio").metric + node("dso").metric - node("dpo").metric
           /\ \A n \in {"dso", "dio", "dpo", "ccc"} : node(n).status # "positive" => stored[n] # NULL
  /\ Asked("waterfall") =>
       LET net == Accounts!GrossToNet(100, question.lines)
       IN  net.net_revenue = NULL <=> \E n \in DOMAIN question.lines : question.lines[n] = NULL
  /\ Asked("forecast") =>
       LET plain == [receipts |-> Savings!CashReceipts(3, 2, 1), costs |-> 1,
                     payments |-> Savings!SupplierPayments(0, 1)]
           weeks == [k \in 1 .. question.length |-> IF k = question.odd THEN question.week ELSE plain]
           cash  == Savings!CashForecast(question.opening, weeks)
           w     == question.week
       IN  IF NULL \in {w.receipts, w.payments, w.costs} \/ question.length # 13
             THEN cash.weeks = NULL
             ELSE /\ cash.weeks[13].ending_cash = question.opening + w.receipts - w.payments - w.costs
                  /\ cash.first_overdraft_week # NULL <=> cash.weeks[question.odd].ending_cash < 0
  /\ Asked("stock") =>
       LET counts == question.counts
           days   == DOMAIN counts
           found  == {[location |-> 1, item |-> "x", day |-> d, quantity |-> counts[d],
                       expiry |-> question.expiry] : d \in days}
           row    == CHOOSE r \in Canvas!Summaries(found, 5) : TRUE
           since  == 5 - row.last_movement_days
           aging  == CHOOSE n \in Canvas!InventoryLens({1}, found, 5, 3).nodes : n.id = <<"aging", 1>>
       IN  /\ aging.status = "critical" <=> question.expiry = 4
           /\ aging.status = "positive" => Cardinality(days) = 1 \/ since > 1
           /\ IF Cardinality(days) = 1 THEN row.last_movement_days = NULL
              ELSE /\ since \in days
                   /\ \A d, e \in days : since <= d /\ d < e => counts[d] <= counts[e]
                   /\ (\E d \in days : d < since) =>
                        \E d \in days : d < since /\ counts[d] > counts[since]

\* A conventional project pays back within its years exactly if it is worth its outlay, up to
\* the rounding of its value, then has a rate of return, and no tax allowance takes its payback
\* away (calculate_npv, calculate_irr, calculate_discounted_payback_period,
\* apply_tax_shield_to_cash_flows).
PaybackAgreesWithNpv ==
  Asked("project") =>
    LET flows == question.flows
        conventional == flows[1] < 0 /\ Invest!SignChanges(flows) <= 1
        found == Invest!Evaluate(question.percent, flows, 1, 50)
        back  == found.discounted_payback_period
        shielded == Invest!TaxShielded(Tail(flows), [k \in DOMAIN Tail(flows) |-> 10], 30)
    IN  /\ conventional /\ back # NULL => found.npv >= 0
        /\ conventional /\ found.npv > 0 => back # NULL /\ found.has_irr
        /\ back # NULL => 0 < back.part /\ back.part <= back.of
        /\ conventional /\ back # NULL =>
             Invest!DiscountedPayback(question.percent, <<flows[1]>> \o shielded) # NULL

-----------------------------------------------------------------------------
(* Items and dates                                                          *)

\* An item is never taken for another variant of itself on its description alone, and such a
\* candidate never hides one that may be taken (score_pair, find_best_match).
VariantsAreNeverMatched ==
  Asked("match") =>
    LET old   == question.old
        best  == Match!BestMatch(old, question.candidates)
        chosen == question.candidates[best.match]
    IN  best.match # NULL =>
          /\ Match!ConflictingVariant(old.text, chosen.text) /\ ~Match!Same(old.sku, chosen.sku)
               => best.status = "manual_review_required"
          /\ (\E k \in DOMAIN question.candidates : old.text = question.candidates[k].text)
               => best.status = "auto_matched"

\* The dates of renewals are real dates of the month that is due, also when the term is
\* counted in two parts, and never a later day of the month than the first (_add_months).
RenewalsKeepTheirMonth ==
  Asked("renewal") =>
    LET q == question
        date == <<q.year, q.month, q.day>>
        once == Contract!AddMonths(date, q.first + q.second)
        twice == Contract!AddMonths(Contract!AddMonths(date, q.first), q.second)
    IN  q.day <= Contract!DaysInMonth(q.year, q.month) =>
          /\ 12 * once[1] + once[2] = 12 * q.year + q.month + q.first + q.second
          /\ once[1] = twice[1] /\ once[2] = twice[2] /\ twice[3] <= once[3]
          /\ once[2] \in 1 .. 12 /\ once[3] <= Contract!DaysInMonth(once[1], once[2])

=============================================================================
