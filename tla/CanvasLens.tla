------------------------------- MODULE CanvasLens -------------------------------
(***************************************************************************)
(* analytics/canvas_lens with the queries of services/canvas_service, and    *)
(* analytics/canvas_payload.  A graph is its nodes and its edges; a node is  *)
(* [id, metric, status].  Labels and the details of a node are left out.     *)
(***************************************************************************)
EXTENDS Decimals, FiniteSets

CONSTANTS NULL, Refused, StorageMax

Inventory == INSTANCE InventoryCalculations
Spend     == INSTANCE SpendAnalytics
Rebate    == INSTANCE RebateCalculations WITH Parts <- 1
Accounting == INSTANCE ManagementAccounting

Node(id, metric, status) == [id |-> id, metric |-> metric, status |-> status]
Edge(from, to, status) == [from |-> from, to |-> to, status |-> status]
EmptyGraph == [nodes |-> {}, edges |-> {}]

Summed(set, Amount(_)) ==
  LET sum[s \in SUBSET set] ==
        IF s = {} THEN 0 ELSE LET x == CHOOSE x \in s : TRUE IN Amount(x) + sum[s \ {x}]
  IN  sum[set]

-----------------------------------------------------------------------------
(* Procurement                                                              *)

CategoryOf(s) == IF s.category = NULL THEN "Uncategorised" ELSE s.category

\* Only what is known of the open and closed periods can have leaked.
AggregateLeakage(periods) ==
  LET evidenced == {p \in periods : p.expectedStatus \in {"estimated", "calculated", "confirmed"}}
  IN  Summed(evidenced, LAMBDA p : Rebate!Leakage(p.expected, p.received))

\* build_procurement_lens and build_procurement_lens_graph, of suppliers [id, category,
\* deleted], the purchases of the organisation, its rebate periods and its contracts [id,
\* supplier, status].
ProcurementLens(suppliers, ledger, periods, contracts) ==
  LET shown    == {s \in suppliers : ~s.deleted}
      spend    == Spend!SpendBySupplier(ledger)
      total(s) == Total([k \in DOMAIN spend |-> IF spend[k].key = s.id THEN spend[k].amount ELSE 0])
      categories == {CategoryOf(s) : s \in shown}
      leakage  == AggregateLeakage(periods)
      renewals == {c \in contracts : /\ c.status \in {"expiring_soon", "notice_period_open"}
                                     /\ \E s \in shown : s.id = c.supplier}
  IN  IF shown = {} THEN EmptyGraph
      ELSE [nodes |->
              {Node(<<"supplier", s.id>>, total(s), "positive") : s \in shown}
                \cup {Node(<<"category", c>>,
                           Summed({s \in shown : CategoryOf(s) = c}, total), "positive") : c \in categories}
                \cup {Node(<<"rebate_leakage">>, leakage, IF leakage > 0 THEN "critical" ELSE "positive")}
                \cup {Node(<<"contract", c.id>>, 0,
                           IF c.status = "notice_period_open" THEN "critical" ELSE "warning") : c \in renewals},
            edges |->
              {Edge(<<"supplier", s.id>>, <<"category", CategoryOf(s)>>, "positive") : s \in shown}
                \cup {Edge(<<"category", c>>, <<"rebate_leakage">>, "positive") : c \in categories}
                \cup {Edge(<<"supplier", c.supplier>>, <<"contract", c.id>>, "warning") : c \in renewals}]

-----------------------------------------------------------------------------
(* Inventory                                                                *)

\* build_inventory_lens: one summary per item at a place, of its history by day; the expiry is the
\* last one recorded, the warning window the default of 30 days.
Summaries(snapshots, today) ==
  LET Before(a, b) == a.day < b.day
      items == {[location |-> s.location, item |-> s.item] : s \in snapshots}
      History(i) == Spend!SetToSortSeq({s \in snapshots : s.location = i.location /\ s.item = i.item}, Before)
  IN  {[location |-> i.location, item |-> i.item,
        expiry_status |-> Inventory!ExpiryRisk(History(i)[Len(History(i))].expiry, today, 30),
        last_movement_days |-> Inventory!DaysSinceMovement(History(i), today)] : i \in items}

\* build_inventory_lens_graph: a row can be flagged twice, by its expiry and by its age.
InventoryLens(locations, snapshots, today, staleDays) ==
  LET rows(l)  == {r \in Summaries(snapshots, today) : r.location = l}
      expired(l) == Cardinality({r \in rows(l) : r.expiry_status = "expired"})
      soon(l)  == Cardinality({r \in rows(l) : r.expiry_status = "expiring_soon"})
      stale(l) == Cardinality({r \in rows(l) : /\ r.last_movement_days # NULL
                                               /\ r.last_movement_days > staleDays})
      status(l) == IF expired(l) > 0 THEN "critical"
                   ELSE IF soon(l) > 0 \/ stale(l) > 0 THEN "warning" ELSE "positive"
      stocked == {l \in locations : rows(l) # {}}
  IN  [nodes |-> {Node(<<"location", l>>, Cardinality(rows(l)), "positive") : l \in locations}
                   \cup {Node(<<"aging", l>>, expired(l) + soon(l) + stale(l), status(l)) : l \in stocked},
       edges |-> {Edge(<<"location", l>>, <<"aging", l>>, status(l)) : l \in stocked}]

-----------------------------------------------------------------------------
(* Management accounting                                                    *)

DaysStatus(days) ==
  IF days = NULL THEN "positive"
  ELSE CASE days <= 600 -> "positive"
         [] days > 600 /\ days <= 900 -> "warning"
         [] days > 900 -> "critical"

Shown(days) == IF days = NULL THEN 0 ELSE days

Chain == <<"gross_revenue", "cogs", "warehouse_abc", "logistics_cts", "net_profitability",
           "working_capital_summary">>

\* build_management_lens and build_management_lens_graph, of the working capital snapshots
\* (the latest first) and the rows of the cost-to-serve ledger, of both those that correct nothing.
\* The node of the gross revenue shows the sum of the net revenue; the variances are details of
\* their nodes.
ManagementLens(snapshots, ledger) ==
  LET current == snapshots[1]
      sum(Column(_)) == Summed(ledger, Column)
      margin  == sum(LAMBDA r : r.net_margin)
      days(name) == Node(<<name>>, Shown(current[name]), DaysStatus(current[name]))
  IN  IF snapshots = <<>> THEN EmptyGraph
      ELSE [nodes |->
              {Node(<<"gross_revenue">>, sum(LAMBDA r : r.net_revenue), "positive"),
               Node(<<"cogs">>, sum(LAMBDA r : r.cogs), "positive"),
               Node(<<"warehouse_abc">>, sum(LAMBDA r : r.warehouse), "positive"),
               Node(<<"logistics_cts">>, sum(LAMBDA r : r.logistics), "positive"),
               Node(<<"net_profitability">>, margin, IF margin < 0 THEN "critical" ELSE "positive"),
               Node(<<"working_capital_summary">>, 0, "positive")}
                \cup {days(name) : name \in {"dso", "dio", "dpo", "ccc"}},
            edges |->
              {Edge(<<Chain[k]>>, <<Chain[k + 1]>>, "positive") : k \in 1 .. Len(Chain) - 1}
                \cup {Edge(<<"working_capital_summary">>, <<m>>, "positive") : m \in {"dso", "dio", "dpo"}}
                \cup {Edge(<<m>>, <<"ccc">>, "warning") : m \in {"dso", "dio", "dpo"}}]

DaysVariance(snapshots, name) ==
  Accounting!VarianceVsPrior(snapshots[1][name], IF Len(snapshots) > 1 THEN snapshots[2][name] ELSE NULL)

-----------------------------------------------------------------------------
(* The payload                                                              *)

\* build_widget_result: a refusal is the diagnosis of one layer.
Widget(result) ==
  IF result = Refused THEN [status |-> "diagnostic", data |-> NULL]
  ELSE [status |-> "ok", data |-> result]

\* build_management_canvas_payload: all four layers, whatever becomes of each.
Payload(layers) == [l \in {"revenue", "operations", "liquidity", "risk"} |-> Widget(layers[l])]

=============================================================================
