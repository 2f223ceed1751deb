------------------------------- MODULE RouteCosts -------------------------------
(***************************************************************************)
(* analytics/logistics_engine, api/v1/logistics and                         *)
(* services/route_profitability_service: what a delivery trip costs and what *)
(* it leaves.  Money counts ten-thousandths; distances, volumes, lines and   *)
(* minutes are whole, a multiplier counts tenths.  Refused is a ValueError.  *)
(***************************************************************************)
EXTENDS Decimals

CONSTANTS NULL, Refused, StorageMax

Accounting == INSTANCE ManagementAccounting

\* Mutant: the cost of a kilometre is rounded before the legs are priced with it.
SegregatedRouteCost_RateFirst(stem, drop, return, pool) ==
  LET rate == RoundHalfEven(pool, stem + drop + return)
  IN  IF stem <= 0 \/ return <= 0 \/ drop < 0 \/ pool <= 0 THEN Refused
      ELSE [fixed_stem_cost |-> (stem + return) * rate, variable_drop_cost |-> drop * rate,
            total_distance_km |-> stem + drop + return]

\* calculate_segregated_route_cost
SegregatedRouteCost(stem, drop, return, pool) ==
  LET distance == stem + drop + return
  IN  IF stem <= 0 \/ return <= 0 \/ drop < 0 \/ pool <= 0 THEN Refused
      ELSE [fixed_stem_cost |-> RoundHalfEven((stem + return) * pool, distance),
            variable_drop_cost |-> RoundHalfEven(drop * pool, distance),
            total_distance_km |-> distance]

\* calculate_trip_fixed_cost: a trip may do without a second driver only.
TripFixedCost(driver, coDriver, vehicle) ==
  IF driver <= 0 \/ coDriver < 0 \/ vehicle <= 0 THEN Refused ELSE driver + coDriver + vehicle

\* calculate_distance_variable_cost: the multiplier is of the leg between drops.
DistanceVariableCost(stem, drop, rate, multiplier) ==
  LET between == RoundHalfEven(drop * rate * multiplier, 10)
  IN  IF stem < 0 \/ drop < 0 \/ rate <= 0 \/ multiplier < 10 THEN Refused
      ELSE [stem_leg_cost |-> stem * rate, drop_leg_cost |-> between, total |-> stem * rate + between]

\* calculate_warehouse_picking_labor_cost
PickingCost(lines, cube, perLine, perCube) ==
  IF lines <= 0 \/ cube <= 0 THEN Refused ELSE lines * perLine + cube * perCube

\* calculate_drop_latency_demurrage_cost: only what exceeds the free time.
DemurrageCost(atBay, free, rate) ==
  IF atBay < 0 \/ free < 0 THEN Refused ELSE (IF atBay > free THEN atBay - free ELSE 0) * rate

\* calculate_true_route_profitability
RouteProfitability(revenue, cogs, tradeSpend, basis, fixed, variable, activity) ==
  LET result == Accounting!NetMargin(revenue, cogs, fixed + variable, activity, tradeSpend, basis)
  IN  IF result = Refused THEN Refused
      ELSE [net_revenue |-> result.net_revenue, gross_margin |-> result.gross_margin,
            trip_fixed_costs |-> fixed, distance_variable_costs |-> variable,
            activity_time_costs |-> activity, net_net_profit |-> result.net_margin,
            is_net_revenue_negative |-> result.is_net_revenue_negative]

\* ingest_route_profitability: the rows after the call; a refused figure leaves no row.
\* Any row may be named as the one that is corrected.
IngestRoute(rows, trip, figures, corrects) ==
  IF figures = Refused THEN rows
  ELSE rows \cup {[trip |-> trip, net_net_profit |-> figures.net_net_profit, corrects |-> corrects]}

\* create_route_profitability: no figure that a caller supplies is evidence, so that
\* every call is refused before it is looked at.
RouteRequest(payload) == "evidence_required"

=============================================================================
