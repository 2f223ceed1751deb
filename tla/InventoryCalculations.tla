------------------------- MODULE InventoryCalculations -------------------------
(***************************************************************************)
(* analytics/inventory_calculations and inventory_valuation_aggregation.     *)
(* A day is a number, money counts ten-thousandths, quantities are whole;    *)
(* NULL is None.                                                            *)
(***************************************************************************)
EXTENDS Decimals, FiniteSets

CONSTANT NULL

\* validate_snapshot_grain: the sets of rows of a batch that describe one item at one place
\* on one day.
GrainViolations(rows) ==
  {same \in {{j \in DOMAIN rows : rows[j] = rows[i]} : i \in DOMAIN rows} : Cardinality(same) > 1}

\* Mutant: a delivery counts as a movement.
DaysSinceMovement_AnyChange(history, today) ==
  LET moved == {k \in 2 .. Len(history) : history[k].quantity # history[k - 1].quantity}
  IN  IF Len(history) < 2 THEN NULL
      ELSE today - (IF moved = {} THEN history[1]
                    ELSE history[CHOOSE k \in moved : \A j \in moved : j <= k]).day

\* calculate_days_since_last_movement, of a history that is sorted by day: since the last
\* fall of the quantity, or since the first snapshot.
DaysSinceMovement(history, today) ==
  LET fell == {k \in 2 .. Len(history) : history[k].quantity < history[k - 1].quantity}
  IN  IF Len(history) < 2 THEN NULL
      ELSE today - (IF fell = {} THEN history[1]
                    ELSE history[CHOOSE k \in fell : \A j \in fell : j <= k]).day

\* calculate_excess_stock_value
ExcessStockValue(quantity, reorder, cost) ==
  IF NULL \in {reorder, cost} THEN NULL
  ELSE (IF quantity > reorder THEN quantity - reorder ELSE 0) * cost

\* classify_expiry_risk: the last day of the window is in it.
ExpiryRisk(expiry, today, window) ==
  IF expiry = NULL THEN "no_expiry_tracked"
  ELSE CASE expiry < today -> "expired"
         [] expiry >= today /\ expiry - today <= window -> "expiring_soon"
         [] expiry >= today /\ expiry - today > window -> "healthy"

\* calculate_batch_asset_valuation: a total that a record brings is not believed.
BatchValuation(records) ==
  Total([k \in DOMAIN records |-> IF NULL \in {records[k].quantity, records[k].cost} THEN 0
                                  ELSE records[k].quantity * records[k].cost])

=============================================================================
