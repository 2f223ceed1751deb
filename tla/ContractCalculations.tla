------------------------- MODULE ContractCalculations -------------------------
(***************************************************************************)
(* analytics/contract_calculations.py: the status of a contract on a day,  *)
(* the alerts that are due, the next renewal and the escalated price.      *)
(*                                                                         *)
(* A date is a day number, except where months are added to it: there it   *)
(* is <<year, month, day>>.  A rate is a count of 1 / PriceRateUnit; a     *)
(* price that is given counts 1 / PriceParts of the quantum of the prices   *)
(* that are returned.                                                      *)
(***************************************************************************)
EXTENDS Decimals

CONSTANTS
  Thresholds,   \* DEFAULT_ALERT_THRESHOLDS_DAYS: 180, 90, 60 and 30
  SoonDays      \* expiring_soon_threshold_days: 90

PriceRateUnit == 100
PriceParts == 10

NoticeDeadline(expiry, noticeDays) == expiry - noticeDays

\* classify_contract_status
StatusOn(today, c) ==
  LET deadline == NoticeDeadline(c.expiry, c.notice)
  IN  CASE today > c.expiry -> "expired"
        [] today <= c.expiry /\ today > deadline ->
             IF c.autoRenew THEN "auto_renewing" ELSE "notice_period_open"
        [] today <= deadline /\ c.expiry - today <= SoonDays -> "expiring_soon"
        [] today <= deadline /\ c.expiry - today > SoonDays  -> "active"

\* The types of contract_alerts: "expiry_N" is N here.
NoticeAlert == 0

\* Mutant: a threshold fires on its own day only, like the notice.
DueAlerts_OnTheDay(today, c, fired) ==
  ({n \in Thresholds : c.expiry - today = n}
     \cup {n \in {NoticeAlert} : today = NoticeDeadline(c.expiry, c.notice)}) \ fired

\* determine_due_alerts: every threshold that has been crossed, also long ago,
\* but the notice alert on one day only.
DueAlerts(today, c, fired) ==
  ({n \in Thresholds : c.expiry - today <= n}
     \cup {n \in {NoticeAlert} : today = NoticeDeadline(c.expiry, c.notice)}) \ fired

-----------------------------------------------------------------------------
(* Renewal                                                                  *)

DaysInMonth(year, month) ==
  CASE month \in {4, 6, 9, 11} -> 30
    [] month = 2 -> IF (year % 4 = 0 /\ year % 100 # 0) \/ year % 400 = 0 THEN 29 ELSE 28
    [] month \notin {2, 4, 6, 9, 11} -> 31

\* Mutant: the months are counted from one.
AddMonths_FromOne(date, months) ==
  LET index == date[2] + months
      year  == date[1] + (index \div 12)
      month == (index % 12) + 1
      last  == DaysInMonth(year, month)
  IN  <<year, month, IF date[3] <= last THEN date[3] ELSE last>>

\* _add_months: the day is clamped to the length of the month.
AddMonths(date, months) ==
  LET index == date[2] - 1 + months
      year  == date[1] + (index \div 12)
      month == (index % 12) + 1
      last  == DaysInMonth(year, month)
  IN  <<year, month, IF date[3] <= last THEN date[3] ELSE last>>

-----------------------------------------------------------------------------
(* Escalation                                                               *)

\* price * (1 + rate) ** periods, rounded once.
Compound(price, rate, periods) ==
  RoundHalfEven(price * (PriceRateUnit + rate) ^ periods, PriceParts * PriceRateUnit ^ periods)

\* calculate_escalated_price_for_contract: the set of its result, empty where it
\* raises; rate and index are sets of at most one element, empty for None.
EscalatedPrice(price, type, rate, index, periods) ==
  CASE type # "cpi_linked" /\ index # {} -> {}
    [] type = "none" /\ index = {} -> {RoundHalfEven(price, PriceParts)}
    [] type = "fixed_percentage" /\ index = {} -> {Compound(price, r, periods) : r \in rate}
    [] type = "cpi_linked" -> {Compound(price, i, periods) : i \in index}
    [] type \in {"tiered", "negotiated"} /\ index = {} -> {}

\* calculate_tiered_escalated_price: the highest band that the spend has reached,
\* the first of equals; bands is a non-empty sequence of [threshold, rate], and the spend
\* is in the unit of their thresholds.
TieredPrice(price, spend, bands) ==
  LET reached == {i \in DOMAIN bands : spend >= bands[i].threshold}
      best    == CHOOSE i \in reached : \A j \in reached :
                   \/ bands[j].threshold < bands[i].threshold
                   \/ bands[j].threshold = bands[i].threshold /\ i <= j
  IN  IF reached = {} THEN RoundHalfEven(price, PriceParts) ELSE Compound(price, bands[best].rate, 1)

=============================================================================
