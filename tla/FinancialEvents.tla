--------------------------- MODULE FinancialEvents ---------------------------
(***************************************************************************)
(* P-03, the evidence trail behind every money figure that the product     *)
(* shows: the table financial_amount_status_events, its CHECK constraints  *)
(* and the deferred constraint triggers of migrations 0021 and 0024, as    *)
(* operators.  The components that write figures (opportunities and rebate *)
(* periods) share this module, as they share the table.                    *)
(*                                                                         *)
(* A figure is what the parent row keeps about one measure: the amount and *)
(* where it comes from.  A timestamp column only has to be null or tell    *)
(* two events apart, so calculatedAt and approvedAt hold the version of    *)
(* the event that wrote them.                                              *)
(***************************************************************************)
EXTENDS Integers

CONSTANT NULL          \* the SQL NULL

Measures == {"expected_amount", "annual_financial_impact", "realised_savings"}

Statuses == {"unknown", "not_applicable", "legacy_unverified",
             "estimated", "calculated", "confirmed"}

Reasons == {"initial_backfill", "manual_estimate", "recalculation",
            "evidence_received", "correction", "evidence_withdrawn",
            "source_data_restated"}

\* The reason codes under which a figure may lose evidence quality.
Corrective == {"correction", "evidence_withdrawn", "source_data_restated"}

-----------------------------------------------------------------------------
(* Figures                                                                  *)

\* The old_* columns of a genesis event: nothing precedes it.
NoFigure ==
  [amount |-> NULL, status |-> NULL, basis |-> NULL, calculatedAt |-> NULL,
   approvedAt |-> NULL, approvedBy |-> NULL, from |-> NULL, until |-> NULL]

Unknown == [NoFigure EXCEPT !.status = "unknown"]

\* The columns the combination checks constrain.  An expected_amount event
\* may carry an effective period, which no constraint looks at.
Constrained(m) ==
  {"amount", "basis", "calculatedAt", "approvedAt", "approvedBy"}
    \cup (IF m = "expected_amount" THEN {} ELSE {"from", "until"})

\* The statuses each measure may have: a forecast is never confirmed, and a
\* realised figure is never an estimate.
StatusesOf(m) ==
  CASE m = "expected_amount"         -> Statuses
    [] m = "annual_financial_impact" -> Statuses \ {"confirmed"}
    [] m = "realised_savings"        -> Statuses \ {"estimated"}

PeriodColumns(m) ==
  CASE m = "expected_amount"         -> {}
    [] m = "annual_financial_impact" -> {"from"}
    [] m = "realised_savings"        -> {"from", "until"}

\* The columns that must be set in a status; the other constrained ones are null.
Required(m, status) ==
  CASE status \in {"unknown", "not_applicable"} -> {}
    [] status = "legacy_unverified" -> {"amount"}
    [] status = "estimated"  -> {"amount", "basis"} \cup PeriodColumns(m)
    [] status = "calculated" -> {"amount", "basis", "calculatedAt"} \cup PeriodColumns(m)
    [] status = "confirmed"  -> {"amount", "basis", "approvedAt", "approvedBy"}
                                  \cup PeriodColumns(m)

Bases(m, status) ==
  CASE status = "estimated" -> {"manual_estimate"}
    [] status = "calculated" /\ m = "expected_amount" -> {"contract_terms_calculation"}
    [] status = "calculated" /\ m = "annual_financial_impact" -> {"price_review_calculation"}
    [] status = "calculated" /\ m = "realised_savings" -> {"actual_cost_data_calculation"}
    [] status = "confirmed" /\ m = "expected_amount" -> {"supplier_statement", "credit_note"}
    [] status = "confirmed" /\ m = "realised_savings" -> {"reconciled_actuals"}
    [] OTHER -> {NULL}

\* ck_famev_status_valid_for_measure and ck_famev_state_combination, and the
\* same checks on the snapshot columns of the two parent tables.
ValidFigure(m, f) ==
  /\ f.status \in StatusesOf(m)
  /\ \A c \in Constrained(m) : (f[c] # NULL) <=> (c \in Required(m, f.status))
  /\ f.basis \in Bases(m, f.status)
  /\ m = "realised_savings" /\ f.from # NULL => f.from <= f.until

-----------------------------------------------------------------------------
(* Events.  The key of a chain of events is its parent row and its measure. *)

Event(p, m, version, old, new, reason, evidence) ==
  [parent |-> p, measure |-> m, version |-> version, old |-> old, new |-> new,
   reason |-> reason, evidence |-> evidence]

Chain(events, p, m) == {e \in events : e.parent = p /\ e.measure = m}

\* SELECT max(event_version), as "current_max or 0".
LatestVersion(events, p, m) ==
  CHOOSE v \in {0} \cup {e.version : e \in Chain(events, p, m)} :
    \A e \in Chain(events, p, m) : e.version <= v

Tier(status) ==
  CASE status \in {"unknown", "not_applicable"} -> 0
    [] status = "legacy_unverified" -> 1
    [] status = "estimated"  -> 2
    [] status = "calculated" -> 3
    [] status = "confirmed"  -> 4

LegalChange(oldStatus, newStatus, reason) ==
  Tier(newStatus) < Tier(oldStatus) => reason \in Corrective

\* What INSERT checks at once: the CHECK constraints and the unique versions.
EventInsertable(events, e) ==
  /\ e.version > 0
  /\ e.version = 1 => e.old = NoFigure
  /\ e.reason \in Reasons
  /\ ValidFigure(e.measure, e.new)
  /\ \A d \in Chain(events, e.parent, e.measure) : d.version # e.version

\* trg_event_chain_integrity, at COMMIT.
ChainIntegrity(events, e) ==
  e.version > 1 =>
    \E prev \in Chain(events, e.parent, e.measure) :
      /\ prev.version = e.version - 1
      /\ e.old = prev.new
      /\ LegalChange(prev.new.status, e.new.status, e.reason)

\* trg_confirmed_event_requires_evidence, at COMMIT.
EvidenceSufficient(e) ==
  e.new.status = "confirmed" =>
    CASE e.measure = "realised_savings" ->
           {"documented_baseline", "actual_cost_source",
            "variance_calculation_reference"} \subseteq e.evidence
      [] e.measure = "expected_amount" ->
           e.evidence \cap {"supplier_statement", "credit_note"} # {}
      [] OTHER -> TRUE

\* The parent row triggers of migration 0024, at COMMIT: the pointer of the row
\* names the latest event of its chain, and the snapshot columns repeat it.
SnapshotMatches(events, p, m, figure, currentEvent) ==
  /\ currentEvent # NULL
  /\ currentEvent = LatestVersion(events, p, m)
  /\ \E e \in Chain(events, p, m) : e.version = currentEvent /\ e.new = figure

-----------------------------------------------------------------------------
(* The unit of work of SQLAlchemy: what a flush leaves of the committed row  *)
(* r when the session loaded it as c and made it n.                         *)

\* One column of an UPDATE: written only when it differs from the loaded copy.
Column(inRow, inCopy, new) == IF new = inCopy THEN inRow ELSE new

FlushFigure(r, c, n) ==
  [amount       |-> Column(r.amount, c.amount, n.amount),
   status       |-> Column(r.status, c.status, n.status),
   basis        |-> Column(r.basis, c.basis, n.basis),
   calculatedAt |-> Column(r.calculatedAt, c.calculatedAt, n.calculatedAt),
   approvedAt   |-> Column(r.approvedAt, c.approvedAt, n.approvedAt),
   approvedBy   |-> Column(r.approvedBy, c.approvedBy, n.approvedBy),
   from         |-> Column(r.from, c.from, n.from),
   until        |-> Column(r.until, c.until, n.until)]

=============================================================================
