---------------------------- MODULE RebatePeriods ----------------------------
(***************************************************************************)
(* The rebate periods of one supplier (services/rebate_service.py and      *)
(* services/rebate_aggregation_service.py) under the requests that write   *)
(* them: recording a period by hand, ingesting an invoice or a batch of    *)
(* transactions (services/purchase_ledger_service.py and                   *)
(* services/purchase_transaction_service.py), closing a period and         *)
(* recording a receipt.                                                    *)
(*                                                                         *)
(* An ingest adds its document, invisible until it commits, SELECTs the    *)
(* open periods that the document overlaps and re-aggregates one after the *)
(* other, each with statements that see whatever has committed by then.    *)
(* As in OpportunityWaterfall a session works on the copies that it loaded *)
(* and flushes the columns that it changed; the row locks that the flushes *)
(* take are held to the end, and COMMIT runs the triggers of P-03.         *)
(***************************************************************************)
EXTENDS FinancialEvents, Sequences, FiniteSets, FiniteSetsExt

CONSTANTS
  Periods,     \* rebate periods, by their agreement, start and end
  StartOf,     \* period_start of each
  EndOf,       \* period_end of each
  Terms,       \* the terms of the agreement of each, as RebateCalculations has them
  Parts,       \* the parts of an amount that a threshold of theirs counts
  Docs,        \* documents: an invoice or a batch of transactions
  KindOf,      \* "invoice" or "transaction", of each
  RowsOf,      \* the lines of each, a non-empty sequence of <<date, amount>>
  Sessions,    \* concurrent requests
  Spends,      \* what users enter as the spend of a period
  Receipts,    \* the amounts of credit notes
  Recorded,    \* the periods that migration 0021 found in the database
  FirstDay, LastDay  \* bound: the business dates of the organisation

ASSUME RebateAssumption ==
  /\ IsFiniteSet(Periods) /\ IsFiniteSet(Docs) /\ IsFiniteSet(Sessions)
  /\ Recorded \subseteq Periods
  /\ StartOf \in [Periods -> Int] /\ EndOf \in [Periods -> Int]
  /\ KindOf \in [Docs -> {"invoice", "transaction"}]
  /\ \A d \in Docs : RowsOf[d] \in Seq(Int \X Int)
  /\ Spends \subseteq Nat /\ Receipts \subseteq Nat /\ Parts \in Nat \ {0}
  /\ FirstDay \in Int /\ LastDay \in Int /\ FirstDay <= LastDay
  /\ NULL \notin Periods \cup Docs \cup Sessions \cup Int

\* The checks of RebateAgreementCreate and of migration 0005: every agreement has
\* the terms of its type.
ASSUME TermsAssumption ==
  \A p \in Periods :
    \/ Terms[p].type \in {"fixed_percentage", "volume", "growth"} /\ Terms[p].rate \in Int
    \/ /\ Terms[p].type \in {"tiered", "retrospective"}
       /\ Terms[p].bands \in Seq([threshold : Int, rate : Int])
    \/ Terms[p].type = "fixed_amount" /\ Terms[p].fixed \in Int

VARIABLES
  periods,     \* the committed row of each period, or NULL
  events,      \* the committed rows of financial_amount_status_events
  documents,   \* the committed documents
  today,       \* the business date
  rowLock,     \* the session that holds the row lock of a period, or NULL
  pc,          \* where the request of a session is
  request,     \* what the session asked for, NULL when idle
  todo,        \* the periods an ingest still has to re-aggregate, in its order
  loaded,      \* the rows in the session's identity map, as they were loaded
  dirty        \* the same rows as the session has changed them

tables  == <<periods, events, documents>>
session == <<pc, request, todo, loaded, dirty>>
vars    == <<tables, today, rowLock, session>>

Calc == INSTANCE RebateCalculations

-----------------------------------------------------------------------------
(* Rows                                                                     *)

Sources == {"manual", "transaction_aggregation", "invoice_aggregation"}

\* The order of trust of ADR-014.
Rank(source) ==
  CASE source = "manual"                  -> 0
    [] source = "transaction_aggregation" -> 1
    [] source = "invoice_aggregation"     -> 2

WorkflowStatuses ==
  {"on_track", "threshold_approaching", "period_closed_awaiting_payment",
   "leakage_detected", "reconciled"}

\* Mutant: the whole row is written back.
FlushRow_WholeRow(r, c, n) == n

FlushRow(r, c, n) ==
  [spend    |-> Column(r.spend, c.spend, n.spend),
   source   |-> Column(r.source, c.source, n.source),
   expected |-> FlushFigure(r.expected, c.expected, n.expected),
   event    |-> Column(r.event, c.event, n.event),
   earned   |-> Column(r.earned, c.earned, n.earned),
   received |-> Column(r.received, c.received, n.received),
   status   |-> Column(r.status, c.status, n.status)]

Legacy(p, spend) ==
  [NoFigure EXCEPT !.amount = Calc!ExpectedRebate(spend, Terms[p]),
                   !.status = "legacy_unverified"]

\* recalculate_expected of a row with a spend; v is the version of the event.
Calculated(p, spend, v) ==
  [NoFigure EXCEPT !.amount = Calc!ExpectedRebate(spend, Terms[p]),
                   !.status = "calculated",
                   !.basis = "contract_terms_calculation",
                   !.calculatedAt = v]

\* Mutant: a new period has a status that RebateStatus does not know.
NewRow_Open(spend, expected) ==
  [spend |-> spend, source |-> "manual", expected |-> expected, event |-> 1,
   earned |-> NULL, received |-> NULL, status |-> "open"]

NewRow(spend, expected) ==
  [spend |-> spend, source |-> "manual", expected |-> expected, event |-> 1,
   earned |-> NULL, received |-> NULL, status |-> "on_track"]

ExpectedEvent(p, v, old, new, reason) ==
  Event(p, "expected_amount", v, IF v = 1 THEN NoFigure ELSE old, new, reason, {})

\* _refresh_status: an amount nobody vouches for classifies nothing.
RefreshedStatus(row, closed) ==
  IF row.expected.status \in {"unknown", "legacy_unverified"}
    THEN row.status
    ELSE Calc!Classify(row.expected.amount, row.received, closed, FALSE)

-----------------------------------------------------------------------------
(* Documents                                                                *)

Invoices(docs)     == {d \in docs : KindOf[d] = "invoice"}
Transactions(docs) == {d \in docs : KindOf[d] = "transaction"}

DatesOf(d) == {RowsOf[d][i][1] : i \in DOMAIN RowsOf[d]}

\* The periods of the supplier that [min(dates), max(dates)] overlaps.
Overlapping(d) ==
  {p \in Periods : /\ \E date \in DatesOf(d) : StartOf[p] <= date
                   /\ \E date \in DatesOf(d) : EndOf[p] >= date}

\* The spend of the period in all the documents that a query returned.
SpendOf(p, docs) ==
  MapThenSumSet(LAMBDA d : Calc!SpendWithin(RowsOf[d], StartOf[p], EndOf[p]), docs)

\* What the session sees: what has committed and what it added itself.
Visible(s) == documents \cup {request[s].doc}

-----------------------------------------------------------------------------
(* The transaction                                                          *)

\* Mutant: the event chain trigger is not installed.
Accepts_NoChainTrigger(evs, added, rows) ==
  /\ \A e \in added : EventInsertable(events, e)
  /\ \A p \in DOMAIN rows :
       /\ ValidFigure("expected_amount", rows[p].expected)
       /\ SnapshotMatches(evs, p, "expected_amount", rows[p].expected, rows[p].event)

\* Mutant: checks and triggers are disabled, as for a bulk load.
Accepts_Disabled(evs, added, rows) == TRUE

\* The CHECK constraints, the unique versions and, at COMMIT, the deferred
\* triggers, for the rows and the events that this transaction wrote.
Accepts(evs, added, rows) ==
  /\ \A e \in added : EventInsertable(events, e)
  /\ \A e \in added : ChainIntegrity(evs, e) /\ EvidenceSufficient(e)
  /\ \A p \in DOMAIN rows :
       /\ ValidFigure("expected_amount", rows[p].expected)
       /\ SnapshotMatches(evs, p, "expected_amount", rows[p].expected, rows[p].event)

\* COMMIT, or the rollback that a failed check turns it into: all of it or nothing.
Commit(rows, added, docs) ==
  IF Accepts(events \cup added, added, rows)
    THEN /\ periods' = [p \in Periods |-> IF p \in DOMAIN rows THEN rows[p] ELSE periods[p]]
         /\ events' = events \cup added
         /\ documents' = documents \cup docs
    ELSE UNCHANGED tables

ClearSession(s) ==
  /\ pc' = [pc EXCEPT ![s] = "idle"]
  /\ request' = [request EXCEPT ![s] = NULL]
  /\ todo' = [todo EXCEPT ![s] = <<>>]
  /\ loaded' = [loaded EXCEPT ![s] = <<>>]
  /\ dirty' = [dirty EXCEPT ![s] = <<>>]

\* Mutant: the connection goes back to the pool with its transaction open.
EndRequest_KeepsLocks(s) == ClearSession(s) /\ UNCHANGED <<today, rowLock>>

\* The request is over: its SQLAlchemy session, and every lock of it, is gone.
EndRequest(s) ==
  /\ ClearSession(s)
  /\ rowLock' = [p \in Periods |-> IF rowLock[p] = s THEN NULL ELSE rowLock[p]]
  /\ UNCHANGED today

\* The rows that COMMIT leaves of those that the session changed.
Flushed(s) == [p \in DOMAIN dirty[s] |-> FlushRow(periods[p], loaded[s][p], dirty[s][p])]

-----------------------------------------------------------------------------
Init ==
  /\ \E spend \in [Recorded -> Spends] :
       /\ periods = [p \in Periods |->
                       IF p \in Recorded THEN NewRow(spend[p], Legacy(p, spend[p])) ELSE NULL]
       /\ events = {ExpectedEvent(p, 1, NoFigure, Legacy(p, spend[p]), "initial_backfill") :
                      p \in Recorded}
  /\ documents = {}
  /\ today = FirstDay
  /\ rowLock = [p \in Periods |-> NULL]
  /\ pc = [s \in Sessions |-> "idle"]
  /\ request = [s \in Sessions |-> NULL]
  /\ todo = [s \in Sessions |-> <<>>]
  /\ loaded = [s \in Sessions |-> <<>>]
  /\ dirty = [s \in Sessions |-> <<>>]

\* A new business day.
Tick ==
  /\ today < LastDay
  /\ today' = today + 1
  /\ UNCHANGED <<tables, rowLock, session>>

-----------------------------------------------------------------------------
(* POST /rebates/{id}/periods: record_period_actual.  Nobody sees the row   *)
(* before it commits, and uq_rebate_period admits one row per period.       *)

RecordPeriod(s, p, spend) ==
  LET expected == Calculated(p, spend, 1)
  IN  /\ pc[s] = "idle" /\ periods[p] = NULL
      /\ Commit([q \in {p} |-> NewRow(spend, expected)],
                {ExpectedEvent(p, 1, NoFigure, expected, "manual_estimate")}, {})
      /\ EndRequest(s)

-----------------------------------------------------------------------------
(* POST /purchase-invoices and the upload of purchase transactions, with    *)
(* recalculate_affected_periods.                                            *)

\* The document is flushed, and the open periods are selected in any order.
StartIngest(s, d) ==
  LET found == {p \in Overlapping(d) : periods[p] # NULL /\ periods[p].earned = NULL}
  IN  /\ pc[s] = "idle"
      /\ d \notin documents
      /\ \A t \in Sessions : request[t] # NULL => request[t].doc # d
      /\ pc' = [pc EXCEPT ![s] = "aggregate"]
      /\ request' = [request EXCEPT ![s] = [kind |-> "ingest", doc |-> d]]
      /\ \E order \in [1 .. Cardinality(found) -> found] :
           /\ \A i, j \in DOMAIN order : order[i] = order[j] => i = j
           /\ todo' = [todo EXCEPT ![s] = order]
      /\ loaded' = [loaded EXCEPT ![s] = [p \in found |-> periods[p]]]
      /\ UNCHANGED <<tables, today, rowLock, dirty>>

\* The copy of the period gets the spend of the documents and their source.
Aggregate(s, p, source, docs) ==
  /\ dirty' = [dirty EXCEPT ![s] =
       [q \in DOMAIN dirty[s] \cup {p} |->
          IF q = p THEN [loaded[s][p] EXCEPT !.spend = SpendOf(p, docs), !.source = source]
                   ELSE dirty[s][q]]]
  /\ pc' = [pc EXCEPT ![s] = "write"]

\* Mutant: transactions are preferred.
ReadInvoices_TransactionsFirst(s) ==
  LET p        == Head(todo[s])
      invoices == Invoices(Visible(s))
  IN  /\ pc[s] = "aggregate" /\ todo[s] # <<>>
      /\ IF Transactions(Visible(s)) = {} /\ invoices # {}
           THEN Aggregate(s, p, "invoice_aggregation", invoices)
           ELSE pc' = [pc EXCEPT ![s] = "no_invoices"] /\ UNCHANGED dirty
      /\ UNCHANGED <<tables, today, rowLock, request, todo, loaded>>

\* _invoice_tuples, which does not look at the dates of the period: any invoice
\* of the supplier decides.
ReadInvoices(s) ==
  LET p        == Head(todo[s])
      invoices == Invoices(Visible(s))
  IN  /\ pc[s] = "aggregate" /\ todo[s] # <<>>
      /\ IF loaded[s][p].source = "invoice_aggregation" \/ invoices # {}
           THEN Aggregate(s, p, "invoice_aggregation", invoices)
           ELSE pc' = [pc EXCEPT ![s] = "no_invoices"] /\ UNCHANGED dirty
      /\ UNCHANGED <<tables, today, rowLock, request, todo, loaded>>

\* _transaction_tuples, likewise.  An ingest without an invoice sees at least its
\* own transactions, so the fallback to the source of the row is never taken.
ReadTransactions(s) ==
  /\ pc[s] = "no_invoices"
  /\ Aggregate(s, Head(todo[s]), "transaction_aggregation", Transactions(Visible(s)))
  /\ UNCHANGED <<tables, today, rowLock, request, todo, loaded>>

\* Mutant: the amount is calculated from the spend before the aggregation.
WriteExpected_OldSpend(s) ==
  LET p == Head(todo[s])
      v == LatestVersion(events, p, "expected_amount") + 1
  IN  /\ pc[s] = "write"
      /\ rowLock[p] = NULL
      /\ rowLock' = [rowLock EXCEPT ![p] = s]
      /\ dirty' = [dirty EXCEPT ![s][p].expected = Calculated(p, loaded[s][p].spend, v),
                                ![s][p].event = v]
      /\ todo' = [todo EXCEPT ![s] = Tail(@)]
      /\ pc' = [pc EXCEPT ![s] = "aggregate"]
      /\ UNCHANGED <<tables, today, request, loaded>>

\* recalculate_expected: the autoflush before SELECT ... FOR UPDATE, or that
\* SELECT, waits for the row lock; the next version is read under it.
WriteExpected(s) ==
  LET p == Head(todo[s])
      v == LatestVersion(events, p, "expected_amount") + 1
  IN  /\ pc[s] = "write"
      /\ rowLock[p] = NULL
      /\ rowLock' = [rowLock EXCEPT ![p] = s]
      /\ dirty' = [dirty EXCEPT ![s][p].expected = Calculated(p, dirty[s][p].spend, v),
                                ![s][p].event = v]
      /\ todo' = [todo EXCEPT ![s] = Tail(@)]
      /\ pc' = [pc EXCEPT ![s] = "aggregate"]
      /\ UNCHANGED <<tables, today, request, loaded>>

\* The events take their old_* values from the copies, not from the locked rows.
IngestCommit(s) ==
  /\ pc[s] = "aggregate" /\ todo[s] = <<>>
  /\ Commit(Flushed(s),
            {ExpectedEvent(p, dirty[s][p].event, loaded[s][p].expected,
                           dirty[s][p].expected, "recalculation") : p \in DOMAIN dirty[s]},
            {request[s].doc})
  /\ EndRequest(s)

\* Every session of D waits for a row that another one of D holds.
WaitCycle(D) ==
  \A t \in D : /\ pc[t] = "write"
               /\ rowLock[Head(todo[t])] \in D
               /\ \E u \in D : pc[u] = "write" /\ rowLock[Head(todo[u])] = t

\* PostgreSQL cancels one of the transactions of a cycle.
DeadlockAbort(s) ==
  /\ \E D \in SUBSET Sessions : s \in D /\ WaitCycle(D)
  /\ EndRequest(s)
  /\ UNCHANGED tables

-----------------------------------------------------------------------------
(* POST .../close and .../receipt: _get_period_actual, with the business date *)

LoadPeriod(s, p, r) ==
  /\ pc[s] = "idle" /\ periods[p] # NULL
  /\ pc' = [pc EXCEPT ![s] = r.kind]
  /\ request' = [request EXCEPT ![s] = r]
  /\ loaded' = [loaded EXCEPT ![s] = [q \in {p} |-> periods[p]]]
  /\ UNCHANGED <<tables, today, rowLock, todo, dirty>>

RequestClose(s, p) ==
  LoadPeriod(s, p, [kind |-> "close", doc |-> NULL, period |-> p, asOf |-> today])

RequestReceipt(s, p, amount) ==
  LoadPeriod(s, p, [kind |-> "receipt", doc |-> NULL, period |-> p, amount |-> amount])

\* The UPDATE waits for the row lock and holds it to the COMMIT that follows.
UpdatePeriod(s, new) ==
  LET p == request[s].period
  IN  /\ rowLock[p] = NULL
      /\ Commit([q \in {p} |-> FlushRow(periods[p], loaded[s][p], new)], {}, {})
      /\ EndRequest(s)

MayClose(s) ==
  LET p == request[s].period
  IN  /\ Calc!DueForClose(EndOf[p], request[s].asOf)
      /\ loaded[s][p].earned = NULL

CloseConflict(s) ==
  /\ pc[s] = "close" /\ ~MayClose(s)
  /\ EndRequest(s)
  /\ UNCHANGED tables

\* close_period
CloseCommit(s) ==
  LET copy == loaded[s][request[s].period]
  IN  /\ pc[s] = "close" /\ MayClose(s)
      /\ UpdatePeriod(s, [copy EXCEPT !.earned = copy.expected.amount,
                                      !.status = RefreshedStatus(copy, TRUE)])

\* record_receipt
ReceiptCommit(s) ==
  LET copy == loaded[s][request[s].period]
      paid == [copy EXCEPT !.received = request[s].amount]
  IN  /\ pc[s] = "receipt"
      /\ UpdatePeriod(s, [paid EXCEPT !.status = RefreshedStatus(paid, copy.earned # NULL)])

\* A worker dies or its client goes away: the server rolls the request back.
Crash(s) ==
  /\ pc[s] # "idle"
  /\ EndRequest(s)
  /\ UNCHANGED tables

-----------------------------------------------------------------------------
Ingest(s) == ReadInvoices(s) \/ ReadTransactions(s) \/ WriteExpected(s) \/ IngestCommit(s)
Close(s)  == CloseConflict(s) \/ CloseCommit(s)

Next ==
  \/ Tick
  \/ \E s \in Sessions :
       \/ \E p \in Periods, spend \in Spends : RecordPeriod(s, p, spend)
       \/ \E d \in Docs : StartIngest(s, d)
       \/ \E p \in Periods : RequestClose(s, p)
       \/ \E p \in Periods, amount \in Receipts : RequestReceipt(s, p, amount)
       \/ Ingest(s)
       \/ Close(s)
       \/ ReceiptCommit(s)
       \/ DeadlockAbort(s)
       \/ Crash(s)

\* PostgreSQL queues the waiters of a row lock and looks for cycles of them.
Fairness ==
  \A s \in Sessions :
    /\ SF_vars(Ingest(s)) /\ SF_vars(Close(s)) /\ SF_vars(ReceiptCommit(s))
    /\ WF_vars(DeadlockAbort(s))

Spec == Init /\ [][Next]_vars

FairSpec == Spec /\ Fairness

-----------------------------------------------------------------------------
(* Properties                                                               *)

Amounts == Int \cup {NULL}

Figures ==
  [amount : Amounts, status : {"legacy_unverified", "calculated"},
   basis : {"contract_terms_calculation", NULL}, calculatedAt : Nat \cup {NULL},
   approvedAt : {NULL}, approvedBy : {NULL}, from : {NULL}, until : {NULL}]

Rows ==
  [spend : Int, source : Sources, expected : Figures, event : Nat,
   earned : Amounts, received : Amounts, status : WorkflowStatuses]

ASSUME RowAssumption == NULL \notin Rows

Requests ==
  [kind : {"ingest"}, doc : Docs]
    \cup [kind : {"close"}, doc : {NULL}, period : Periods, asOf : FirstDay .. LastDay]
    \cup [kind : {"receipt"}, doc : {NULL}, period : Periods, amount : Receipts]

\* Rows of some of the periods, by period.
IsIdentityMap(m) == DOMAIN m \subseteq Periods /\ m \in [DOMAIN m -> Rows]

\* Every variable has its type.
TypeOK ==
  /\ periods \in [Periods -> Rows \cup {NULL}]
  /\ events \subseteq [parent : Periods, measure : {"expected_amount"},
                       version : Nat \ {0}, old : Figures \cup {NoFigure},
                       new : Figures, reason : Reasons, evidence : {{}}]
  /\ documents \subseteq Docs
  /\ today \in FirstDay .. LastDay
  /\ rowLock \in [Periods -> Sessions \cup {NULL}]
  /\ pc \in [Sessions -> {"idle", "aggregate", "no_invoices", "write", "close", "receipt"}]
  /\ request \in [Sessions -> Requests \cup {NULL}]
  /\ todo \in [Sessions -> Seq(Periods)]
  /\ DOMAIN loaded = Sessions /\ DOMAIN dirty = Sessions
  /\ \A s \in Sessions : IsIdentityMap(loaded[s]) /\ IsIdentityMap(dirty[s])

\* The expected amount of a period is what its agreement makes of the spend that
\* the same row shows, whatever the ingests that raced to write them had read
\* (recalculate_expected).
ExpectedMatchesSpend ==
  \A p \in Periods :
    periods[p] # NULL /\ periods[p].expected.status = "calculated" =>
      periods[p].expected.amount = Calc!ExpectedRebate(periods[p].spend, Terms[p])

\* Some line of one of the documents falls into the period.
Dated(p, docs) ==
  \E d \in docs : \E date \in DatesOf(d) : StartOf[p] <= date /\ date <= EndOf[p]

\* The spend of an open period that documents feed counts every committed document
\* of its source in the period, and no better source has a document there, also
\* when documents were ingested at the same time (recalculate_affected_periods).
OpenAggregatesAreComplete ==
  \A p \in Periods :
    periods[p] # NULL /\ periods[p].earned = NULL =>
      CASE periods[p].source = "invoice_aggregation" ->
             periods[p].spend = SpendOf(p, Invoices(documents))
        [] periods[p].source = "transaction_aggregation" ->
             /\ periods[p].spend = SpendOf(p, Transactions(documents))
             /\ ~Dated(p, Invoices(documents))
        [] periods[p].source = "manual" -> TRUE

\* "a later upload from a less authoritative source must never downgrade it back"
\* (recalculate_affected_periods), and neither does a stale one.
SourceNeverDowngrades ==
  [][\A p \in Periods : periods[p] # NULL =>
       Rank(periods'[p].source) >= Rank(periods[p].source)]_periods

\* A close or a receipt is never undone by a request that read the row before it:
\* an ingest, a second receipt or a second close (the column-wise flush of
\* close_period, record_receipt and recalculate_expected).
NothingIsUndone ==
  [][\A p \in Periods : periods[p] # NULL =>
       /\ periods[p].earned # NULL => periods'[p].earned # NULL
       /\ periods[p].received # NULL => periods'[p].received # NULL]_periods

\* Every request is answered: ingests that lock several periods in different
\* orders do not wait for each other for ever.
RequestsFinish == \A s \in Sessions : pc[s] # "idle" ~> pc[s] = "idle"

-----------------------------------------------------------------------------
(* Refinement: the expected amount of a period and its events implement the *)
(* evidence log.                                                            *)

HistoryOf(p) ==
  [v \in 1 .. LatestVersion(events, p, "expected_amount") |->
     LET e == CHOOSE e \in Chain(events, p, "expected_amount") : e.version = v
     IN  [figure |-> e.new, reason |-> e.reason]]

Log == INSTANCE EvidenceLog WITH
         Keys <- Periods,
         history <- [p \in Periods |-> HistoryOf(p)],
         current <- [p \in Periods |->
                       IF periods[p] = NULL THEN NULL ELSE periods[p].expected]

\* Every request appends to the evidence log or leaves it alone.
ImplementsEvidenceLog == Log!Spec

=============================================================================
