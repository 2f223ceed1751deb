# ProcureIQ: a TLA+ development

ProcureIQ is a FastAPI and SQLAlchemy backend on PostgreSQL for procurement teams: it compares
supplier price lists, follows contracts, rebates and an opportunity register, ingests purchase
documents and shows money figures that must be traceable. This directory models the parts in which
several requests meet over the same rows, and the calculations behind the figures; it checks them with TLC on small
instances and proves the most important facts with TLAPS for all of them. `PROJECT.json` lists components, runs, mutants,
source lines, findings, hazards and theorems in machine-readable form.

## 1. The system

Every request is one `AsyncSession` (`db/session.py`): READ COMMITTED, `expire_on_commit=False`,
closed, and so rolled back, when the request ends. There are no background workers; the scheduled
jobs that docstrings mention are not built, endpoints stand in for them. Hence all concurrency is
between requests, and all of it goes through PostgreSQL. Four facts shape everything below.

1. A handler SELECTs a row once. A later `SELECT ... FOR UPDATE` of the same row takes the lock and
   returns the object of the identity map **unrefreshed**.
2. A flush UPDATEs only the columns whose value differs from what was loaded.
3. Locks are held to COMMIT; the deferred triggers of migrations 0021 and 0024 run there.
4. A trigger that raises rolls back the whole request, the document it ingested included.

| Component | State | Operations | Hard behaviour | What makes it correct |
|---|---|---|---|---|
| opportunity register (`services/opportunity_service.py`) | `opportunities` | create, advance, realise | stale copies, racing requests, crashes | stages in order, approval first, a saving counted once |
| P-03 evidence trail (migrations 0021, 0024) | `financial_amount_status_events` | append by register and rebates | concurrent appends | unbroken chains, snapshot = last event, no silent loss of evidence quality |
| rebate periods (`services/rebate_service.py`) | `rebate_period_actuals`, `rebate_alerts` | record, recalculate, close, receipt, alert | close against ingest, double close, alert races | earned and expected amounts follow the spend, receipts survive |
| rebate aggregation (`services/rebate_aggregation_service.py`) | reads documents, writes periods | recalculate affected periods | several locks, statement-level snapshots | no document lost, no source downgraded |
| rebate calculations (`analytics/rebate_calculations.py`) | none | expected, next tier, leakage, alert, status | boundaries | tiers, alerts and statuses agree |
| purchase ledger (`services/purchase_ledger_service.py`) | orders, invoices, receipts | ingest | calls the aggregation in its transaction | all or nothing |
| price reviews (`services/price_review_service.py`) | reviews, files, lines | match, resolve, quantities, targets, outcomes, opportunity from line | derived columns left behind by later edits | derived columns belong to the current match |
| contracts (`services/contract_service.py`) | contracts, alerts, extractions | create, status, alerts, promote | alert races, promotion of a stale extraction | one alert per kind, only verified fields |
| memberships (`services/auth_service.py`, `api/v1/users.py`) | users, memberships, tokens | register, login, invite, switch, update | tokens outlive changes, check-then-insert | one membership per user and organisation |
| correction ledgers (`working_capital_service.py`, `inventory_valuation_service.py`, ...) | append-only snapshots with `corrects_id` | ingest, correct | two originals, corrections of corrections, readers | one first report per date unless two raced, no chains of corrections |
| duplicate and consolidation flags (`duplicate_detection_service.py`) | flags | scan, review, graph | check-then-insert, stale reviews | one flag per pair, legal transitions |
| tenant context (`db/session.py`, policies of migrations 0022 and 0023) | `app.current_org_id` and `app.current_user_id` of a transaction, left behind on pooled connections | set on begin | commit then refresh, connections used before | every transaction has its context and only its own |
| copilot and extraction (`ai/*`) | extractions | classify, answer, stage, promote | untrusted model output | permission before data, nothing unverified promoted |
| matching (`matching/*`), ingestion (`ingestion/*`), formulas (`analytics/*`), canvas | none | pure | boundaries | reference definitions |
| audit trail (`services/audit_service.py`) | `audit_events` | append | in the transaction of the caller | a row for every committed change |
| frontend, exports, storage, configuration | none that matters here | | | |

They interact by calls in one transaction: both document ingests call the aggregation, which calls
`recalculate_expected`, which appends to the evidence trail; the register appends to the same trail;
price review lines create opportunities; everything appends to the audit trail.

## 2. Modules

| Module | Models | Uses |
|---|---|---|
| `FinancialEvents` | figures, events, CHECK constraints and triggers of P-03 and the column-wise flush, as operators | |
| `EvidenceLog` | abstract specification of what P-03 promises: per figure an append-only history and a current value | `FinancialEvents` |
| `OpportunityWaterfall` | the register: `Create`, `RequestAdvance`, `RequestRealise`, `AdvanceConflict`, `AdvanceCommit`, `RealiseConflict`, `RealiseLock`, `RealiseCommit`, `Crash` | `FinancialEvents`, refines `EvidenceLog` |
| `RebatePeriods` | periods and documents of one supplier: `RecordPeriod`, `StartIngest`, `ReadInvoices`, `ReadTransactions`, `WriteExpected`, `IngestCommit`, `DeadlockAbort`, `RequestClose`, `CloseConflict`, `CloseCommit`, `RequestReceipt`, `ReceiptCommit`, `Tick`, `Crash` | `FinancialEvents`, `RebateCalculations`, refines `EvidenceLog` |
| `PriceReview` | one price review: `Upload`, `ConfirmMapping`, `RunMatching`, `LoadLine`, `Save`, `SaveRaises`, `SaveOpportunity`, `Crash` | `FinancialEvents`, `PriceReviewCalculations` |
| `Contracts` | contracts, alerts and staged extractions: `BeginCreate`, `Create`, `BeginCheck`, `Check`, `CheckFails`, `Stage`, `Review` (external), `BeginVerify`, `Verify`, `VerifyDenied`, `VerifyFails`, `Midnight` | `ContractCalculations` |
| `CorrectionLedger` | the five tables with `corrects_id`: `BeginWorkingCapital`, `BeginAging`, `BeginBatch`, `BeginFx`, `BeginRoute`, `Conflict`, `Fail`, `Insert` | |
| `TenantSessions` | connections, tenant settings, policies, tokens and memberships: `Arrive`, `Open`, `Register`, `Login`, `Switch`, `Invite`, `Update`, `Create`, `List`, `Commit`, `CommitFails`, `Reopen`, `Refresh` | |
| `ConsolidationFlags` | scans, reviews and the graph: `Register`, `Buy`, `ScanSupplier`, `ScanOrganisation`, `LookUp`, `ReadItems`, `Raise`, `ReviewDuplicate`, `ReviewConsolidation`, `DecideDuplicate`, `DecideConsolidation`, `ReadSuppliers`, `DrawGraph` | `Matching` |
| `Decimals` | half-even rounding and sums | |
| `RebateCalculations`, `PriceReviewCalculations`, `ContractCalculations`, `SpendAnalytics`, `SavingsRegister`, `ManagementAccounting`, `RouteCosts`, `Investment`, `InventoryCalculations`, `CanvasLens`, `Matching` | the package `app/analytics`, `app/matching` and the queries that feed them, as operators | `Decimals`, each other |
| `MCCalculations` | the calculations put to questions | all of the above |
| `OpportunityWaterfall_proofs`, `RebatePeriods_proofs`, `PriceReview_proofs`, `Contracts_proofs`, `CorrectionLedger_proofs`, `TenantSessions_proofs`, `ConsolidationFlags_proofs`, `MCCalculations_proofs` | theorems about the module of the same name and their proofs (section 4) | that module, `TLAPS` |
| `MCOpportunityWaterfall`, `MCRebatePeriods`, `MCPriceReview`, `MCContracts`, `MCCorrectionLedger`, `MCTenantSessions`, `MCConsolidationFlags` | instances for TLC | |

### How state and actions correspond to the code

* `opportunities`, `periods`, `events`, `documents`, `contracts`, `alerts`, `rows`, `flags` and their like
  are committed tables. A session is a variable per column of what the request holds: `pc` (where it is),
  `request` (path, payload and, in the shorter models, what it loaded), `loaded` (its identity map) and,
  for ingests, `dirty` (the same objects as changed) and `todo` (the loop of
  `recalculate_affected_periods`).
* A step of a request is what happens between two statements at which other requests may come in.
  `Load`/`LoadPeriod` is the SELECT of the handler, `RealiseLock`/`WriteExpected` the flush or
  `FOR UPDATE` that takes the row lock with the read of the next version under it, and the `...Commit`
  actions the rest. What happens under the lock touches no row that others write, so it is one step
  with COMMIT. Requests that only insert rows nobody else can see (`Create`, `RecordPeriod`) are one step.
* `Accepts` is what PostgreSQL checks; a commit that fails it leaves the tables alone.
* `Crash` ends a request at any point, as does a lost client; nothing is persisted outside the
  database, so the rollback is all there is to it. Where a model has no `Crash`, a request may simply
  never take its next step, which leaves the same tables.
* Timestamps only tell events apart or tell "set" from NULL, so `calculatedAt` and `approvedAt` hold
  the version of their event.
* A line of a price review is loaded by `LoadLine` and written by `Save`, without locks; `After` is what
  each of the five handlers makes of the copy, and `FlushLine` writes the columns that differ from it.
  Matching may find anything (`Matches`): its scores only choose among the results. `raced` is a history
  variable, the lines on which two requests have overlapped.
* `documents` never repeat: a document is one upload, and uploading the same figures again is another one.
* A ledger's row is its place in the order of insertion, so that `corrects` is an index. `request.seen` is
  the number of rows when the ingest began; it is what "had begun before" means in `OnlyRacingIngestsDuplicate`.
  The order of a SELECT without ORDER BY is a choice (`Orders`).
* In `TenantSessions` a connection keeps its settings when a transaction ends: a setting that was made with
  `is_local` reads as an empty string afterwards (`Residue`), which the policies turn into NULL
  (`Cast`, migration 0023). A session that commits and refreshes begins a second transaction (`Reopen`),
  perhaps on another connection. Uniqueness of users and memberships is decided at COMMIT (`Accepted`).
* In `ConsolidationFlags` every SELECT of a scan is a step; `local` holds what it has read. None of them has an order, so
  a scan reads its items in any (`sides` is a sequence), and scores of two items the earlier one against the later
  one (`Duplicate`, `Overlap`). `LetterScore`, which stands for `difflib`, may depend on that order, as the original does.
* The register begins with rows as migration 0021 finds them (`LegacyRows`): at any stage, with or without an
  approver, and with amounts, realised savings included, that are `legacy_unverified`. The one thing assumed of them is that rows
  which were never approved are at an early stage and have no saving.
* `Update` of `TenantSessions` writes the fields that differ from the loaded membership (`change`), as the ORM does. `Inactive` are the
  users whose account is switched off, and `SelfRegistration` is the setting of that name.
* `Review` of `Contracts` is external. ADR-004 describes the human action that verifies an extraction, but no
  code under `src/` performs it, so without it every request to promote is denied; `ReviewTool` says
  whether it exists, and the run assumes that it does, since the gate would otherwise have nothing to guard.
* Money counts ten-thousandths (its columns are Numeric(.., 4)); shares, rates and days count what the head
  of the module says. `NULL` is None, `Refused` a ValueError. Numbers that the code keeps exact stay
  fractions until the place where it rounds. What a request may send with more decimals than a column holds counts a
  fraction of that column's unit: thresholds of tiers (`Parts`), prices of contracts (`PriceParts`), volumes of
  activities (`VolumeParts`), so that `round_currency` is visible wherever the code calls it.

## 3. Runs

Bounds are in the `.cfg` files and named in the modules (`MaxEvents`, `MaxEntries`, `FirstDay`,
`LastDay`, `MaxSpend`, `MaxReceived`, `MaxRuns`, `MaxEdits`, the number of `Requests`, each of which is served
once); everything else is finite by itself.

| Run | Shows |
|---|---|
| `waterfall_safety` | types, unbroken chains, snapshots, approval first, one saving per implementation, lock protects version |
| `waterfall_live`, `rebate_live` | every request is answered, and both writers implement `EvidenceLog` |
| `waterfall_realise` (violated) | a saving is confirmed on an opportunity rejected meanwhile |
| `rebate_safety` | expected amount matches spend, aggregates are complete, sources never downgrade, closes and receipts survive |
| `review_lines` | matching loses no row, no entry is taken back, movements and impacts follow the shown prices |
| `contracts` | an answered alert check left no gap, no alert twice, the stored status is never ahead of the calendar, terms come from verified extractions |
| `ledger_corrections` | only overlapping ingests get two first reports past the lock, corrections do not chain, a full replacement covers each row it saw |
| `ledger_readers` (violated) | after a correction the management lens still shows the corrected row |
| `tenant_sessions` | answers depend on tables and token, never on who used the connection before; what was created can be read back; registrations and invitations are whole |
| `flags` | a scan flags every pair that looks alike in the order in which it was read, and no pair that was flagged before it began |
| `calculations` | the calculations agree with each other, split without loss, and make no number of an unknown one |

Why these bounds are enough. All interference is between two requests over one row, or, for
ingests, over two rows (lock order); two sessions, each of which runs any number of requests one after
the other, therefore produce every pairwise race, also those that need a third request in between.
One opportunity suffices since no step reads two. `MaxEntries = 2` lets an
opportunity pass the waterfall twice, `MaxEvents = 3` lets both savings be recorded and a third be tried.
The documents are two batches over both periods and one invoice, so that locks cross, sources change
and spends differ; amounts are chosen so that different histories give different expected amounts,
except in `rebate_live`, where a spend entered by hand equals that of a batch, so that the column-wise
flush skips a column. In `rebate_safety` both periods exist from the start, since
`OpenAggregatesAreComplete` fails for a period recorded during an ingest. In `review_lines` the four
items give every basis of comparison (same unit, units that differ, nothing parsed, one side parsed), and
three requests are enough for a race and a later one, or for match, quantity and another match.
Selling prices are zero and one other. `contracts` has three requests on one contract (two that race and
one that meets the outcome), five days that pass every threshold, the notice deadline and the expiry, and two
extractions that contain a text and a date, and a date only. `ledger_corrections` has four ingests on two dates of working
capital, which compete for being the latest, and one report of each other table; a correction of an inventory
report may be shorter, equal or longer than the original. `tenant_sessions` has three requests of any of seven kinds on two connections, hence
connections that were used before and a commit that must take another one; its users are the owner of one
organisation who is a manager of the other, the owner of that one, whose account is inactive, and one without an account. `flags` has two suppliers and one that joins, one
with invoices and one with transactions, an item that is sold under two codes with its words in another order, by both suppliers, and one of the other that
looks like nothing else; turning the words costs more letters in one order than in the other, so that the order decides whether the pair is flagged.
`Parts` is 2 in the runs of `RebatePeriods` and 4 in `calculations`, where thresholds lie on whole units, halves and quarters, so that the remainder
is rounded up, down and to even.
`calculations` enumerates every order of up to three bands over three thresholds with spend below, at and
above each, and some ten thousand questions whose values stand on, just below and just above the boundary of
each calculation (80% of a ranking, 30, 60, 90 and 120 days, thirteen weeks, a day count that does not fit its
column, a project that recovers its outlay exactly, the 31st of a month). The questions are initial states, so a
property about them is an implication whose left side names the kind of question.

Fairness. PostgreSQL queues the waiters of a row lock, so a request that waits for one is served in
the end although others take the lock meanwhile: strong fairness of the steps of a request. Its
deadlock detector cancels a transaction of every cycle: weak fairness of `DeadlockAbort`. Clients are
not obliged to send anything, and crashes are never forced. `rebate_live` leaves receipts out, whose
step is that of a close. The other models claim nothing about progress: their requests take no lock that
another one waits for, so liveness would say no more than that a handler has an end.

### Where the code and its documents differ

Two disagreements are runs (`waterfall_realise`, `ledger_readers`). The models contain the following ones, which
no run singles out.

* Opportunities. A request that two others overtook writes its own stage and moves an opportunity back
  (`opportunity_service.py:198`). `advance_waterfall_stage` accepts `realised` as a target, and takes a rejected opportunity to
  `identified` again (191: the index of a stage that is not in the list is -1).
* Rebates. Two closes of one period succeed and the second replaces the earned amount (`rebate_service.py:277`),
  which `docs/analytics-methodology.md:111` calls fixed. An ingest that selected a period while it was open
  rewrites its spend after a close (`rebate_aggregation_service.py:52`); a period recorded while a document is being
  ingested never counts it (49); an invoice outside a period makes invoices its source, with no spend (103),
  against ADR-014. A tiered agreement pays the rate of the highest tier on the whole spend
  (`rebate_calculations.py:82`), where `docs/analytics-methodology.md:105` sums tier by tier. The remainder to the
  next tier is rounded (108) and a threshold is not, so that a buyer who spends it may still be below the tier, which is then announced
  with nothing left to spend: `RemainderMeetsTier` says no more than that.
* Price reviews. Two requests on one line mix their columns: each writes only what differs from its own
  copy, so price, movement and impact may come from different matches. `MovementFollowsPrices` therefore
  speaks of lines outside `raced`, and `EntriesSurvive` of all. Choosing another match keeps the base unit of the
  old one, so that prices per litre and per kilogram are compared, against `price_review_calculations.py:92`. A
  selling price of zero, which the schema accepts, makes every later recalculation of a compared line raise until
  another price is sent (`SaveRaises`), and no opportunity can be created from a line (`SaveOpportunity`): its
  handler writes neither events nor pointers, which the triggers of migration 0024 demand.
* Contracts. Nothing sets an extraction to `human_verified` before the endpoint demands it, so the endpoint that
  is described as the explicit human action (`schemas/contract.py:85`, ADR-004:11) denies every request.
* Flags. Two reviews of one flag both succeed from the state that each loaded, and the second replaces a decision that
  `domain_graph.py:53` calls final. Duplicates are told by description alone, not by the pair of code and
  description of the docstring. A scan scores a pair in the order in which it happened to read it, so a repeated scan may flag
  what the first one passed over, and two scans that overlap may flag one pair twice. The graph reads suppliers before flags, and fails for a supplier that joined in between.
* Ledgers. In FX and route ledgers any earlier row may be corrected any number of times; an inventory correction
  with fewer rows leaves the others active.
* Memberships. An invited membership becomes active only by `update_membership`, and the last owner can be
  made a viewer.
* Calculations. The parts of a route's cost sum to the whole within one rounding step, not "exactly"; the total
  of a negotiation brief from a review is a sum of annual impacts; the canvas node "Gross Revenue" shows the sum of net
  revenue and days that are unknown as zero; the variant group "extra mature" is unreachable, since words are
  compared one by one, and "full-cream" never matches.

## 4. Proofs

Every module with concurrent requests has a proof module, and so have the calculations of `MCCalculations`.
The theorems hold for all values of the constants that the assumptions allow: any number of rows, sessions and
requests, any amounts, dates and bounds. `Spec` is the specification without fairness.

| Proof module | Theorems |
|---|---|
| `OpportunityWaterfall_proofs` | `TypeCorrect`, `LockIsProtective`, `ChainIsUnbroken`, `SnapshotIsLatest`, `ApprovalComesFirst`, `SavingsAreCountedOnce` (`NoDoubleRealisation`), `EvidenceLogIsImplemented` (the refinement) |
| `RebatePeriods_proofs` | `TypeCorrect`, `AmountsMatchSpend`, `SourcesOnlyImprove`, `ClosesAndReceiptsStay`, `FoundAggregatesAreComplete`, `AggregatesAreComplete`, `EvidenceLogIsImplemented` (the refinement) |
| `PriceReview_proofs` | `TypeCorrect`, `MovementsFollow`, `MatchingIsTotal`, `EntriesStay` |
| `Contracts_proofs` | `TypeCorrect`, `EveryAlertOnce`, `ChecksAreComplete`, `StatusNeverAhead`, `OnlyVerified`, `NothingIsUndone` |
| `CorrectionLedger_proofs` | `TypeCorrect`, `CorrectionsAreOrdered`, `DuplicatesOnlyFromRaces`, `ReplacementsAreFull` |
| `TenantSessions_proofs` | `TypeCorrect`, `MembershipsHold`, `CreatesSucceed`, `TenantsAreIsolated` |
| `ConsolidationFlags_proofs` | `ScansDoNotRepeat`, `ScansAreThorough` |
| `MCCalculations_proofs` | `TiersAreNeighbours`, `RemaindersMeetTheirTier`, `RebatesGrowWithSpend`, `TermsAddUp`, `RenewalsHold`, `PoolsAreShared`, `TripsAreShared`, `PricesReachTheirMargin`, `StoredCyclesAreWhole` |

### Assumptions

Sets of rows, sessions and requests are finite where something is counted or ordered; dates and amounts are
integers, spends and thresholds of alerts naturals; the initial memberships satisfy `uq_user_org`, and no two users
found one organisation; the two price lists of a review share no row; rates are not negative, as the request schema
demands (`schemas/rebate.py`), while a threshold may be. In `RebatePeriods` a document is a sequence of dated amounts of
either sign (`RebateAssumption`), and an agreement has the terms of its type (`TermsAssumption`), as the schema of agreements
demands; `Parts` is any positive number (`PartsAssumption`). In `ConsolidationFlags` nothing is assumed of the scores of letters. `AggregatesAreComplete` assumes besides that every period is recorded before the first ingest (`Recorded = Periods`),
because its property is false otherwise: an ingest selects the periods that exist when it begins. `FoundAggregatesAreComplete`
needs no such hypothesis; it speaks of the periods that were recorded by then, whichever others are recorded meanwhile.
The rest says that a symbol for nothing is not something:
NULL is none of the numbers, rows (`RowAssumption`), copies and requests it stands beside, nor is it `Residue`. TLC evaluates each
assumption in the runs.

### How the proofs go

No property is inductive alone. Each module has an invariant `IInv` that adds what the requests in flight know,
since in this program every danger is a copy that has become stale.

* `OpportunityWaterfall`. `IInv` joins types, `LockProtectsVersion`, `ChainUnbroken` and `SnapshotIsLatestEvent` with
  `InFlight` (a request has loaded a row of an existing opportunity) and `VersionsContiguous` (versions are exactly
  1 to the latest; without it the new event of a commit would have a predecessor only by luck). A commit
  adds at most one event, whose version the lock makes the next one, and `Accepts` tests row and event against
  the very events that it leaves. `ApprovalInv` stands on it: an approver, once in the row, is never overwritten by NULL.
  `SavingsInv` counts: every confirmed event belongs to an entry into implementation, an opportunity in implementation has
  an entry that is not used yet, and a copy agrees with the row on the saving it was loaded with, so that a second confirmation
  on a stale copy is refused by the chain.
* The refinement of `EvidenceLog`. The history of a measure is its chain in the order of versions
  (`HistoryIs`). A step that adds the next version appends exactly one entry (`HistoryGrows`), the entry carries the
  figure that the row shows, and the change of its status is legal because the event passed the trigger (`StepAdds`);
  every other step leaves trail and figure alone. `InitRecorded` and `StepRecorded` then map `Init` and `Next`.
* `RebatePeriods`. An ingest reads its copy without a lock, calculates, and reads nothing again, so it could
  write the amount for one spend beside another spend. The chain stops it: its event repeats the copy it started from,
  and is accepted only after the event that the row still shows (`Trails`, `Shown`). So an accepted ingest has written
  on the row it had read, and a close or receipt changes only its own columns.
* Types of `RebatePeriods` (`TypeInv`). Amounts are sums over sets of documents, of sequences of lines, both by recursive functions.
  That such a function exists, and that its values are integers, is shown as a least counterexample on the
  number of documents and of lines (`SumsExist`); the expected amount follows from the terms of each type of agreement.
* The refinement by `RebatePeriods`. The events of a period are numbered from 1 without a gap (`Numbered`), so its trail
  as a sequence extends by one entry with an accepted write (`TrailExtends`) and stays with all others.
* Complete aggregates (`GatherInv`). An ingest finds every open recorded period that its document overlaps and queues all
  of them (`Covers`, `Queued`). What it has summed for a period it has not written yet is the sum of all documents that were
  committed and of its own, as long as the row is the one that it read (`Summed`, `Unbilled`, `ReadNow`): whoever commits a document of the
  period meanwhile also writes the row, with the next event. Then the stale sum fails on the chain,
  and the whole request with its document is rolled back. So either a document and its sum are both
  committed, upon a row that counted all others, or neither is.
* `PriceReview`. A line that is not raced has at most one copy, which equals the line (`CopiesHold`), hence the column-wise flush
  writes what the handler made of the line. For racing requests only `EntriesStay` is claimed: no handler turns
  an entry into NULL, so no flush does. `MatchingIsTotal` is about one step and all possible results of the scores.
* `Contracts`. `CopyHolds` says what the copy of a request still says of the tables: terms do not change, alerts stay,
  days pass in one direction, and a verified extraction stays verified (`NothingIsUndone` is the same as an action property). The
  status of a contract is that of some day that has come (`StatusOfADay`), and the statuses of a contract are in order of days.
* `CorrectionLedger`. Rows are only appended, so what an ingest read describes the rows up to `seen` for ever. `Provenance` traces every row to
  the answer, the copy and the item that it came from; without it a row says nothing of what its ingest knew.
* `TenantSessions`. One request holds a connection at a time (`Connected`), and a request with a token has the
  organisation of the token in its settings in both of its transactions; whatever else is left on the connection the
  policies read as NULL or the query ignores. Hence answers are a function of the tables and the token.
* `ConsolidationFlags`. Flags are never removed, so `known` and `before` of a scan remain sets of flags that
  exist; a scan that is over does not change, so what its flags were compared with, and in which order, is still there to be read.
  A scan for duplicates knows flags of its supplier only and raises flags of it only, so the flag that covers a pair is of the right one.
* `MCCalculations`, agreements. A maximum over the bands is a CHOOSE, which says nothing until a maximum is shown to exist. `TopExists`
  proves it by induction on the number of bands, as a least counterexample (`Least`, from `WFMin`); the theorems are then
  about the order of thresholds, and `RoundingIsMonotonic` carries `RebatesGrowWithSpend` through half-even rounding. They hold
  for agreements of up to three bands (`Agreements`), the lemmas on bands for any number.
* `MCCalculations`, dates and money. `DateAfter` describes what `_add_months` returns, by an equation of its month and
  one of its day; `TermsAddUp` adds two of them, for any date and any number of months, and `RenewalsHold` is its
  instance for the questions of the run. `HalfAStep` says that half-even rounding is off by at most half a
  step; the remainders, pools, trips, prices and days of the other theorems are its consequences, for any amounts, and are parts of
  `PartsAddUp` and `UnknownStaysUnknown`. These theorems are about operators and have no `Spec`.

### What is only model-checked

* Liveness (`RequestsFinish` of both modules), which needs fairness and ENABLED.
* Of the properties of `calculations`: `ReportsAgree`, `ClassesAndContributorsAgree`, `PaybackAgreesWithNpv`,
  `VariantsAreNeverMatched`, and `PartsAddUp` and `UnknownStaysUnknown` as a whole, of which only the parts named above are
  proved. They speak of the questions that the module enumerates. Most of them go through `Total`, `Summed` and
  sorting, which are recursive functions, or through `SelectSeq`, of which the provers know nothing at all; payback goes
  through powers.
* What the code violates (`waterfall_realise`, `ledger_readers`).

## 5. What is not modelled

See the notes in `PROJECT.json`. In short:

* the frontend, exports, object storage and the demo data of the seeds: no state of the backend;
* the migrations as upgrades, and the scripts that rehearse them: executed once, offline. Their constraints,
  triggers and policies are modelled where requests meet them;
* ingestion of files (`ingestion/*`): stateless parsing and validation of strings;
* the copilot (`ai/*`): stateless calls of an external model; only the gate of extractions has state;
* the value of an internal rate of return (a bisection over reals) and the letter-by-letter similarity of strings
  (`difflib`), of which models keep the refusals and a parameter;
* refresh tokens, which are issued and never read.

Some operators are translated from the code and have no property of their own, because a property
would only repeat them: `AllocationLevel`, `RateStale`, `ZeroMassRisk`, the evidence tiers, FX exposure and reconciliation, replacement
exposure, `Gmroi`, the formulas of the five types of saving, price consistency and variances of the purchase
ledger, `AlertDue`, pack sizes, checks of route logs, the payload of the canvas, the valuation of a batch.

Organisations are left out of the modelled parts except `TenantSessions`, since each of them lives in one tenant. Volumes, references,
titles and currencies are data that no property looks at. The append-only trigger on events is not a
step: no code updates or deletes an event.

## 6. What is left

Every safety invariant and action property of the modules with concurrent requests that a passing run checks is a theorem.
What could be added is about the calculations: lemmas on the sums of `Decimals`
in the manner of `SumsExist`, from which the reports of spend and the rest of `PartsAddUp` would follow, and
lists that are filtered by functions instead of `SelectSeq`, which `VariantsAreNeverMatched` would need.
