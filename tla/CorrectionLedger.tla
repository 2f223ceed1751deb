--------------------------- MODULE CorrectionLedger ---------------------------
(***************************************************************************)
(* The append-only ledgers whose rows are corrected by later rows:         *)
(* working capital and aging snapshots (services/working_capital_service), *)
(* inventory valuations (services/inventory_valuation_service), FX         *)
(* transactions (services/treasury_service) and route profitability        *)
(* (services/route_profitability_service).                                 *)
(*                                                                         *)
(* An ingest reads the rows of its grain that correct nothing, decides     *)
(* whether the period is locked, and inserts.  No constraint of the        *)
(* database repeats that decision, so ingests that overlap may each find   *)
(* the period free.  A row is its place in the order of insertion.         *)
(***************************************************************************)
EXTENDS Integers, Sequences, FiniteSets, Functions

CONSTANTS
  NULL,
  Grains,       \* what one report is about: a date, a ledger and a date, a location and a date
  LedgerOf,     \* the table of each
  DayOf,        \* its as_of_date or snapshot_date
  Items,        \* the SKUs of inventory; other reports have one row
  Batches,      \* the sequences of items that an inventory report may hold
  Requests      \* concurrent ingests

Ledgers == {"working_capital", "aging", "inventory", "fx", "route"}

\* One row for each grain; a batch of rows for each; any number of rows.
Single == {"working_capital", "aging"}
Locked == Single \cup {"inventory"}

ASSUME LedgerAssumption ==
  /\ LedgerOf \in [Grains -> Ledgers] /\ DayOf \in [Grains -> Nat]
  /\ Batches \subseteq Seq(Items) \ {<<>>}
  /\ IsFiniteSet(Requests)
  /\ NULL \notin Nat

VARIABLES
  rows,       \* the committed rows of all ledgers, in the order of insertion
  request,    \* what each ingest was given and has read
  pc          \* idle, read, or how it was answered

vars == <<rows, request, pc>>

-----------------------------------------------------------------------------
(* Queries                                                                  *)

Of(g) == {i \in DOMAIN rows : rows[i].grain = g}

\* Mutant: the lookup of an active row leaves the date out.
Active_AnyDate(g) ==
  {i \in DOMAIN rows : LedgerOf[rows[i].grain] = LedgerOf[g] /\ rows[i].corrects = NULL}

\* corrects_id IS NULL
Active(g) == {i \in Of(g) : rows[i].corrects = NULL}

\* A SELECT without ORDER BY returns its rows in some order.
Orders(S) == Bijection(1 .. Cardinality(S), S)

\* build_management_lens: the row that it may take for the current one, the most
\* recent of the rows that correct nothing.
MayBeCurrent(i) ==
  LET active == {k \in DOMAIN rows : /\ LedgerOf[rows[k].grain] = "working_capital"
                                     /\ rows[k].corrects = NULL}
  IN  i \in active /\ \A k \in active : DayOf[rows[k].grain] <= DayOf[rows[i].grain]

-----------------------------------------------------------------------------
(* Ingests                                                                  *)

Begin(r, g, items, correction, order) ==
  /\ request' = [request EXCEPT ![r] =
       [grain |-> g, items |-> items, correction |-> correction, target |-> NULL,
        existing |-> order, seen |-> Len(rows)]]
  /\ pc' = [pc EXCEPT ![r] = "read"]
  /\ UNCHANGED rows

BeginSingle(r, g, correction) ==
  \E order \in Orders(Active(g)) : Begin(r, g, <<NULL>>, correction, order)

\* ingest_working_capital_snapshot
BeginWorkingCapital(r, g, correction) ==
  pc[r] = "idle" /\ LedgerOf[g] = "working_capital" /\ BeginSingle(r, g, correction)

\* ingest_aging_snapshot: its grain has the ledger_type, too.
BeginAging(r, g, correction) ==
  pc[r] = "idle" /\ LedgerOf[g] = "aging" /\ BeginSingle(r, g, correction)

\* ingest_inventory_valuation; the endpoint refuses an empty file.
BeginBatch(r, g, batch, correction) ==
  /\ pc[r] = "idle"
  /\ LedgerOf[g] = "inventory"
  /\ \E order \in Orders(Active(g)) : Begin(r, g, batch, correction, order)

\* Nothing is locked and the caller names the row that is corrected, by an id that
\* some answer has told it (perhaps an id of another table).
BeginFree(r, g, target) ==
  /\ request' = [request EXCEPT ![r] =
       [grain |-> g, items |-> <<NULL>>, correction |-> target # NULL, target |-> target,
        existing |-> <<>>, seen |-> Len(rows)]]
  /\ pc' = [pc EXCEPT ![r] = "read"]
  /\ UNCHANGED rows

\* ingest_fx_transaction
BeginFx(r, g, target) == pc[r] = "idle" /\ LedgerOf[g] = "fx" /\ BeginFree(r, g, target)

\* ingest_route_profitability
BeginRoute(r, g, target) == pc[r] = "idle" /\ LedgerOf[g] = "route" /\ BeginFree(r, g, target)

\* scalar_one_or_none raises MultipleResultsFound.
Ambiguous(q) == LedgerOf[q.grain] \in Single /\ Len(q.existing) > 1

\* Mutant: an existing report is no reason to refuse another.
PeriodLocked_Never(q) == FALSE

PeriodLocked(q) ==
  LedgerOf[q.grain] \in Locked /\ q.existing # <<>> /\ ~q.correction

\* The foreign key of corrects_id.
References(q) ==
  q.target # NULL =>
    q.target \in DOMAIN rows /\ LedgerOf[rows[q.target].grain] = LedgerOf[q.grain]

\* Mutant: every row of a batch corrects the first row that was found.
Corrects_First(q, i) ==
  CASE LedgerOf[q.grain] \notin Locked -> q.target
    [] LedgerOf[q.grain] \in Locked ->
         IF q.correction /\ q.existing # <<>> THEN q.existing[1] ELSE NULL

\* What the i-th new row corrects: of the existing rows the one in the same place.
Corrects(q, i) ==
  CASE LedgerOf[q.grain] \notin Locked -> q.target
    [] LedgerOf[q.grain] \in Locked ->
         IF q.correction /\ i <= Len(q.existing) THEN q.existing[i] ELSE NULL

NewRows(r) ==
  LET q == request[r]
  IN  [i \in DOMAIN q.items |->
         [grain |-> q.grain, item |-> q.items[i], corrects |-> Corrects(q, i), by |-> r]]

Answer(r, how) == pc' = [pc EXCEPT ![r] = how] /\ UNCHANGED request

Conflict(r) ==
  /\ pc[r] = "read"
  /\ ~Ambiguous(request[r])
  /\ PeriodLocked(request[r])
  /\ Answer(r, "conflict")
  /\ UNCHANGED rows

Fail(r) ==
  /\ pc[r] = "read"
  /\ Ambiguous(request[r]) \/ ~References(request[r])
  /\ Answer(r, "failed")
  /\ UNCHANGED rows

Insert(r) ==
  /\ pc[r] = "read"
  /\ ~Ambiguous(request[r])
  /\ ~PeriodLocked(request[r])
  /\ References(request[r])
  /\ rows' = rows \o NewRows(r)
  /\ Answer(r, "answered")

-----------------------------------------------------------------------------
Init ==
  /\ rows = <<>>
  /\ request = [r \in Requests |-> NULL]
  /\ pc = [r \in Requests |-> "idle"]

Next ==
  \E r \in Requests :
    \/ \E g \in Grains :
         \/ \E correction \in BOOLEAN : BeginWorkingCapital(r, g, correction)
         \/ \E correction \in BOOLEAN : BeginAging(r, g, correction)
         \/ \E batch \in Batches, correction \in BOOLEAN : BeginBatch(r, g, batch, correction)
         \/ \E target \in DOMAIN rows \cup {NULL} : BeginFx(r, g, target) \/ BeginRoute(r, g, target)
    \/ Conflict(r) \/ Fail(r) \/ Insert(r)

Spec == Init /\ [][Next]_vars

-----------------------------------------------------------------------------
(* Properties                                                               *)

RowsOfLedgers ==
  [grain : Grains, item : Items \cup {NULL}, corrects : Nat \cup {NULL}, by : Requests]

Ingests ==
  [grain : Grains, items : Seq(Items \cup {NULL}), correction : BOOLEAN,
   target : Nat \cup {NULL}, existing : Seq(Nat), seen : Nat]

TypeOK ==
  /\ rows \in Seq(RowsOfLedgers)
  /\ request \in [Requests -> Ingests \cup {NULL}]
  /\ pc \in [Requests -> {"idle", "read", "answered", "conflict", "failed"}]

\* The lock of a period works for every ingest that can see what is there: the
\* second of two reports of one period that both claim to be the first had begun
\* before the other one was on record (ingest_working_capital_snapshot,
\* ingest_aging_snapshot and the first ingest of an inventory report).
OnlyRacingIngestsDuplicate ==
  \A i, j \in DOMAIN rows :
    /\ i < j /\ rows[i].by # rows[j].by
    /\ rows[i].corrects = NULL /\ rows[j].corrects = NULL
    /\ rows[i].grain = rows[j].grain
    /\ LedgerOf[rows[i].grain] \in Locked
    => \/ request[rows[j].by].seen < i
       \/ LedgerOf[rows[i].grain] = "inventory" /\ request[rows[j].by].correction

\* Corrections never form a chain or a cycle that a reader would have to follow:
\* in a ledger with a locked period a correction is of a row of the same report
\* that corrects nothing, in the others of an earlier row of the same table.
CorrectionsAreOfEarlierRows ==
  \A j \in DOMAIN rows : rows[j].corrects # NULL =>
    LET i == rows[j].corrects
    IN  /\ i < j
        /\ LedgerOf[rows[i].grain] = LedgerOf[rows[j].grain]
        /\ LedgerOf[rows[j].grain] \in Locked =>
             rows[i].grain = rows[j].grain /\ rows[i].corrects = NULL

\* "A correction supersedes every existing active row": a replacement that is not
\* shorter than what it replaces corrects each of the rows it saw exactly once
\* (ingest_inventory_valuation, the pairing by corrects_iter).
FullReplacementCoversEveryRow ==
  \A r \in Requests : pc[r] = "answered" =>
    LET q == request[r]
    IN  LedgerOf[q.grain] = "inventory" /\ q.correction /\ Len(q.items) >= Len(q.existing) =>
          \A k \in DOMAIN q.existing :
            Cardinality({j \in DOMAIN rows :
              rows[j].by = r /\ rows[j].corrects = q.existing[k]}) = 1

\* What the error message promises of is_correction, "to supersede it": the figures
\* of the most recent day are those of its latest correction.  Violated: the lens
\* asks for rows that correct nothing, which is the row that was superseded.
CorrectionsReachReaders ==
  \A i, j \in DOMAIN rows :
    MayBeCurrent(i) /\ rows[j].grain = rows[i].grain => rows[j].corrects # i

=============================================================================
