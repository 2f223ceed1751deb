------------------------- MODULE OpportunityWaterfall -------------------------
(***************************************************************************)
(* The opportunity register (services/opportunity_service.py): concurrent  *)
(* requests create opportunities, move them along the waterfall and record *)
(* realised savings, each in one READ COMMITTED transaction on PostgreSQL  *)
(* through SQLAlchemy.                                                     *)
(*                                                                         *)
(* A handler SELECTs the row once (Load) and works on that copy to the     *)
(* end: SELECT ... FOR UPDATE of a row that is already in the session's    *)
(* identity map takes the row lock and refreshes nothing.  At the flush    *)
(* SQLAlchemy writes only the columns whose value differs from the copy,   *)
(* and COMMIT runs the deferred constraint triggers, any of which rolls    *)
(* the whole transaction back.                                             *)
(***************************************************************************)
EXTENDS FinancialEvents, FiniteSets

CONSTANTS
  Opps,        \* opportunity ids
  Sessions,    \* concurrent requests; each acts for a user of its own
  Amounts,     \* money amounts
  Dates,       \* calendar dates
  Targets,     \* the target_status values that clients send, known or not
  MaxEvents,   \* bound: events of one measure of one opportunity
  MaxEntries   \* bound: committed moves of one opportunity to implementation

VARIABLES
  opportunities, \* the committed row of each id, or NULL
  events,        \* the committed rows of financial_amount_status_events
  entries,       \* committed audit rows that moved an opportunity to implementation
  rowLock,       \* the session that holds the row lock of an opportunity, or NULL
  pc,            \* where the request of a session is
  request,       \* what the session asked for, NULL when idle
  loaded,        \* the copy of the row in the session's identity map
  version        \* the next event version, read under the row lock

tables == <<opportunities, events, entries>>
vars   == <<opportunities, events, entries, rowLock, pc, request, loaded, version>>

-----------------------------------------------------------------------------
(* Rows and requests                                                        *)

OppMeasures == {"annual_financial_impact", "realised_savings"}

Stages == {"identified", "validated", "approved", "implementation", "realised",
           "rejected", "expired"}

\* The index in _WATERFALL_ORDER, counted from 1; 0 for a status outside it.
Position(status) ==
  CASE status = "identified"     -> 1
    [] status = "validated"      -> 2
    [] status = "approved"       -> 3
    [] status = "implementation" -> 4
    [] status = "realised"       -> 5
    [] OTHER                     -> 0

\* What the two opportunity measures can hold: a database upgraded by
\* migration 0021 starts with legacy_unverified forecasts and savings.
Figures ==
  [amount : Amounts \cup {NULL},
   status : {"unknown", "legacy_unverified", "estimated", "confirmed"},
   basis : {"manual_estimate", "reconciled_actuals", NULL},
   calculatedAt : {NULL},
   approvedAt : Nat \cup {NULL}, approvedBy : Sessions \cup {NULL},
   from : Dates \cup {NULL}, until : Dates \cup {NULL}]

\* approvedBy is opportunities.approved_by_user_id; approved_at is set with it.
Rows ==
  [status : Stages, approvedBy : Sessions \cup {NULL},
   afi : Figures, afiEvent : Nat, rs : Figures, rsEvent : Nat]

ASSUME WaterfallAssumption ==
  /\ NULL \notin Sessions \cup Amounts \cup Dates \cup Opps
  /\ NULL \notin Rows \cup Nat
  /\ Dates \subseteq Int
  /\ IsFiniteSet(Opps) /\ IsFiniteSet(Sessions)

Evidence == {"documented_baseline", "actual_cost_source",
             "variance_calculation_reference"}

Events ==
  [parent : Opps, measure : OppMeasures, version : Nat \ {0},
   old : Figures \cup {NoFigure}, new : Figures,
   reason : Reasons, evidence : SUBSET Evidence]

AdvanceRequests == [kind : {"advance"}, opp : Opps, target : Targets]
RealiseRequests ==
  [kind : {"realise"}, opp : Opps, amount : Amounts, from : Dates, until : Dates]

-----------------------------------------------------------------------------
(* The transaction                                                          *)

FlushRow(r, c, n) ==
  [status     |-> Column(r.status, c.status, n.status),
   approvedBy |-> Column(r.approvedBy, c.approvedBy, n.approvedBy),
   afi        |-> FlushFigure(r.afi, c.afi, n.afi),
   afiEvent   |-> Column(r.afiEvent, c.afiEvent, n.afiEvent),
   rs         |-> FlushFigure(r.rs, c.rs, n.rs),
   rsEvent    |-> Column(r.rsEvent, c.rsEvent, n.rsEvent)]

\* What the database checks of row o and of the events evs \ events added by
\* this transaction: the CHECK constraints, the unique versions and, at COMMIT,
\* the deferred triggers.
RowTriggersPass(evs, o, row) ==
  /\ SnapshotMatches(evs, o, "annual_financial_impact", row.afi, row.afiEvent)
  /\ SnapshotMatches(evs, o, "realised_savings", row.rs, row.rsEvent)

\* Mutant: the event chain trigger is not installed.
EventTriggersPass_NoChainTrigger(evs, added) == \A e \in added : EvidenceSufficient(e)

EventTriggersPass(evs, added) ==
  \A e \in added : ChainIntegrity(evs, e) /\ EvidenceSufficient(e)

\* Mutant: checks and triggers are disabled, as for a bulk load.
Accepts_Disabled(evs, o, row, added) == TRUE

Accepts(evs, o, row, added) ==
  /\ \A e \in added : EventInsertable(events, e)
  /\ ValidFigure("annual_financial_impact", row.afi)
  /\ ValidFigure("realised_savings", row.rs)
  /\ EventTriggersPass(evs, added)
  /\ RowTriggersPass(evs, o, row)

\* COMMIT, or the rollback that a failed check turns it into.  The audit row goes
\* with it: "moves" is 1 if it tells of a move to implementation.
Commit(o, row, added, moves) ==
  LET evs == events \cup added
  IN  IF Accepts(evs, o, row, added)
        THEN /\ opportunities' = [opportunities EXCEPT ![o] = row]
             /\ events' = evs
             /\ entries' = [entries EXCEPT ![o] = @ + moves]
        ELSE UNCHANGED tables

\* Mutant: the connection goes back to the pool with its transaction open.
EndRequest_KeepsLock(s) ==
  /\ pc' = [pc EXCEPT ![s] = "idle"]
  /\ request' = [request EXCEPT ![s] = NULL]
  /\ loaded' = [loaded EXCEPT ![s] = NULL]
  /\ version' = [version EXCEPT ![s] = 0]
  /\ UNCHANGED rowLock

\* The request is over: its SQLAlchemy session, and every lock of it, is gone.
EndRequest(s) ==
  /\ pc' = [pc EXCEPT ![s] = "idle"]
  /\ request' = [request EXCEPT ![s] = NULL]
  /\ loaded' = [loaded EXCEPT ![s] = NULL]
  /\ version' = [version EXCEPT ![s] = 0]
  /\ rowLock' = [o \in Opps |-> IF rowLock[o] = s THEN NULL ELSE rowLock[o]]

\* ConflictError, raised before anything is written.
RaiseConflict(s) == EndRequest(s) /\ UNCHANGED tables

-----------------------------------------------------------------------------
(* Initial states: an empty register, or rows that migration 0021 gave one  *)
(* genesis event per measure.                                               *)

Legacy(a) ==
  IF a = NULL THEN Unknown
              ELSE [NoFigure EXCEPT !.amount = a, !.status = "legacy_unverified"]

Legacies == {Legacy(a) : a \in Amounts \cup {NULL}}

\* The rows that the migration finds are at any stage, and a row that was rejected starts
\* again with its approver and its saving; only there is no saving without an approval.
LegacyRows ==
  {row \in [status : Stages, approvedBy : Sessions \cup {NULL},
            afi : Legacies, afiEvent : {1}, rs : Legacies, rsEvent : {1}] :
     row.approvedBy = NULL => /\ row.status \notin {"approved", "implementation", "realised"}
                              /\ row.rs = Unknown}

GenesisEvents(o, afi, rs, reason) ==
  {Event(o, "annual_financial_impact", 1, NoFigure, afi, reason, {}),
   Event(o, "realised_savings", 1, NoFigure, rs, reason, {})}

NewRow(afi) ==
  [status |-> "identified", approvedBy |-> NULL,
   afi |-> afi, afiEvent |-> 1, rs |-> Unknown, rsEvent |-> 1]

Init ==
  /\ \E upgraded \in SUBSET Opps : \E old \in [upgraded -> LegacyRows] :
       /\ opportunities = [o \in Opps |-> IF o \in upgraded THEN old[o] ELSE NULL]
       /\ events = UNION {GenesisEvents(o, old[o].afi, old[o].rs, "initial_backfill") :
                            o \in upgraded}
  \* Of the earlier moves only one that is still open.
  /\ entries = [o \in Opps |->
                  IF opportunities[o] # NULL /\ opportunities[o].status = "implementation"
                    THEN 1 ELSE 0]
  /\ rowLock = [o \in Opps |-> NULL]
  /\ pc = [s \in Sessions |-> "idle"]
  /\ request = [s \in Sessions |-> NULL]
  /\ loaded = [s \in Sessions |-> NULL]
  /\ version = [s \in Sessions |-> 0]

-----------------------------------------------------------------------------
(* POST /opportunities.  The row is invisible to every other session until  *)
(* it commits, so the request is one step.                                  *)

Create(s, o, amount, from) ==
  /\ pc[s] = "idle" /\ opportunities[o] = NULL
  /\ IF amount # NULL /\ from = NULL
       THEN RaiseConflict(s)
       ELSE LET afi == IF amount = NULL THEN Unknown
                       ELSE [NoFigure EXCEPT !.amount = amount, !.status = "estimated",
                                             !.basis = "manual_estimate", !.from = from]
            IN  /\ Commit(o, NewRow(afi), GenesisEvents(o, afi, Unknown, "manual_estimate"), 0)
                /\ EndRequest(s)

-----------------------------------------------------------------------------
(* POST /opportunities/{id}/advance and /realise: _get_opportunity.         *)

Load(s, r) ==
  /\ pc[s] = "idle" /\ opportunities[r.opp] # NULL
  /\ pc' = [pc EXCEPT ![s] = "loaded"]
  /\ request' = [request EXCEPT ![s] = r]
  /\ loaded' = [loaded EXCEPT ![s] = opportunities[r.opp]]
  /\ UNCHANGED <<tables, rowLock, version>>

RequestAdvance(s) ==
  \E r \in AdvanceRequests :
    /\ r.target = "implementation" => entries[r.opp] < MaxEntries
    /\ Load(s, r)

RequestRealise(s) ==
  \E r \in RealiseRequests :
    /\ LatestVersion(events, r.opp, "realised_savings") < MaxEvents
    /\ Load(s, r)

-----------------------------------------------------------------------------
(* advance_waterfall_stage                                                  *)

\* Mutants: stages may be skipped; the target is not looked at.
MayAdvance_SkipsStages(status, target) ==
  target \in {"rejected", "expired"} \/ Position(target) > Position(status)

MayAdvance_AnyTarget(status, target) == TRUE

MayAdvance(status, target) ==
  \/ target \in {"rejected", "expired"}
  \/ /\ Position(target) > 0
     /\ Position(target) = Position(status) + 1

AdvancedRow(copy, target, user) ==
  [copy EXCEPT !.status = target,
               !.approvedBy = IF target = "approved" THEN user ELSE @]

AdvanceConflict(s) ==
  /\ pc[s] = "loaded" /\ request[s].kind = "advance"
  /\ ~MayAdvance(loaded[s].status, request[s].target)
  /\ RaiseConflict(s)

\* The flush waits for the row lock if it has a column to write, takes it and
\* holds it to the COMMIT that follows.
AdvanceCommit(s) ==
  LET o   == request[s].opp
      new == AdvancedRow(loaded[s], request[s].target, s)
  IN  /\ pc[s] = "loaded" /\ request[s].kind = "advance"
      /\ MayAdvance(loaded[s].status, request[s].target)
      /\ new # loaded[s] => rowLock[o] = NULL
      /\ Commit(o, FlushRow(opportunities[o], loaded[s], new), {},
                IF request[s].target = "implementation" THEN 1 ELSE 0)
      /\ EndRequest(s)

-----------------------------------------------------------------------------
(* record_realised_savings with _write_opportunity_measure_event            *)

MayRealise(copy, r) == copy.status = "implementation" /\ r.from <= r.until

RealiseConflict(s) ==
  /\ pc[s] = "loaded" /\ request[s].kind = "realise"
  /\ ~MayRealise(loaded[s], request[s])
  /\ RaiseConflict(s)

\* Mutant: the row is selected without FOR UPDATE.
RealiseLock_NoLock(s) ==
  LET o == request[s].opp
  IN  /\ pc[s] = "loaded" /\ request[s].kind = "realise"
      /\ MayRealise(loaded[s], request[s])
      /\ version' = [version EXCEPT ![s] =
                       LatestVersion(events, o, "realised_savings") + 1]
      /\ pc' = [pc EXCEPT ![s] = "locked"]
      /\ UNCHANGED <<tables, rowLock, request, loaded>>

\* SELECT ... FOR UPDATE, then max(event_version) + 1.
RealiseLock(s) ==
  LET o == request[s].opp
  IN  /\ pc[s] = "loaded" /\ request[s].kind = "realise"
      /\ MayRealise(loaded[s], request[s])
      /\ rowLock[o] = NULL
      /\ rowLock' = [rowLock EXCEPT ![o] = s]
      /\ version' = [version EXCEPT ![s] =
                       LatestVersion(events, o, "realised_savings") + 1]
      /\ pc' = [pc EXCEPT ![s] = "locked"]
      /\ UNCHANGED <<tables, request, loaded>>

ConfirmedFigure(r, v, user) ==
  [amount |-> r.amount, status |-> "confirmed", basis |-> "reconciled_actuals",
   calculatedAt |-> NULL, approvedAt |-> v, approvedBy |-> user,
   from |-> r.from, until |-> r.until]

\* The event takes its old_* values from the copy, not from the locked row.
RealisedEvent(o, v, copy, figure) ==
  Event(o, "realised_savings", v, IF v = 1 THEN NoFigure ELSE copy.rs, figure,
        "evidence_received", Evidence)

RealiseCommit(s) ==
  LET o      == request[s].opp
      figure == ConfirmedFigure(request[s], version[s], s)
      new    == [loaded[s] EXCEPT !.status = "realised", !.rs = figure,
                                  !.rsEvent = version[s]]
  IN  /\ pc[s] = "locked"
      /\ Commit(o, FlushRow(opportunities[o], loaded[s], new),
                {RealisedEvent(o, version[s], loaded[s], figure)}, 0)
      /\ EndRequest(s)

\* A worker dies or its client goes away: the server rolls the request back.
Crash(s) ==
  /\ pc[s] # "idle"
  /\ EndRequest(s)
  /\ UNCHANGED tables

-----------------------------------------------------------------------------
Advance(s) == AdvanceConflict(s) \/ AdvanceCommit(s)
Realise(s) == RealiseConflict(s) \/ RealiseLock(s) \/ RealiseCommit(s)

Next ==
  \E s \in Sessions :
    \/ \E o \in Opps, amount \in Amounts \cup {NULL}, from \in Dates \cup {NULL} :
         Create(s, o, amount, from)
    \/ RequestAdvance(s)
    \/ RequestRealise(s)
    \/ Advance(s)
    \/ Realise(s)
    \/ Crash(s)

\* PostgreSQL queues the waiters of a row lock, so a request that waits for one
\* again and again is granted it in the end: strong fairness of those steps.
Fairness == \A s \in Sessions : SF_vars(Advance(s)) /\ SF_vars(Realise(s))

Spec == Init /\ [][Next]_vars

FairSpec == Spec /\ Fairness

-----------------------------------------------------------------------------
(* Properties                                                               *)

\* Every variable has its type.
TypeOK ==
  /\ opportunities \in [Opps -> Rows \cup {NULL}]
  /\ events \subseteq Events
  /\ entries \in [Opps -> Nat]
  /\ rowLock \in [Opps -> Sessions \cup {NULL}]
  /\ pc \in [Sessions -> {"idle", "loaded", "locked"}]
  /\ request \in [Sessions -> AdvanceRequests \cup RealiseRequests \cup {NULL}]
  /\ loaded \in [Sessions -> Rows \cup {NULL}]
  /\ version \in [Sessions -> Nat]

\* The events of each measure form one unbroken chain, whatever the requests
\* read before they wrote: one event per version, each predecessor there and
\* repeated by its successor's old_* columns, no unexplained loss of evidence
\* quality, and no confirmation without its evidence.
ChainUnbroken ==
  \A e \in events :
    /\ e.version = 1 => e.old = NoFigure
    /\ \A d \in Chain(events, e.parent, e.measure) : d.version = e.version => d = e
    /\ ChainIntegrity(events, e)
    /\ EvidenceSufficient(e)

\* What the register shows is the last event of each measure, although every
\* request writes single columns over a row it read some time ago.
SnapshotIsLatestEvent ==
  \A o \in Opps :
    IF opportunities[o] = NULL
      THEN \A e \in events : e.parent # o
      ELSE RowTriggersPass(events, o, opportunities[o])

\* Nothing is implemented, and no saving is confirmed, that nobody approved
\* (advance_waterfall_stage records the approver), also when stale requests
\* overwrite each other.
ApprovedBeforeImplementation ==
  \A o \in Opps : opportunities[o] # NULL =>
    \/ opportunities[o].approvedBy # NULL
    \/ /\ opportunities[o].status \notin {"approved", "implementation", "realised"}
       /\ opportunities[o].rs.status # "confirmed"

\* A saving is counted once: there are never more confirmed savings of an
\* opportunity than audited moves of it into implementation, however many
\* requests to realise it race.
NoDoubleRealisation ==
  \A o \in Opps :
    Cardinality({e \in Chain(events, o, "realised_savings") : e.new.status = "confirmed"})
      <= entries[o]

\* A lock is held exactly by the request that is between its FOR UPDATE and its
\* COMMIT, and the version it read is still the next one.
LockProtectsVersion ==
  \A s \in Sessions : pc[s] = "locked" =>
    /\ rowLock[request[s].opp] = s
    /\ version[s] = LatestVersion(events, request[s].opp, "realised_savings") + 1

\* Every request is answered: no request waits for a row lock for ever.
RequestsFinish == \A s \in Sessions : pc[s] # "idle" ~> pc[s] = "idle"

(* What the message of an error says and the code does not keep.            *)

\* "an opportunity must be in 'implementation' first" (record_realised_savings).
RealisedFromImplementation ==
  [][\A o \in Opps :
       opportunities[o] # NULL /\ opportunities'[o].rs # opportunities[o].rs
         => opportunities[o].status = "implementation"]_opportunities
-----------------------------------------------------------------------------
(* Refinement: the events of an opportunity and its snapshot columns        *)
(* implement the evidence log.                                              *)

OppKeys == Opps \X OppMeasures

HistoryOf(evs, k) ==
  [v \in 1 .. LatestVersion(evs, k[1], k[2]) |->
     LET e == CHOOSE e \in Chain(evs, k[1], k[2]) : e.version = v
     IN  [figure |-> e.new, reason |-> e.reason]]

CurrentOf(row, m) ==
  IF row = NULL THEN NULL
  ELSE IF m = "realised_savings" THEN row.rs ELSE row.afi

Log == INSTANCE EvidenceLog WITH
         Keys <- OppKeys,
         history <- [k \in OppKeys |-> HistoryOf(events, k)],
         current <- [k \in OppKeys |-> CurrentOf(opportunities[k[1]], k[2])]

\* Every request appends to the evidence log or leaves it alone.
ImplementsEvidenceLog == Log!Spec

=============================================================================
