--------------------- MODULE OpportunityWaterfall_proofs ---------------------
(***************************************************************************)
(* Proofs about OpportunityWaterfall, for any number of sessions and       *)
(* opportunities and any amounts, dates and targets.                       *)
(*                                                                         *)
(* The heart of them is that the versions of every chain of events are     *)
(* 1 .. n without a gap.  Only then is the "max(event_version) + 1" that a *)
(* request reads well defined and free, and it stays free to the COMMIT    *)
(* because nobody else appends to a chain whose row is locked.             *)
(***************************************************************************)
EXTENDS OpportunityWaterfall, FiniteSetTheorems, SequenceTheorems, TLAPS

\* What a request in progress holds: what it was asked, its copy of a row, and
\* a row in the database, which is never deleted.
InFlight ==
  \A s \in Sessions : pc[s] # "idle" =>
    /\ request[s] \in AdvanceRequests \cup RealiseRequests
    /\ loaded[s] \in Rows
    /\ opportunities[request[s].opp] \in Rows
    /\ pc[s] = "locked" => request[s] \in RealiseRequests

Versions(o, m) == {e.version : e \in Chain(events, o, m)}

\* The versions of a chain have no gap.
VersionsContiguous ==
  \A o \in Opps, m \in OppMeasures : \E n \in Nat : Versions(o, m) = 1 .. n

IInv ==
  /\ TypeOK
  /\ InFlight
  /\ VersionsContiguous
  /\ LockProtectsVersion
  /\ SnapshotIsLatestEvent
  /\ ChainUnbroken

-----------------------------------------------------------------------------
(* Operators                                                                *)

\* The latest version of a chain without gaps is its length.
LEMMA LatestVersionIs ==
  ASSUME NEW evs, NEW o, NEW m, NEW n \in Nat,
         {e.version : e \in Chain(evs, o, m)} = 1 .. n
  PROVE  LatestVersion(evs, o, m) = n
PROOF
  <1> DEFINE S == {0} \cup {e.version : e \in Chain(evs, o, m)}
             Latest(v) == \A e \in Chain(evs, o, m) : e.version <= v
  <1>1. S = 0 .. n
    OBVIOUS
  <1>2. \A e \in Chain(evs, o, m) : e.version \in 1 .. n
    OBVIOUS
  <1>3. n \in S /\ Latest(n)
    BY <1>1, <1>2
  <1>4. ASSUME NEW v \in S, Latest(v) PROVE v = n
    <2>1. v \in 0 .. n
      BY <1>1
    <2>2. CASE n = 0
      BY <2>1, <2>2
    <2>3. CASE n > 0
      <3>1. PICK e \in Chain(evs, o, m) : e.version = n
        BY <2>3, n \in 1 .. n
      <3>2. n <= v
        BY <3>1, <1>4
      <3> QED
        BY <2>1, <3>2
    <2> QED
      BY <2>2, <2>3
  <1>5. LatestVersion(evs, o, m) = CHOOSE v \in S : Latest(v)
    BY DEF LatestVersion
  <1> HIDE DEF S, Latest
  <1> QED
    BY <1>3, <1>4, <1>5

\* The latest version is a natural number as long as the chain has no gaps.
LEMMA LatestVersionNat ==
  ASSUME VersionsContiguous, NEW o \in Opps, NEW m \in OppMeasures
  PROVE  /\ LatestVersion(events, o, m) \in Nat
         /\ Versions(o, m) = 1 .. LatestVersion(events, o, m)
PROOF
  <1>1. PICK n \in Nat : Versions(o, m) = 1 .. n
    BY DEF VersionsContiguous
  <1>2. LatestVersion(events, o, m) = n
    BY <1>1, LatestVersionIs DEF Versions
  <1> QED
    BY <1>1, <1>2

\* A flushed column is the column of the row or of the new values.
LEMMA ColumnType ==
  ASSUME NEW S, NEW a \in S, NEW b, NEW c \in S
  PROVE  Column(a, b, c) \in S
PROOF
  BY DEF Column

\* Flushing single columns of a figure leaves a figure.
LEMMA FlushFigureType ==
  ASSUME NEW r \in Figures, NEW c \in Figures, NEW n \in Figures
  PROVE  FlushFigure(r, c, n) \in Figures
PROOF
  BY DEF FlushFigure, Figures, Column

\* Flushing single columns of a row leaves a row.
LEMMA FlushRowType ==
  ASSUME NEW r \in Rows, NEW c \in Rows, NEW n \in Rows
  PROVE  FlushRow(r, c, n) \in Rows
PROOF
  <1>1. /\ FlushFigure(r.afi, c.afi, n.afi) \in Figures
        /\ FlushFigure(r.rs, c.rs, n.rs) \in Figures
    BY FlushFigureType DEF Rows
  <1>2. /\ Column(r.status, c.status, n.status) \in Stages
        /\ Column(r.approvedBy, c.approvedBy, n.approvedBy) \in Sessions \cup {NULL}
        /\ Column(r.afiEvent, c.afiEvent, n.afiEvent) \in Nat
        /\ Column(r.rsEvent, c.rsEvent, n.rsEvent) \in Nat
    BY DEF Rows, Column
  <1> QED
    BY <1>1, <1>2 DEF FlushRow, Rows

-----------------------------------------------------------------------------
(* Transactions                                                             *)

\* A transaction, committed or rolled back, leaves well-typed tables.
LEMMA CommitType ==
  ASSUME TypeOK, NEW o \in Opps, NEW row \in Rows,
         NEW added \in SUBSET Events, NEW moves \in Nat,
         Commit(o, row, added, moves)
  PROVE  /\ opportunities' \in [Opps -> Rows \cup {NULL}]
         /\ events' \subseteq Events
         /\ entries' \in [Opps -> Nat]
PROOF
  <1>1. CASE Accepts(events \cup added, o, row, added)
    BY <1>1 DEF Commit, TypeOK
  <1>2. CASE ~Accepts(events \cup added, o, row, added)
    BY <1>2 DEF Commit, TypeOK, tables
  <1> QED
    BY <1>1, <1>2

\* A committed row stays a row, whatever is committed.
LEMMA CommitKeepsRows ==
  ASSUME TypeOK, NEW o \in Opps, NEW row \in Rows, NEW added, NEW moves,
         Commit(o, row, added, moves), NEW p \in Opps
  PROVE  /\ opportunities[p] \in Rows => opportunities'[p] \in Rows
         /\ opportunities'[p] = NULL => opportunities[p] = NULL
PROOF
  BY WaterfallAssumption DEF Commit, TypeOK, tables

\* The end of a request leaves the variables of the sessions well typed.
LEMMA EndRequestType ==
  ASSUME TypeOK, NEW s \in Sessions, EndRequest(s)
  PROVE  /\ rowLock' \in [Opps -> Sessions \cup {NULL}]
         /\ pc' \in [Sessions -> {"idle", "loaded", "locked"}]
         /\ request' \in [Sessions -> AdvanceRequests \cup RealiseRequests \cup {NULL}]
         /\ loaded' \in [Sessions -> Rows \cup {NULL}]
         /\ version' \in [Sessions -> Nat]
PROOF
  BY DEF EndRequest, TypeOK

\* The end of a request leaves the other requests as they were.
LEMMA EndRequestOthers ==
  ASSUME TypeOK, NEW s \in Sessions, EndRequest(s), NEW t \in Sessions, pc'[t] # "idle"
  PROVE  /\ t # s
         /\ pc'[t] = pc[t] /\ request'[t] = request[t]
         /\ loaded'[t] = loaded[t] /\ version'[t] = version[t]
         /\ \A o \in Opps : rowLock[o] = t => rowLock'[o] = t
PROOF
  BY DEF EndRequest, TypeOK

\* A step that ends a request and commits nothing keeps the invariant.
LEMMA RolledBack ==
  ASSUME IInv, NEW s \in Sessions, EndRequest(s), UNCHANGED tables
  PROVE  IInv'
PROOF
  <1>1. TypeOK'
    BY EndRequestType DEF IInv, TypeOK, tables
  <1>2. InFlight'
    BY EndRequestOthers DEF IInv, InFlight, tables
  <1>3. VersionsContiguous' /\ SnapshotIsLatestEvent' /\ ChainUnbroken'
    BY DEF IInv, VersionsContiguous, Versions, SnapshotIsLatestEvent, ChainUnbroken, tables
  <1>4. LockProtectsVersion'
    <2> SUFFICES ASSUME NEW t \in Sessions, pc'[t] = "locked"
                 PROVE  /\ rowLock'[request'[t].opp] = t
                        /\ version'[t] =
                             LatestVersion(events', request'[t].opp, "realised_savings") + 1
      BY DEF LockProtectsVersion
    <2>1. /\ pc[t] = "locked" /\ request'[t] = request[t] /\ version'[t] = version[t]
          /\ \A o \in Opps : rowLock[o] = t => rowLock'[o] = t
      BY EndRequestOthers DEF IInv
    <2>2. request[t].opp \in Opps
      BY <2>1 DEF IInv, InFlight, AdvanceRequests, RealiseRequests
    <2> QED
      BY <2>1, <2>2 DEF IInv, LockProtectsVersion, tables
  <1> QED
    BY <1>1, <1>2, <1>3, <1>4 DEF IInv

\* Events of one opportunity leave the chains of the others alone.
LEMMA OtherChains ==
  ASSUME NEW evs, NEW added, NEW o, \A e \in added : e.parent = o, NEW p, p # o, NEW m
  PROVE  Chain(evs \cup added, p, m) = Chain(evs, p, m)
PROOF
  BY DEF Chain

\* The step that ends a request and commits the next event of some chains of
\* opportunity o, which no other request has locked, keeps the invariant.
LEMMA Committed ==
  ASSUME IInv, NEW s \in Sessions, NEW o \in Opps, NEW row \in Rows,
         NEW added \in SUBSET Events, NEW moves \in Nat,
         Commit(o, row, added, moves), EndRequest(s),
         \A e \in added : /\ e.parent = o
                          /\ e.version = LatestVersion(events, o, e.measure) + 1,
         \A d, e \in added : d.measure = e.measure => d = e,
         \A t \in Sessions \ {s} : pc[t] = "locked" /\ request[t].opp = o => added = {}
  PROVE  IInv'
PROOF
  <1> DEFINE evs == events \cup added
  <1>1. CASE ~Accepts(evs, o, row, added)
    BY <1>1, RolledBack DEF Commit
  <1>2. CASE Accepts(evs, o, row, added)
    <2>1. /\ events' = evs
          /\ opportunities' = [opportunities EXCEPT ![o] = row]
      BY <1>2 DEF Commit
    <2>2. TypeOK'
      BY CommitType, EndRequestType DEF IInv, TypeOK
    <2>3. InFlight'
      <3> SUFFICES ASSUME NEW t \in Sessions, pc'[t] # "idle"
                   PROVE  /\ request'[t] \in AdvanceRequests \cup RealiseRequests
                          /\ loaded'[t] \in Rows
                          /\ opportunities'[request'[t].opp] \in Rows
                          /\ pc'[t] = "locked" => request'[t] \in RealiseRequests
        BY DEF InFlight
      <3>1. /\ pc'[t] = pc[t] /\ request'[t] = request[t] /\ loaded'[t] = loaded[t]
        BY EndRequestOthers DEF IInv
      <3>2. request[t].opp \in Opps
        BY <3>1 DEF IInv, InFlight, AdvanceRequests, RealiseRequests
      <3> QED
        BY <3>1, <3>2, CommitKeepsRows DEF IInv, InFlight
    <2>4. VersionsContiguous'
      <3> SUFFICES ASSUME NEW p \in Opps, NEW m \in OppMeasures
                   PROVE  \E n \in Nat : {e.version : e \in Chain(evs, p, m)} = 1 .. n
        BY <2>1 DEF VersionsContiguous, Versions
      <3>1. PICK n \in Nat : {e.version : e \in Chain(events, p, m)} = 1 .. n
        BY DEF IInv, VersionsContiguous, Versions
      <3>2. CASE p # o \/ \A e \in added : e.measure # m
        <4>1. Chain(evs, p, m) = Chain(events, p, m)
          BY <3>2 DEF Chain
        <4> QED
          BY <3>1, <4>1
      <3>3. CASE p = o /\ \E e \in added : e.measure = m
        <4>1. PICK e \in added : e.measure = m
          BY <3>3
        <4>2. Chain(evs, p, m) = Chain(events, p, m) \cup {e}
          <5>1. \A d \in added : d.measure = m => d = e
            BY <4>1
          <5>2. \A d \in Chain(evs, p, m) : d \in Chain(events, p, m) \/ d = e
            BY <5>1 DEF Chain
          <5>3. e \in Chain(evs, p, m)
            BY <3>3, <4>1 DEF Chain
          <5> QED
            BY <5>2, <5>3 DEF Chain
        <4>3. e.version = n + 1
          <5>1. LatestVersion(events, o, m) = n
            BY <3>1, <3>3, LatestVersionIs
          <5> QED
            BY <4>1, <5>1
        <4>4. {d.version : d \in Chain(evs, p, m)} = (1 .. n) \cup {n + 1}
          BY <3>1, <4>2, <4>3, ZenonT(60)
        <4>5. (1 .. n) \cup {n + 1} = 1 .. (n + 1) /\ n + 1 \in Nat
          OBVIOUS
        <4>6. {d.version : d \in Chain(evs, p, m)} = 1 .. (n + 1)
          BY <4>4, <4>5, Zenon
        <4> QED
          BY <4>5, <4>6, Zenon
      <3> QED
        BY <3>2, <3>3
    <2>5. LockProtectsVersion'
      <3> SUFFICES ASSUME NEW t \in Sessions, pc'[t] = "locked"
                   PROVE  /\ rowLock'[request'[t].opp] = t
                          /\ version'[t] =
                               LatestVersion(evs, request'[t].opp, "realised_savings") + 1
        BY <2>1 DEF LockProtectsVersion
      <3>1. /\ t # s /\ pc[t] = "locked"
            /\ request'[t] = request[t] /\ version'[t] = version[t]
            /\ \A q \in Opps : rowLock[q] = t => rowLock'[q] = t
        BY EndRequestOthers DEF IInv
      <3>2. request[t].opp \in Opps
        BY <3>1 DEF IInv, InFlight, AdvanceRequests, RealiseRequests
      <3>3. Chain(evs, request[t].opp, "realised_savings")
              = Chain(events, request[t].opp, "realised_savings")
        BY <3>1 DEF Chain
      <3>4. LatestVersion(evs, request[t].opp, "realised_savings")
              = LatestVersion(events, request[t].opp, "realised_savings")
        BY <3>3 DEF LatestVersion
      <3> QED
        BY <3>1, <3>2, <3>4 DEF IInv, LockProtectsVersion
    <2>6. SnapshotIsLatestEvent'
      <3> SUFFICES ASSUME NEW p \in Opps
                   PROVE  IF opportunities'[p] = NULL
                            THEN \A e \in evs : e.parent # p
                            ELSE RowTriggersPass(evs, p, opportunities'[p])
        BY <2>1 DEF SnapshotIsLatestEvent
      <3>1. CASE p = o
        BY <1>2, <2>1, <3>1, WaterfallAssumption DEF IInv, TypeOK, Accepts
      <3>2. CASE p # o
        <4>1. opportunities'[p] = opportunities[p]
          BY <2>1, <3>2 DEF IInv, TypeOK
        <4>2. \A m : Chain(evs, p, m) = Chain(events, p, m)
          BY <3>2, OtherChains
        <4>3. RowTriggersPass(evs, p, opportunities[p])
                <=> RowTriggersPass(events, p, opportunities[p])
          BY <4>2 DEF RowTriggersPass, SnapshotMatches, LatestVersion
        <4> QED
          BY <3>2, <4>1, <4>3 DEF IInv, SnapshotIsLatestEvent
      <3> QED
        BY <3>1, <3>2
    <2>7. ChainUnbroken'
      <3> SUFFICES ASSUME NEW e \in evs
                   PROVE  /\ e.version = 1 => e.old = NoFigure
                          /\ \A d \in Chain(evs, e.parent, e.measure) :
                               d.version = e.version => d = e
                          /\ ChainIntegrity(evs, e)
                          /\ EvidenceSufficient(e)
        BY <2>1 DEF ChainUnbroken
      <3>1. \A d \in added : /\ EventInsertable(events, d)
                             /\ ChainIntegrity(evs, d) /\ EvidenceSufficient(d)
        BY <1>2 DEF Accepts, EventTriggersPass
      <3>2. CASE e \in events
        <4>1. e.version = 1 => e.old = NoFigure
          BY <3>2 DEF IInv, ChainUnbroken
        <4>2. ChainIntegrity(evs, e) /\ EvidenceSufficient(e)
          <5>1. ChainIntegrity(events, e) /\ EvidenceSufficient(e)
            BY <3>2 DEF IInv, ChainUnbroken
          <5> QED
            BY <5>1 DEF ChainIntegrity, Chain
        <4>3. ASSUME NEW d \in Chain(evs, e.parent, e.measure), d.version = e.version
              PROVE  d = e
          <5>1. CASE d \in events
            BY <3>2, <4>3, <5>1 DEF IInv, ChainUnbroken, Chain
          <5>2. CASE d \in added
            BY <3>1, <3>2, <4>3, <5>2 DEF EventInsertable, Chain
          <5> QED
            BY <4>3, <5>1, <5>2 DEF Chain
        <4> QED
          BY <4>1, <4>2, <4>3
      <3>3. CASE e \in added
        <4>1. e.version = 1 => e.old = NoFigure
          BY <3>1, <3>3 DEF EventInsertable
        <4>2. ASSUME NEW d \in Chain(evs, e.parent, e.measure), d.version = e.version
              PROVE  d = e
          BY <3>1, <3>3, <4>2 DEF EventInsertable, Chain
        <4> QED
          BY <3>1, <3>3, <4>1, <4>2
      <3> QED
        BY <3>2, <3>3
    <2> QED
      BY <2>2, <2>3, <2>4, <2>5, <2>6, <2>7 DEF IInv
  <1> QED
    BY <1>1, <1>2

-----------------------------------------------------------------------------
(* The inductive invariant                                                  *)

\* The genesis events of one opportunity are well typed and numbered 1.
LEMMA GenesisType ==
  ASSUME NEW o \in Opps, NEW afi \in Figures, afi.status # "confirmed",
         NEW rs \in Figures, rs.status # "confirmed", NEW reason \in Reasons
  PROVE  /\ GenesisEvents(o, afi, rs, reason) \subseteq Events
         /\ \A e \in GenesisEvents(o, afi, rs, reason) :
              e.parent = o /\ e.version = 1 /\ e.old = NoFigure /\ e.new.status # "confirmed"
         /\ \A m \in OppMeasures : \E e \in GenesisEvents(o, afi, rs, reason) :
              e.measure = m /\ e.new = IF m = "realised_savings" THEN rs ELSE afi
         /\ \A d, e \in GenesisEvents(o, afi, rs, reason) : d.measure = e.measure => d = e
PROOF
  BY DEF GenesisEvents, Event, Events, OppMeasures, Evidence

\* So is a figure that is not known.
LEMMA UnknownType == Unknown \in Figures /\ Unknown.status # "confirmed"
PROOF
  BY DEF Unknown, NoFigure, Figures

\* A new row shows the figures of its genesis events.
LEMMA NewRowType ==
  ASSUME NEW afi \in Figures
  PROVE  NewRow(afi) \in Rows
PROOF
  BY DEF NewRow, Rows, Stages, Unknown, NoFigure, Figures

\* The backfill of migration 0021 gives figures.
LEMMA LegacyType ==
  ASSUME NEW a \in Amounts \cup {NULL}
  PROVE  Legacy(a) \in Figures /\ Legacy(a).status # "confirmed"
PROOF
  BY DEF Legacy, Figures, Unknown, NoFigure

\* The rows that the migration leaves are rows, and nothing that they show is confirmed.
LEMMA LegacyRowType ==
  ASSUME NEW row \in LegacyRows
  PROVE  /\ row \in Rows /\ row.afiEvent = 1 /\ row.rsEvent = 1
         /\ row.afi \in Figures /\ row.afi.status # "confirmed"
         /\ row.rs \in Figures /\ row.rs.status # "confirmed"
PROOF
  <1>1. \A f \in Legacies : f \in Figures /\ f.status # "confirmed"
    BY LegacyType DEF Legacies
  <1> QED
    BY <1>1 DEF LegacyRows, Rows

\* The initial states satisfy the invariant.
LEMMA InitInvariant == Init => IInv
PROOF
  <1> SUFFICES ASSUME Init PROVE IInv
    OBVIOUS
  <1>0. PICK upgraded \in SUBSET Opps : \E old \in [upgraded -> LegacyRows] :
          /\ opportunities = [o \in Opps |-> IF o \in upgraded THEN old[o] ELSE NULL]
          /\ events = UNION {GenesisEvents(o, old[o].afi, old[o].rs, "initial_backfill") :
                               o \in upgraded}
    BY DEF Init
  <1>1. PICK old \in [upgraded -> LegacyRows] :
          /\ opportunities = [o \in Opps |-> IF o \in upgraded THEN old[o] ELSE NULL]
          /\ events = UNION {GenesisEvents(o, old[o].afi, old[o].rs, "initial_backfill") :
                               o \in upgraded}
    BY <1>0
  <1> DEFINE genesis(o) == GenesisEvents(o, old[o].afi, old[o].rs, "initial_backfill")
  <1>2. \A o \in upgraded :
          /\ old[o] \in Rows /\ old[o].afiEvent = 1 /\ old[o].rsEvent = 1
          /\ old[o].afi \in Figures /\ old[o].afi.status # "confirmed"
          /\ old[o].rs \in Figures /\ old[o].rs.status # "confirmed"
    BY LegacyRowType
  <1>3. \A o \in upgraded :
          /\ genesis(o) \subseteq Events
          /\ \A e \in genesis(o) : e.parent = o /\ e.version = 1 /\ e.old = NoFigure
                                     /\ e.new.status # "confirmed"
          /\ \A d, e \in genesis(o) : d.measure = e.measure => d = e
          /\ \A m \in OppMeasures : \E e \in genesis(o) :
               e.measure = m
                 /\ e.new = IF m = "realised_savings" THEN old[o].rs ELSE old[o].afi
    <2> TAKE o \in upgraded
    <2>1. PICK afi \in Figures, rs \in Figures :
            afi = old[o].afi /\ rs = old[o].rs /\ afi.status # "confirmed" /\ rs.status # "confirmed"
      BY <1>2
    <2>2. genesis(o) = GenesisEvents(o, afi, rs, "initial_backfill")
      BY <2>1
    <2> HIDE DEF genesis
    <2> QED
      BY <2>1, <2>2, GenesisType DEF Reasons
  <1> HIDE DEF genesis
  <1>4. TypeOK
    <2>1. opportunities \in [Opps -> Rows \cup {NULL}]
      BY <1>1, <1>2
    <2>2. events \subseteq Events
      BY <1>1, <1>3 DEF genesis
    <2>3. /\ entries \in [Opps -> Nat]
          /\ rowLock \in [Opps -> Sessions \cup {NULL}]
          /\ pc \in [Sessions -> {"idle", "loaded", "locked"}]
          /\ request \in [Sessions -> AdvanceRequests \cup RealiseRequests \cup {NULL}]
          /\ loaded \in [Sessions -> Rows \cup {NULL}]
          /\ version \in [Sessions -> Nat]
      BY DEF Init
    <2> QED
      BY <2>1, <2>2, <2>3 DEF TypeOK
  <1>5. InFlight /\ LockProtectsVersion
    BY DEF Init, InFlight, LockProtectsVersion
  <1>6. \A e \in events : \E o \in upgraded : e \in genesis(o)
    BY <1>1 DEF genesis
  <1>7. \A o \in upgraded : genesis(o) \subseteq events
    BY <1>1 DEF genesis
  <1>8. ASSUME NEW o \in Opps, NEW m \in OppMeasures
        PROVE  Versions(o, m) = 1 .. (IF o \in upgraded THEN 1 ELSE 0)
    <2>1. CASE o \in upgraded
      <3>1. \A e \in Chain(events, o, m) : e.version = 1
        BY <1>3, <1>6 DEF Chain
      <3>2. \E e \in genesis(o) : e.measure = m /\ e.parent = o
        BY <1>3, <2>1
      <3>3. \E e \in Chain(events, o, m) : TRUE
        BY <3>2, <1>7, <2>1 DEF Chain
      <3>4. Versions(o, m) = {1}
        BY <3>1, <3>3 DEF Versions
      <3>5. 1 .. 1 = {1}
        OBVIOUS
      <3> QED
        BY <2>1, <3>4, <3>5, Zenon
    <2>2. CASE o \notin upgraded
      <3>1. Versions(o, m) = {}
        BY <1>3, <1>6, <2>2 DEF Versions, Chain
      <3>2. 1 .. 0 = {}
        OBVIOUS
      <3> QED
        BY <2>2, <3>1, <3>2, Zenon
    <2> QED
      BY <2>1, <2>2
  <1>9. VersionsContiguous
    <2>1. 0 \in Nat /\ 1 \in Nat
      OBVIOUS
    <2> QED
      BY <1>8, <2>1, Zenon DEF VersionsContiguous
  <1>10. SnapshotIsLatestEvent
    <2> SUFFICES ASSUME NEW o \in Opps
                 PROVE  IF opportunities[o] = NULL
                          THEN \A e \in events : e.parent # o
                          ELSE RowTriggersPass(events, o, opportunities[o])
      BY DEF SnapshotIsLatestEvent
    <2>1. CASE o \notin upgraded
      BY <1>1, <1>3, <1>6, <2>1
    <2>2. CASE o \in upgraded
      <3>1. opportunities[o] = old[o] /\ opportunities[o] # NULL
        BY <1>1, <1>2, <2>2, WaterfallAssumption
      <3>2. \A m \in OppMeasures : LatestVersion(events, o, m) = 1
        BY <1>8, <2>2, LatestVersionIs DEF Versions
      <3>3. \A m \in OppMeasures : \E e \in Chain(events, o, m) :
              /\ e.version = 1
              /\ e.new = IF m = "realised_savings" THEN old[o].rs ELSE old[o].afi
        BY <1>3, <1>7, <2>2 DEF Chain
      <3>4. 1 # NULL
        BY WaterfallAssumption
      <3> QED
        BY <1>2, <2>2, <3>1, <3>2, <3>3, <3>4 DEF RowTriggersPass, SnapshotMatches, OppMeasures
    <2> QED
      BY <2>1, <2>2
  <1>11. ChainUnbroken
    <2>1. \A e \in events : e.version = 1 /\ e.old = NoFigure /\ e.new.status # "confirmed"
      BY <1>3, <1>6
    <2>2. \A d, e \in events : d.parent = e.parent /\ d.measure = e.measure => d = e
      BY <1>3, <1>6
    <2> QED
      BY <2>1, <2>2 DEF ChainUnbroken, Chain, ChainIntegrity, EvidenceSufficient
  <1> QED
    BY <1>4, <1>5, <1>9, <1>10, <1>11 DEF IInv

\* Every step of create_opportunity keeps the invariant.
LEMMA CreateInvariant ==
  ASSUME IInv, NEW s \in Sessions, NEW o \in Opps,
         NEW amount \in Amounts \cup {NULL}, NEW from \in Dates \cup {NULL},
         Create(s, o, amount, from)
  PROVE  IInv'
PROOF
  <1>1. CASE amount # NULL /\ from = NULL
    BY <1>1, RolledBack DEF Create, RaiseConflict
  <1>2. CASE ~(amount # NULL /\ from = NULL)
    <2> DEFINE afi == IF amount = NULL THEN Unknown
                      ELSE [NoFigure EXCEPT !.amount = amount, !.status = "estimated",
                                            !.basis = "manual_estimate", !.from = from]
               added == GenesisEvents(o, afi, Unknown, "manual_estimate")
    <2>1. Commit(o, NewRow(afi), added, 0) /\ EndRequest(s) /\ opportunities[o] = NULL
      BY <1>2 DEF Create
    <2>2. afi \in Figures /\ afi.status # "confirmed"
      BY DEF Figures, Unknown, NoFigure
    <2> HIDE DEF afi
    <2>3. /\ added \in SUBSET Events
          /\ \A e \in added : e.parent = o /\ e.version = 1 /\ e.measure \in OppMeasures
          /\ \A d, e \in added : d.measure = e.measure => d = e
      BY <2>2, GenesisType, UnknownType DEF Reasons, Events
    <2>4. NewRow(afi) \in Rows
      BY <2>2, NewRowType
    <2> HIDE DEF added
    <2>5. \A e \in events : e.parent # o
      BY <2>1 DEF IInv, SnapshotIsLatestEvent
    <2>6. \A m \in OppMeasures : LatestVersion(events, o, m) = 0
      <3>1. \A m \in OppMeasures : Versions(o, m) = 1 .. 0
        BY <2>5 DEF Versions, Chain
      <3> QED
        BY <3>1, LatestVersionIs DEF Versions
    <2>7. \A e \in added :
            e.parent = o /\ e.version = LatestVersion(events, o, e.measure) + 1
      BY <2>3, <2>6
    <2>8. \A t \in Sessions : pc[t] = "locked" => request[t].opp # o
      BY <2>1, WaterfallAssumption DEF IInv, InFlight
    <2> QED
      BY <2>1, <2>3, <2>4, <2>7, <2>8, Committed
  <1> QED
    BY <1>1, <1>2

\* _get_opportunity keeps the invariant.
LEMMA LoadInvariant ==
  ASSUME IInv, NEW s \in Sessions, NEW r \in AdvanceRequests \cup RealiseRequests,
         Load(s, r)
  PROVE  IInv'
PROOF
  <1>1. r.opp \in Opps
    BY DEF AdvanceRequests, RealiseRequests
  <1>2. TypeOK'
    BY <1>1 DEF IInv, TypeOK, Load, tables
  <1>3. InFlight'
    BY <1>1 DEF IInv, TypeOK, InFlight, Load, tables
  <1>4. VersionsContiguous' /\ SnapshotIsLatestEvent' /\ ChainUnbroken'
    BY DEF IInv, VersionsContiguous, Versions, SnapshotIsLatestEvent, ChainUnbroken,
           Load, tables
  <1>5. LockProtectsVersion'
    BY DEF IInv, TypeOK, LockProtectsVersion, Load, tables
  <1> QED
    BY <1>2, <1>3, <1>4, <1>5 DEF IInv

\* advance_waterfall_stage only moves a row to a status the table knows.
LEMMA AdvancedRowType ==
  ASSUME NEW s \in Sessions, NEW copy \in Rows, NEW target, MayAdvance(copy.status, target)
  PROVE  AdvancedRow(copy, target, s) \in Rows
PROOF
  <1>1. target \in Stages
    BY DEF MayAdvance, Position, Stages
  <1> QED
    BY <1>1 DEF AdvancedRow, Rows

\* The commit of advance_waterfall_stage keeps the invariant.
LEMMA AdvanceCommitInvariant ==
  ASSUME IInv, NEW s \in Sessions, AdvanceCommit(s)
  PROVE  IInv'
PROOF
  <1> DEFINE o   == request[s].opp
             new == AdvancedRow(loaded[s], request[s].target, s)
             row == FlushRow(opportunities[o], loaded[s], new)
             moves == IF request[s].target = "implementation" THEN 1 ELSE 0
  <1>1. /\ MayAdvance(loaded[s].status, request[s].target)
        /\ Commit(o, row, {}, moves) /\ EndRequest(s) /\ pc[s] # "idle"
    BY DEF AdvanceCommit
  <1>2. o \in Opps /\ loaded[s] \in Rows /\ opportunities[o] \in Rows
    BY <1>1 DEF IInv, InFlight, AdvanceRequests, RealiseRequests
  <1>3. row \in Rows
    BY <1>1, <1>2, AdvancedRowType, FlushRowType
  <1>4. moves \in Nat
    OBVIOUS
  <1> HIDE DEF o, new, row, moves
  <1> QED
    BY <1>1, <1>2, <1>3, <1>4, Committed

\* SELECT ... FOR UPDATE keeps the invariant: the version read is the next one.
LEMMA RealiseLockInvariant ==
  ASSUME IInv, NEW s \in Sessions, RealiseLock(s)
  PROVE  IInv'
PROOF
  <1> DEFINE o == request[s].opp
             next == LatestVersion(events, o, "realised_savings") + 1
  <1>1. /\ pc[s] = "loaded" /\ request[s].kind = "realise" /\ rowLock[o] = NULL
        /\ rowLock' = [rowLock EXCEPT ![o] = s]
        /\ version' = [version EXCEPT ![s] = next]
        /\ pc' = [pc EXCEPT ![s] = "locked"]
        /\ UNCHANGED <<tables, request, loaded>>
    BY DEF RealiseLock
  <1>2. request[s] \in RealiseRequests /\ o \in Opps
    BY <1>1 DEF IInv, InFlight, AdvanceRequests, RealiseRequests
  <1>3. next \in Nat
    BY <1>2, LatestVersionNat DEF IInv, OppMeasures
  <1> HIDE DEF next, o
  <1>4. TypeOK'
    BY <1>1, <1>2, <1>3 DEF IInv, TypeOK, tables
  <1>5. InFlight'
    BY <1>1, <1>2 DEF IInv, TypeOK, InFlight, tables
  <1>6. VersionsContiguous' /\ SnapshotIsLatestEvent' /\ ChainUnbroken'
    BY <1>1 DEF IInv, VersionsContiguous, Versions, SnapshotIsLatestEvent, ChainUnbroken,
                tables
  <1>7. LockProtectsVersion'
    <2> SUFFICES ASSUME NEW t \in Sessions, pc'[t] = "locked"
                 PROVE  /\ rowLock'[request[t].opp] = t
                        /\ version'[t] =
                             LatestVersion(events, request[t].opp, "realised_savings") + 1
      BY <1>1 DEF LockProtectsVersion, tables
    <2>1. CASE t = s
      BY <1>1, <1>2, <2>1 DEF IInv, TypeOK, o, next
    <2>2. CASE t # s
      <3>1. pc[t] = "locked" /\ version'[t] = version[t]
        BY <1>1, <2>2 DEF IInv, TypeOK
      <3>2. rowLock[request[t].opp] = t
        BY <3>1 DEF IInv, LockProtectsVersion
      <3>3. request[t].opp # o
        BY <1>1, <3>2, WaterfallAssumption
      <3> QED
        BY <1>1, <3>1, <3>2, <3>3 DEF IInv, TypeOK, LockProtectsVersion
    <2> QED
      BY <2>1, <2>2
  <1> QED
    BY <1>4, <1>5, <1>6, <1>7 DEF IInv

\* The commit of record_realised_savings keeps the invariant: the event takes
\* the next version of a chain that only this request may extend.
LEMMA RealiseCommitInvariant ==
  ASSUME IInv, NEW s \in Sessions, RealiseCommit(s)
  PROVE  IInv'
PROOF
  <1> DEFINE o      == request[s].opp
             figure == ConfirmedFigure(request[s], version[s], s)
             new    == [loaded[s] EXCEPT !.status = "realised", !.rs = figure,
                                         !.rsEvent = version[s]]
             row    == FlushRow(opportunities[o], loaded[s], new)
             event  == RealisedEvent(o, version[s], loaded[s], figure)
  <1>1. pc[s] = "locked" /\ Commit(o, row, {event}, 0) /\ EndRequest(s)
    BY DEF RealiseCommit
  <1>2. /\ request[s] \in RealiseRequests /\ o \in Opps
        /\ loaded[s] \in Rows /\ opportunities[o] \in Rows
    BY <1>1 DEF IInv, InFlight, RealiseRequests
  <1>3. /\ rowLock[o] = s
        /\ version[s] = LatestVersion(events, o, "realised_savings") + 1
    BY <1>1 DEF IInv, LockProtectsVersion
  <1>4. version[s] \in Nat \ {0}
    <2>1. LatestVersion(events, o, "realised_savings") \in Nat
      BY <1>2, LatestVersionNat DEF IInv, OppMeasures
    <2> QED
      BY <1>3, <2>1
  <1>5. figure \in Figures
    BY <1>2, <1>4 DEF ConfirmedFigure, Figures, RealiseRequests
  <1>6. new \in Rows
    BY <1>2, <1>4, <1>5 DEF Rows, Stages
  <1>7. row \in Rows
    BY <1>2, <1>6, FlushRowType
  <1>8. /\ event \in Events
        /\ event.parent = o /\ event.version = version[s]
        /\ event.measure = "realised_savings"
    BY <1>2, <1>4, <1>5
       DEF RealisedEvent, Event, Events, OppMeasures, Reasons, Evidence, Rows
  <1>9. \A t \in Sessions \ {s} : ~(pc[t] = "locked" /\ request[t].opp = o)
    BY <1>3 DEF IInv, LockProtectsVersion
  <1>10. {event} \in SUBSET Events /\ 0 \in Nat
    BY <1>8
  <1> HIDE DEF o, figure, new, row, event
  <1>11. \A e \in {event} :
           e.parent = o /\ e.version = LatestVersion(events, o, e.measure) + 1
    BY <1>3, <1>8
  <1> QED
    BY <1>1, <1>2, <1>7, <1>9, <1>10, <1>11, Committed

\* Every step keeps the invariant.
LEMMA StepInvariant == IInv /\ [Next]_vars => IInv'
PROOF
  <1> SUFFICES ASSUME IInv, [Next]_vars PROVE IInv'
    OBVIOUS
  <1>1. ASSUME NEW s \in Sessions, NEW o \in Opps,
               NEW amount \in Amounts \cup {NULL}, NEW from \in Dates \cup {NULL},
               Create(s, o, amount, from)
        PROVE  IInv'
    BY <1>1, CreateInvariant
  <1>2. ASSUME NEW s \in Sessions, RequestAdvance(s) \/ RequestRealise(s)
        PROVE  IInv'
    BY <1>2, LoadInvariant DEF RequestAdvance, RequestRealise
  <1>3. ASSUME NEW s \in Sessions, Advance(s)
        PROVE  IInv'
    BY <1>3, RolledBack, AdvanceCommitInvariant
       DEF Advance, AdvanceConflict, RaiseConflict
  <1>4. ASSUME NEW s \in Sessions, Realise(s)
        PROVE  IInv'
    BY <1>4, RolledBack, RealiseLockInvariant, RealiseCommitInvariant
       DEF Realise, RealiseConflict, RaiseConflict
  <1>5. ASSUME NEW s \in Sessions, Crash(s)
        PROVE  IInv'
    BY <1>5, RolledBack DEF Crash
  <1>6. CASE UNCHANGED vars
    <2>1. TypeOK' /\ InFlight' /\ VersionsContiguous'
      BY <1>6 DEF IInv, vars, TypeOK, InFlight, VersionsContiguous, Versions
    <2>2. SnapshotIsLatestEvent' /\ ChainUnbroken' /\ LockProtectsVersion'
      BY <1>6 DEF IInv, vars, SnapshotIsLatestEvent, ChainUnbroken, LockProtectsVersion
    <2> QED
      BY <2>1, <2>2 DEF IInv
  <1> QED
    BY <1>1, <1>2, <1>3, <1>4, <1>5, <1>6 DEF Next

\* IInv is an invariant of the register.
LEMMA Invariant == Spec => []IInv
PROOF
  BY InitInvariant, StepInvariant, PTL DEF Spec

-----------------------------------------------------------------------------
(* The theorems                                                             *)

\* The register (opportunities, events, requests in progress) is well typed.
THEOREM TypeCorrect == Spec => []TypeOK
PROOF
  <1>1. IInv => TypeOK
    BY DEF IInv
  <1> QED
    BY <1>1, Invariant, PTL

\* _write_opportunity_measure_event: between FOR UPDATE and COMMIT the version
\* that was read stays the next one of its chain.
THEOREM LockIsProtective == Spec => []LockProtectsVersion
PROOF
  <1>1. IInv => LockProtectsVersion
    BY DEF IInv
  <1> QED
    BY <1>1, Invariant, PTL

\* The evidence trail of every measure is one unbroken chain, whatever the racing
\* requests read before they wrote (migration 0021).
THEOREM ChainIsUnbroken == Spec => []ChainUnbroken
PROOF
  <1>1. IInv => ChainUnbroken
    BY DEF IInv
  <1> QED
    BY <1>1, Invariant, PTL

\* The snapshot columns of every opportunity repeat the last event of their
\* measure (migration 0024), although requests write stale columns.
THEOREM SnapshotIsLatest == Spec => []SnapshotIsLatestEvent
PROOF
  <1>1. IInv => SnapshotIsLatestEvent
    BY DEF IInv
  <1> QED
    BY <1>1, Invariant, PTL

-----------------------------------------------------------------------------
(* Approval.  Stale requests overwrite the status, so "who approved this"   *)
(* has to follow from the copies they hold: a copy with an approver is only *)
(* ever older than a row with an approver, because no request clears it.    *)

Approved(row) ==
  \/ row.approvedBy # NULL
  \/ /\ row.status \notin {"approved", "implementation", "realised"}
     /\ row.rs.status # "confirmed"

ApprovalInv ==
  /\ \A o \in Opps : opportunities[o] \in Rows => Approved(opportunities[o])
  /\ \A s \in Sessions : pc[s] # "idle" =>
       /\ Approved(loaded[s])
       /\ loaded[s].approvedBy # NULL => opportunities[request[s].opp].approvedBy # NULL
       /\ pc[s] = "locked" => loaded[s].approvedBy # NULL

\* A step that ends a request and commits a row that keeps its approver keeps
\* the approval invariant.
LEMMA ApprovedCommit ==
  ASSUME IInv, ApprovalInv, NEW s \in Sessions, NEW o \in Opps, NEW row \in Rows,
         NEW added, NEW moves, Commit(o, row, added, moves), EndRequest(s),
         Approved(row),
         opportunities[o] \in Rows /\ opportunities[o].approvedBy # NULL
           => row.approvedBy # NULL
  PROVE  ApprovalInv'
PROOF
  <1>1. \/ opportunities' = [opportunities EXCEPT ![o] = row]
        \/ opportunities' = opportunities
    BY DEF Commit, tables
  <1>2. ASSUME NEW p \in Opps, opportunities'[p] \in Rows PROVE Approved(opportunities'[p])
    BY <1>1, <1>2 DEF IInv, TypeOK, ApprovalInv
  <1>3. ASSUME NEW t \in Sessions, pc'[t] # "idle"
        PROVE  /\ Approved(loaded'[t])
               /\ loaded'[t].approvedBy # NULL
                    => opportunities'[request'[t].opp].approvedBy # NULL
               /\ pc'[t] = "locked" => loaded'[t].approvedBy # NULL
    <2>1. /\ pc[t] = pc'[t] /\ request'[t] = request[t] /\ loaded'[t] = loaded[t]
      BY <1>3, EndRequestOthers DEF IInv
    <2>2. request[t].opp \in Opps /\ opportunities[request[t].opp] \in Rows
      BY <1>3, <2>1 DEF IInv, InFlight, AdvanceRequests, RealiseRequests
    <2>3. opportunities[request[t].opp].approvedBy # NULL
            => opportunities'[request[t].opp].approvedBy # NULL
      BY <1>1, <2>2 DEF IInv, TypeOK
    <2> QED
      BY <1>3, <2>1, <2>3 DEF ApprovalInv
  <1> QED
    BY <1>2, <1>3 DEF ApprovalInv

\* So does a step that ends a request and commits nothing.
LEMMA ApprovedRolledBack ==
  ASSUME IInv, ApprovalInv, NEW s \in Sessions, EndRequest(s), UNCHANGED tables
  PROVE  ApprovalInv'
PROOF
  BY EndRequestOthers DEF IInv, ApprovalInv, tables

\* The row that advance_waterfall_stage flushes is approved.
LEMMA ApprovedAdvance ==
  ASSUME IInv, ApprovalInv, NEW s \in Sessions, AdvanceCommit(s)
  PROVE  ApprovalInv'
PROOF
  <1> DEFINE o      == request[s].opp
             target == request[s].target
             new    == AdvancedRow(loaded[s], target, s)
             row    == FlushRow(opportunities[o], loaded[s], new)
             moves  == IF target = "implementation" THEN 1 ELSE 0
  <1>1. /\ MayAdvance(loaded[s].status, target) /\ pc[s] # "idle"
        /\ Commit(o, row, {}, moves) /\ EndRequest(s)
    BY DEF AdvanceCommit
  <1>2. o \in Opps /\ loaded[s] \in Rows /\ opportunities[o] \in Rows
    BY <1>1 DEF IInv, InFlight, AdvanceRequests, RealiseRequests
  <1>3. row \in Rows
    BY <1>1, <1>2, AdvancedRowType, FlushRowType
  <1>4. /\ Approved(loaded[s]) /\ Approved(opportunities[o])
        /\ loaded[s].approvedBy # NULL => opportunities[o].approvedBy # NULL
    BY <1>1, <1>2 DEF ApprovalInv
  <1>5. /\ row.status \in {opportunities[o].status, target}
        /\ row.rs = opportunities[o].rs
        /\ \/ row.approvedBy = opportunities[o].approvedBy
           \/ target = "approved" /\ row.approvedBy = s
        /\ target = "approved" => row.approvedBy # NULL
    <2>1. new.rs = loaded[s].rs /\ new.status = target
          /\ new.approvedBy = IF target = "approved" THEN s ELSE loaded[s].approvedBy
      BY <1>2 DEF AdvancedRow, Rows
    <2>2. row.rs = opportunities[o].rs
      BY <1>2, <2>1 DEF FlushRow, FlushFigure, Column, Rows, Figures
    <2>3. /\ row.status = Column(opportunities[o].status, loaded[s].status, target)
          /\ row.approvedBy =
               Column(opportunities[o].approvedBy, loaded[s].approvedBy, new.approvedBy)
      BY <2>1 DEF FlushRow
    <2> HIDE DEF row, new, target, o
    <2>4. CASE target = "approved"
      <3>1. new.approvedBy = s /\ s # NULL
        BY <2>1, <2>4, WaterfallAssumption
      <3>2. row.approvedBy = IF s = loaded[s].approvedBy THEN opportunities[o].approvedBy
                                                        ELSE s
        BY <2>3, <3>1 DEF Column
      <3> QED
        BY <1>4, <2>2, <2>3, <2>4, <3>1, <3>2 DEF Column
    <2>5. CASE target # "approved"
      BY <2>1, <2>2, <2>3, <2>5 DEF Column
    <2> QED
      BY <2>4, <2>5
  <1>6. target \in {"implementation", "realised"} => loaded[s].approvedBy # NULL
    BY <1>1, <1>2, <1>4 DEF MayAdvance, Position, Approved, Rows, Stages
  <1>7. opportunities[o].approvedBy # NULL => row.approvedBy # NULL
    BY <1>5, WaterfallAssumption
  <1>8. Approved(row)
    <2> HIDE DEF row, target, o
    <2> QED
      BY <1>4, <1>5, <1>6, <1>7 DEF Approved
  <1> HIDE DEF o, row, moves, target
  <1> QED
    BY <1>1, <1>2, <1>3, <1>7, <1>8, ApprovedCommit

\* The row that record_realised_savings flushes is approved.
LEMMA ApprovedRealise ==
  ASSUME IInv, ApprovalInv, NEW s \in Sessions, RealiseCommit(s)
  PROVE  ApprovalInv'
PROOF
  <1> DEFINE o      == request[s].opp
             figure == ConfirmedFigure(request[s], version[s], s)
             new    == [loaded[s] EXCEPT !.status = "realised", !.rs = figure,
                                         !.rsEvent = version[s]]
             row    == FlushRow(opportunities[o], loaded[s], new)
             event  == RealisedEvent(o, version[s], loaded[s], figure)
  <1>1. pc[s] = "locked" /\ Commit(o, row, {event}, 0) /\ EndRequest(s)
    BY DEF RealiseCommit
  <1>2. /\ request[s] \in RealiseRequests /\ o \in Opps
        /\ loaded[s] \in Rows /\ opportunities[o] \in Rows
    BY <1>1 DEF IInv, InFlight, RealiseRequests
  <1>3. figure \in Figures
    BY <1>2 DEF IInv, TypeOK, ConfirmedFigure, Figures, RealiseRequests
  <1>4. new \in Rows
    BY <1>2, <1>3 DEF IInv, TypeOK, Rows, Stages
  <1>5. row \in Rows
    BY <1>2, <1>4, FlushRowType
  <1>6. opportunities[o].approvedBy # NULL
    BY <1>1 DEF ApprovalInv
  <1>7. row.approvedBy = opportunities[o].approvedBy
    BY <1>2 DEF FlushRow, Column, Rows
  <1> HIDE DEF o, figure, new, row, event
  <1> QED
    BY <1>1, <1>2, <1>5, <1>6, <1>7, ApprovedCommit DEF Approved

\* Initially what needs an approval has one.
LEMMA InitApproval == Init => ApprovalInv
PROOF
  <1> SUFFICES ASSUME Init PROVE ApprovalInv
    OBVIOUS
  <1>1. ASSUME NEW o \in Opps, opportunities[o] \in Rows PROVE Approved(opportunities[o])
    <2>1. opportunities[o] \in LegacyRows
      BY <1>1, WaterfallAssumption DEF Init
    <2> QED
      BY <2>1, UnknownType DEF LegacyRows, Approved
  <1> QED
    BY <1>1 DEF Init, ApprovalInv

\* Every step keeps the approval invariant.
LEMMA StepApproval == IInv /\ ApprovalInv /\ [Next]_vars => ApprovalInv'
PROOF
  <1> SUFFICES ASSUME IInv, ApprovalInv, [Next]_vars PROVE ApprovalInv'
    OBVIOUS
  <1>1. ASSUME NEW s \in Sessions, NEW o \in Opps,
               NEW amount \in Amounts \cup {NULL}, NEW from \in Dates \cup {NULL},
               Create(s, o, amount, from)
        PROVE  ApprovalInv'
    <2>1. CASE amount # NULL /\ from = NULL
      BY <1>1, <2>1, ApprovedRolledBack DEF Create, RaiseConflict
    <2>2. CASE ~(amount # NULL /\ from = NULL)
      <3> DEFINE afi == IF amount = NULL THEN Unknown
                        ELSE [NoFigure EXCEPT !.amount = amount, !.status = "estimated",
                                              !.basis = "manual_estimate", !.from = from]
      <3>1. /\ Commit(o, NewRow(afi), GenesisEvents(o, afi, Unknown, "manual_estimate"), 0)
            /\ EndRequest(s) /\ opportunities[o] = NULL
        BY <1>1, <2>2 DEF Create
      <3>2. afi \in Figures
        BY DEF Figures, Unknown, NoFigure
      <3> HIDE DEF afi
      <3>3. NewRow(afi) \in Rows /\ Approved(NewRow(afi))
        BY <3>2, NewRowType DEF NewRow, Approved, Unknown, NoFigure
      <3> QED
        BY <3>1, <3>3, ApprovedCommit, WaterfallAssumption
    <2> QED
      BY <2>1, <2>2
  <1>2. ASSUME NEW s \in Sessions, RequestAdvance(s) \/ RequestRealise(s)
        PROVE  ApprovalInv'
    <2>1. PICK r \in AdvanceRequests \cup RealiseRequests : Load(s, r)
      BY <1>2 DEF RequestAdvance, RequestRealise
    <2>2. opportunities[r.opp] \in Rows
      BY <2>1 DEF Load, IInv, TypeOK, AdvanceRequests, RealiseRequests
    <2>3. r.opp \in Opps
      BY DEF AdvanceRequests, RealiseRequests
    <2> QED
      BY <2>1, <2>2, <2>3 DEF Load, IInv, TypeOK, ApprovalInv, tables
  <1>3. ASSUME NEW s \in Sessions, Advance(s)
        PROVE  ApprovalInv'
    BY <1>3, ApprovedRolledBack, ApprovedAdvance
       DEF Advance, AdvanceConflict, RaiseConflict
  <1>4. ASSUME NEW s \in Sessions, RealiseConflict(s) \/ RealiseCommit(s)
        PROVE  ApprovalInv'
    BY <1>4, ApprovedRolledBack, ApprovedRealise DEF RealiseConflict, RaiseConflict
  <1>5. ASSUME NEW s \in Sessions, RealiseLock(s)
        PROVE  ApprovalInv'
    <2>1. /\ loaded[s].status = "implementation" /\ pc[s] # "idle"
          /\ pc' = [pc EXCEPT ![s] = "locked"]
          /\ UNCHANGED <<tables, request, loaded>>
      BY <1>5 DEF RealiseLock, MayRealise
    <2>2. loaded[s].approvedBy # NULL
      BY <2>1 DEF ApprovalInv, Approved
    <2> QED
      BY <2>1, <2>2 DEF IInv, TypeOK, ApprovalInv, tables
  <1>6. ASSUME NEW s \in Sessions, Crash(s)
        PROVE  ApprovalInv'
    BY <1>6, ApprovedRolledBack DEF Crash
  <1>7. CASE UNCHANGED vars
    BY <1>7 DEF vars, ApprovalInv
  <1> QED
    BY <1>1, <1>2, <1>3, <1>4, <1>5, <1>6, <1>7 DEF Next, Realise

\* advance_waterfall_stage: nothing is implemented, and no saving confirmed, that
\* nobody approved, however many stale requests race.
THEOREM ApprovalComesFirst == Spec => []ApprovedBeforeImplementation
PROOF
  <1>1. IInv /\ ApprovalInv => ApprovedBeforeImplementation
    BY DEF IInv, TypeOK, ApprovalInv, Approved, ApprovedBeforeImplementation
  <1>2. Spec => []ApprovalInv
    BY Invariant, InitApproval, StepApproval, PTL DEF Spec
  <1> QED
    BY <1>1, <1>2, Invariant, PTL

-----------------------------------------------------------------------------
(* Savings.  A request to realise works on a copy, and only the chain       *)
(* trigger compares that copy with the row: it rolls back whoever read      *)
(* another figure than the one that stands.  A figure that is confirmed is  *)
(* new, because it carries its version, so a copy that still agrees with    *)
(* its row is older than no confirmation, and the move to implementation    *)
(* that it saw has not been used up.                                        *)

Confirmed(evs, o) ==
  {e \in Chain(evs, o, "realised_savings") : e.new.status = "confirmed"}

\* A move to implementation that no saving was confirmed for yet.
Unused(o) == Cardinality(Confirmed(events, o)) < entries[o]

\* What the copy of a request was when it agrees with its row.
CopyAgrees(s) ==
  LET o == request[s].opp
  IN  /\ \E e \in Chain(events, o, "realised_savings") : e.new = loaded[s].rs
      /\ loaded[s].status = "implementation" /\ loaded[s].rs = opportunities[o].rs => Unused(o)
      /\ pc[s] = "locked" => loaded[s].status = "implementation"

SavingsInv ==
  /\ \A o \in Opps : /\ IsFiniteSet(Confirmed(events, o))
                     /\ Cardinality(Confirmed(events, o)) <= entries[o]
  /\ \A o \in Opps : \A e \in Confirmed(events, o) : e.new.approvedAt = e.version
  /\ \A o \in Opps :
       opportunities[o] \in Rows /\ opportunities[o].status = "implementation" => Unused(o)
  /\ \A s \in Sessions : pc[s] # "idle" => CopyAgrees(s)

\* What advance_waterfall_stage may flush: the status or nothing of it, and no
\* column of a figure.
LEMMA AdvancedFlush ==
  ASSUME NEW now \in Rows, NEW copy \in Rows, NEW target, NEW user,
         NEW row, row = FlushRow(now, copy, AdvancedRow(copy, target, user))
  PROVE  row.rs = now.rs /\ row.status \in {now.status, target}
PROOF
  <1> DEFINE new == AdvancedRow(copy, target, user)
  <1>1. new.rs = copy.rs /\ new.status = target
    BY DEF AdvancedRow, Rows
  <1>2. row.rs = FlushFigure(now.rs, copy.rs, new.rs)
        /\ row.status = Column(now.status, copy.status, new.status)
    BY DEF FlushRow
  <1>3. now.rs \in Figures
    BY DEF Rows
  <1>4. row.rs = now.rs
    BY <1>1, <1>2, <1>3 DEF FlushFigure, Column, Figures
  <1> QED
    BY <1>1, <1>2, <1>4 DEF Column

\* A step that ends a request and leaves the events, the moves and the row of the
\* realised savings alone keeps the savings invariant.
LEMMA SavingsRolledBack ==
  ASSUME IInv, SavingsInv, NEW s \in Sessions, EndRequest(s), UNCHANGED tables
  PROVE  SavingsInv'
PROOF
  <1>1. ASSUME NEW t \in Sessions, pc'[t] # "idle" PROVE CopyAgrees(t)'
    <2>1. pc'[t] = pc[t] /\ request'[t] = request[t] /\ loaded'[t] = loaded[t]
      BY <1>1, EndRequestOthers DEF IInv
    <2>2. CopyAgrees(t)
      BY <1>1, <2>1 DEF SavingsInv
    <2> QED
      BY <2>1, <2>2 DEF CopyAgrees, Unused, Confirmed, tables
  <1> QED
    BY <1>1 DEF SavingsInv, Unused, Confirmed, tables

\* A request that loads a row holds what the row says.
LEMMA SavingsLoad ==
  ASSUME IInv, SavingsInv, NEW s \in Sessions,
         NEW r \in AdvanceRequests \cup RealiseRequests, Load(s, r)
  PROVE  SavingsInv'
PROOF
  <1>1. r.opp \in Opps /\ opportunities[r.opp] \in Rows
    BY DEF Load, IInv, TypeOK, AdvanceRequests, RealiseRequests
  <1>2. opportunities[r.opp] # NULL
    BY <1>1, WaterfallAssumption
  <1>3. \E e \in Chain(events, r.opp, "realised_savings") : e.new = opportunities[r.opp].rs
    BY <1>1, <1>2 DEF IInv, SnapshotIsLatestEvent, RowTriggersPass, SnapshotMatches
  <1>4. UNCHANGED tables
    BY DEF Load
  <1>5. \A t \in Sessions : t # s =>
          pc'[t] = pc[t] /\ request'[t] = request[t] /\ loaded'[t] = loaded[t]
    BY DEF Load, IInv, TypeOK
  <1>6. pc'[s] = "loaded" /\ request'[s] = r /\ loaded'[s] = opportunities[r.opp]
    BY DEF Load, IInv, TypeOK
  <1>7. ASSUME NEW t \in Sessions, pc'[t] # "idle" PROVE CopyAgrees(t)'
    <2>1. CASE t = s
      <3>1. opportunities[r.opp].status = "implementation" => Unused(r.opp)
        BY <1>1 DEF SavingsInv
      <3> QED
        BY <1>3, <1>4, <1>6, <2>1, <3>1 DEF CopyAgrees, Unused, Confirmed, tables
    <2>2. CASE t # s
      <3>1. CopyAgrees(t)
        BY <1>5, <1>7, <2>2 DEF SavingsInv
      <3> QED
        BY <1>4, <1>5, <2>2, <3>1 DEF CopyAgrees, Unused, Confirmed, tables
    <2> QED
      BY <2>1, <2>2
  <1> QED
    BY <1>4, <1>7 DEF SavingsInv, Unused, Confirmed, tables

\* FOR UPDATE changes no table, and was asked for a copy in implementation.
LEMMA SavingsLock ==
  ASSUME IInv, SavingsInv, NEW s \in Sessions, RealiseLock(s)
  PROVE  SavingsInv'
PROOF
  <1>1. /\ loaded[s].status = "implementation" /\ pc[s] # "idle"
        /\ pc' = [pc EXCEPT ![s] = "locked"]
        /\ UNCHANGED <<tables, request, loaded>>
    BY DEF RealiseLock, MayRealise
  <1>2. ASSUME NEW t \in Sessions, pc'[t] # "idle" PROVE CopyAgrees(t)'
    BY <1>1, <1>2 DEF IInv, TypeOK, SavingsInv, CopyAgrees, Unused, Confirmed, tables
  <1> QED
    BY <1>1, <1>2 DEF SavingsInv, Unused, Confirmed, tables

\* The commit of a new opportunity confirms nothing, and nobody knows the row yet.
LEMMA SavingsCreate ==
  ASSUME IInv, SavingsInv, NEW s \in Sessions, NEW o \in Opps, opportunities[o] = NULL,
         NEW afi \in Figures, Commit(o, NewRow(afi), GenesisEvents(o, afi, Unknown, "manual_estimate"), 0),
         EndRequest(s)
  PROVE  SavingsInv'
PROOF
  <1> DEFINE added == GenesisEvents(o, afi, Unknown, "manual_estimate")
  <1>1. CASE UNCHANGED tables
    BY <1>1, SavingsRolledBack
  <1>2. CASE ~UNCHANGED tables
    <2>1. /\ opportunities' = [opportunities EXCEPT ![o] = NewRow(afi)]
          /\ events' = events \cup added
          /\ entries' = [entries EXCEPT ![o] = @ + 0]
      BY <1>2 DEF Commit
    <2>2. entries' = entries
      BY <2>1 DEF IInv, TypeOK
    <2>3. \A e \in added : e.parent = o /\ e.new.status = "confirmed" => e.measure # "realised_savings"
      BY DEF GenesisEvents, Event, Unknown, NoFigure
    <2>4. \A e \in added : e.parent = o
      BY DEF GenesisEvents, Event
    <2> HIDE DEF added
    <2>5. \A p \in Opps : Confirmed(events', p) = Confirmed(events, p)
      BY <2>1, <2>3, <2>4 DEF Confirmed, Chain
    <2>6. ASSUME NEW p \in Opps, opportunities'[p] \in Rows,
                 opportunities'[p].status = "implementation"
          PROVE  Unused(p)
      <3>1. p # o
        BY <2>1, <2>6 DEF NewRow, IInv, TypeOK
      <3> QED
        BY <2>1, <2>6, <3>1 DEF SavingsInv, IInv, TypeOK
    <2>7. ASSUME NEW t \in Sessions, pc'[t] # "idle"
          PROVE  CopyAgrees(t)'
      <3>1. pc'[t] = pc[t] /\ request'[t] = request[t] /\ loaded'[t] = loaded[t]
        BY <2>7, EndRequestOthers DEF IInv
      <3>2. request[t].opp \in Opps /\ opportunities[request[t].opp] \in Rows
        BY <2>7, <3>1 DEF IInv, InFlight, AdvanceRequests, RealiseRequests
      <3>3. request[t].opp # o
        BY <3>2, WaterfallAssumption
      <3>4. opportunities'[request[t].opp] = opportunities[request[t].opp]
        BY <2>1, <3>2, <3>3 DEF IInv, TypeOK
      <3>5. Chain(events', request[t].opp, "realised_savings")
              = Chain(events, request[t].opp, "realised_savings")
        BY <2>1, <2>4, <3>3 DEF Chain
      <3>6. CopyAgrees(t)
        BY <2>7, <3>1 DEF SavingsInv
      <3> QED
        BY <2>2, <2>5, <3>1, <3>2, <3>4, <3>5, <3>6 DEF CopyAgrees, Unused
    <2> QED
      BY <2>2, <2>5, <2>6, <2>7 DEF SavingsInv, Unused
  <1> QED
    BY <1>1, <1>2

\* advance_waterfall_stage confirms nothing, and a row only gets into implementation
\* by a move that is counted.
LEMMA SavingsAdvance ==
  ASSUME IInv, SavingsInv, NEW s \in Sessions, AdvanceCommit(s)
  PROVE  SavingsInv'
PROOF
  <1> DEFINE o      == request[s].opp
             target == request[s].target
             row    == FlushRow(opportunities[o], loaded[s], AdvancedRow(loaded[s], target, s))
             moves  == IF target = "implementation" THEN 1 ELSE 0
  <1>1. pc[s] # "idle" /\ Commit(o, row, {}, moves) /\ EndRequest(s)
    BY DEF AdvanceCommit
  <1>2. o \in Opps /\ loaded[s] \in Rows /\ opportunities[o] \in Rows
    BY <1>1 DEF IInv, InFlight, AdvanceRequests, RealiseRequests
  <1>3. row.rs = opportunities[o].rs /\ row.status \in {opportunities[o].status, target}
    BY <1>2, AdvancedFlush
  <1> HIDE DEF o, target, row
  <1>4. CASE UNCHANGED tables
    BY <1>1, <1>4, SavingsRolledBack
  <1>5. CASE ~UNCHANGED tables
    <2>1. /\ opportunities' = [opportunities EXCEPT ![o] = row]
          /\ events' = events
          /\ entries' = [entries EXCEPT ![o] = @ + moves]
      BY <1>1, <1>5 DEF Commit
    <2>2. \A p \in Opps : /\ entries[p] \in Nat /\ entries'[p] \in Nat
                          /\ entries[p] <= entries'[p]
                          /\ p = o /\ target = "implementation" => entries[p] < entries'[p]
      BY <2>1 DEF IInv, TypeOK
    <2>3. \A p \in Opps : /\ IsFiniteSet(Confirmed(events, p))
                          /\ Cardinality(Confirmed(events, p)) \in Nat
                          /\ Cardinality(Confirmed(events, p)) <= entries[p]
      BY FS_CardinalityType DEF SavingsInv
    <2>4. \A p \in Opps : Unused(p) => Unused(p)'
      BY <2>1, <2>2, <2>3 DEF Unused
    <2>5. \A p \in Opps : p = o /\ target = "implementation" => Unused(p)'
      BY <2>1, <2>2, <2>3 DEF Unused
    <2>6. ASSUME NEW p \in Opps
          PROVE  /\ opportunities'[p] \in Rows /\ opportunities'[p].status = "implementation"
                      => Unused(p)'
                 /\ opportunities'[p].rs = opportunities[p].rs
      BY <1>2, <1>3, <2>1, <2>4, <2>5 DEF SavingsInv, IInv, TypeOK
    <2>7. ASSUME NEW t \in Sessions, pc'[t] # "idle"
          PROVE  CopyAgrees(t)'
      <3>1. pc'[t] = pc[t] /\ request'[t] = request[t] /\ loaded'[t] = loaded[t]
        BY <1>1, <2>7, EndRequestOthers DEF IInv
      <3>2. request[t].opp \in Opps
        BY <2>7, <3>1 DEF IInv, InFlight, AdvanceRequests, RealiseRequests
      <3>3. CopyAgrees(t)
        BY <2>7, <3>1 DEF SavingsInv
      <3> QED
        BY <2>1, <2>4, <2>6, <3>1, <3>2, <3>3 DEF CopyAgrees
    <2>8. \A p \in Opps : IsFiniteSet(Confirmed(events', p))
                          /\ Cardinality(Confirmed(events', p)) <= entries'[p]
      BY <2>1, <2>2, <2>3
    <2> QED
      BY <2>1, <2>6, <2>7, <2>8 DEF SavingsInv
  <1> QED
    BY <1>4, <1>5

\* record_realised_savings only commits over the figure that it loaded, uses up the
\* move that it saw, and leaves every other copy with a figure of the past.
LEMMA SavingsRealise ==
  ASSUME IInv, SavingsInv, NEW s \in Sessions, RealiseCommit(s)
  PROVE  SavingsInv'
PROOF
  <1> DEFINE figure == ConfirmedFigure(request[s], version[s], s)
             new    == [loaded[s] EXCEPT !.status = "realised", !.rs = figure,
                                         !.rsEvent = version[s]]
  <1>1. PICK o, row, event :
          /\ o = request[s].opp
          /\ row = FlushRow(opportunities[o], loaded[s], new)
          /\ event = RealisedEvent(o, version[s], loaded[s], figure)
    OBVIOUS
  <1>2. pc[s] = "locked" /\ Commit(o, row, {event}, 0) /\ EndRequest(s)
    BY <1>1 DEF RealiseCommit
  <1>3. /\ request[s] \in RealiseRequests /\ o \in Opps
        /\ loaded[s] \in Rows /\ opportunities[o] \in Rows
    BY <1>1, <1>2 DEF IInv, InFlight, RealiseRequests
  <1>4. CASE UNCHANGED tables
    BY <1>2, <1>4, SavingsRolledBack
  <1>5. CASE ~UNCHANGED tables
    <2> DEFINE evs == events \cup {event}
               rs  == "realised_savings"
               n   == LatestVersion(events, o, rs)
    <2>1. /\ Accepts(evs, o, row, {event})
          /\ opportunities' = [opportunities EXCEPT ![o] = row]
          /\ events' = evs /\ entries' = entries
      BY <1>2, <1>5 DEF Commit, IInv, TypeOK
    <2>2. /\ n \in Nat /\ version[s] = n + 1
          /\ \A e \in Chain(events, o, rs) : e.version \in 1 .. n
      <3>1. version[s] = n + 1
        BY <1>1, <1>2 DEF IInv, LockProtectsVersion
      <3>2. n \in Nat /\ Versions(o, rs) = 1 .. n
        BY <1>3, LatestVersionNat DEF IInv, OppMeasures
      <3> QED
        BY <3>1, <3>2 DEF Versions
    <2>3. PICK last \in Chain(events, o, rs) : last.version = n /\ last.new = opportunities[o].rs
      <3>1. opportunities[o] # NULL
        BY <1>3, WaterfallAssumption
      <3> QED
        BY <1>3, <3>1
           DEF IInv, SnapshotIsLatestEvent, RowTriggersPass, SnapshotMatches
    <2>4. n >= 1
      BY <2>2, <2>3
    <2>5. /\ event.parent = o /\ event.measure = rs /\ event.version = n + 1
          /\ event.old = loaded[s].rs /\ event.new = figure
          /\ figure.status = "confirmed" /\ figure.approvedAt = n + 1
      BY <1>1, <2>2, <2>4 DEF RealisedEvent, Event, ConfirmedFigure
    <2> HIDE DEF figure, n
    <2>6. loaded[s].rs = opportunities[o].rs
      <3>1. ChainIntegrity(evs, event)
        BY <2>1 DEF Accepts, EventTriggersPass
      <3>2. PICK prev \in Chain(evs, o, rs) : prev.version = n /\ prev.new = loaded[s].rs
        <4>1. event.version > 1 /\ event.version - 1 = n
          BY <2>2, <2>4, <2>5
        <4>2. \E prev \in Chain(evs, event.parent, event.measure) :
                prev.version = event.version - 1 /\ event.old = prev.new
          BY <3>1, <4>1 DEF ChainIntegrity
        <4> QED
          BY <2>5, <4>1, <4>2
      <3>3. prev \in Chain(events, o, rs)
        BY <2>2, <2>5, <3>2 DEF Chain
      <3>4. prev = last
        BY <2>3, <3>2, <3>3 DEF IInv, ChainUnbroken, Chain
      <3> QED
        BY <2>3, <3>2, <3>4
    <2>7. Unused(o)
      BY <1>1, <1>2, <2>6 DEF SavingsInv, CopyAgrees
    <2>8. /\ Confirmed(evs, o) = Confirmed(events, o) \cup {event}
          /\ event \notin Confirmed(events, o)
      BY <2>2, <2>5 DEF Confirmed, Chain
    <2>9. \A p \in Opps : p # o => Confirmed(evs, p) = Confirmed(events, p)
      BY <2>5 DEF Confirmed, Chain
    <2>10. ASSUME NEW p \in Opps
           PROVE  /\ IsFiniteSet(Confirmed(evs, p))
                  /\ Cardinality(Confirmed(evs, p)) <= entries[p]
      <3>1. IsFiniteSet(Confirmed(events, p)) /\ Cardinality(Confirmed(events, p)) <= entries[p]
        BY DEF SavingsInv
      <3>2. CASE p # o
        BY <2>9, <3>1, <3>2
      <3>3. CASE p = o
        <4>1. /\ IsFiniteSet(Confirmed(events, o) \cup {event})
              /\ Cardinality(Confirmed(events, o) \cup {event}) = Cardinality(Confirmed(events, o)) + 1
          BY <2>8, <3>1, <3>3, FS_AddElement
        <4>2. Cardinality(Confirmed(events, o)) \in Nat /\ entries[o] \in Nat
          BY <1>3, <3>1, <3>3, FS_CardinalityType DEF IInv, TypeOK
        <4> QED
          BY <2>7, <2>8, <3>3, <4>1, <4>2 DEF Unused
      <3> QED
        BY <3>2, <3>3
    <2>11. \A p \in Opps : \A e \in Confirmed(evs, p) : e.new.approvedAt = e.version
      BY <2>5, <2>8, <2>9 DEF SavingsInv
    <2>12. row.status = "realised" /\ row.rs.status = "confirmed" /\ row.rs.approvedAt = n + 1
      <3>1. loaded[s].status = "implementation"
        BY <1>2 DEF SavingsInv, CopyAgrees
      <3>2. new.status = "realised" /\ new.rs = figure
        BY <1>3 DEF Rows
      <3>3. /\ row.status = Column(opportunities[o].status, loaded[s].status, new.status)
            /\ row.rs = FlushFigure(opportunities[o].rs, loaded[s].rs, new.rs)
        BY <1>1 DEF FlushRow
      <3>4. row.rs.status = figure.status /\ row.rs.approvedAt = figure.approvedAt
        BY <2>6, <3>2, <3>3 DEF FlushFigure, Column
      <3> QED
        BY <2>5, <3>1, <3>2, <3>3, <3>4 DEF Column
    <2>13. ASSUME NEW p \in Opps, opportunities'[p] \in Rows,
                  opportunities'[p].status = "implementation"
           PROVE  Unused(p)'
      <3>1. p # o
        BY <1>3, <2>1, <2>12, <2>13 DEF IInv, TypeOK
      <3>2. opportunities'[p] = opportunities[p]
        BY <2>1, <3>1 DEF IInv, TypeOK
      <3>3. Unused(p)
        BY <2>13, <3>2 DEF SavingsInv
      <3> QED
        BY <2>1, <2>9, <3>1, <3>3 DEF Unused
    <2>14. ASSUME NEW t \in Sessions, pc'[t] # "idle"
           PROVE  CopyAgrees(t)'
      <3>1. pc'[t] = pc[t] /\ request'[t] = request[t] /\ loaded'[t] = loaded[t]
        BY <1>2, <2>14, EndRequestOthers DEF IInv
      <3>2. CopyAgrees(t)
        BY <2>14, <3>1 DEF SavingsInv
      <3>3. PICK p : p = request[t].opp /\ p \in Opps
        BY <2>14, <3>1 DEF IInv, InFlight, AdvanceRequests, RealiseRequests
      <3>4. PICK e \in Chain(events, p, rs) : e.new = loaded[t].rs
        BY <3>2, <3>3 DEF CopyAgrees
      <3>5. e \in Chain(evs, p, rs)
        BY <3>4 DEF Chain
      <3>6. CASE p = o
        <4>1. loaded[t].rs # row.rs
          <5> SUFFICES ASSUME loaded[t].rs = row.rs PROVE FALSE
            OBVIOUS
          <5>1. e \in Confirmed(events, o) /\ e.new.approvedAt = n + 1
            BY <2>12, <3>4, <3>6 DEF Confirmed
          <5>2. e.version = n + 1
            BY <1>3, <5>1 DEF SavingsInv
          <5> QED
            BY <2>2, <3>4, <3>6, <5>2
        <4>2. opportunities'[o] = row
          BY <1>3, <2>1 DEF IInv, TypeOK
        <4> QED
          BY <2>1, <3>1, <3>2, <3>3, <3>4, <3>5, <3>6, <4>1, <4>2 DEF CopyAgrees
      <3>7. CASE p # o
        <4>1. opportunities'[p] = opportunities[p]
          BY <2>1, <3>3, <3>7 DEF IInv, TypeOK
        <4> QED
          BY <2>1, <2>9, <3>1, <3>2, <3>3, <3>4, <3>5, <3>7, <4>1 DEF CopyAgrees, Unused
      <3> QED
        BY <3>6, <3>7
    <2> QED
      BY <2>1, <2>10, <2>11, <2>13, <2>14 DEF SavingsInv
  <1> QED
    BY <1>4, <1>5

\* Initially no saving is confirmed.
LEMMA InitSavings == Init => SavingsInv
PROOF
  <1> SUFFICES ASSUME Init PROVE SavingsInv
    OBVIOUS
  <1>1. \A e \in events : e.new.status # "confirmed"
    BY LegacyRowType DEF Init, GenesisEvents, Event
  <1>2. \A o : Confirmed(events, o) = {}
    BY <1>1 DEF Confirmed, Chain
  <1>3. /\ entries \in [Opps -> Nat]
        /\ \A o \in Opps : opportunities[o] \in Rows /\ opportunities[o].status = "implementation"
                            => entries[o] = 1
    BY WaterfallAssumption DEF Init
  <1>4. IsFiniteSet({}) /\ Cardinality({}) = 0
    BY FS_EmptySet
  <1>5. ASSUME NEW o \in Opps
        PROVE  /\ IsFiniteSet(Confirmed(events, o)) /\ Cardinality(Confirmed(events, o)) <= entries[o]
               /\ opportunities[o] \in Rows /\ opportunities[o].status = "implementation" => Unused(o)
    <2>1. Confirmed(events, o) = {}
      BY <1>2
    <2>2. IsFiniteSet(Confirmed(events, o)) /\ Cardinality(Confirmed(events, o)) = 0
      BY <1>4, <2>1, Zenon
    <2> QED
      BY <1>3, <2>2 DEF Unused
  <1>6. \A s \in Sessions : pc[s] = "idle"
    BY DEF Init
  <1> QED
    BY <1>2, <1>5, <1>6 DEF SavingsInv

\* Every step keeps the savings invariant.
LEMMA StepSavings == IInv /\ SavingsInv /\ [Next]_vars => SavingsInv'
PROOF
  <1> SUFFICES ASSUME IInv, SavingsInv, [Next]_vars PROVE SavingsInv'
    OBVIOUS
  <1>1. ASSUME NEW s \in Sessions, NEW o \in Opps,
               NEW amount \in Amounts \cup {NULL}, NEW from \in Dates \cup {NULL},
               Create(s, o, amount, from)
        PROVE  SavingsInv'
    <2>1. CASE amount # NULL /\ from = NULL
      BY <1>1, <2>1, SavingsRolledBack DEF Create, RaiseConflict
    <2>2. CASE ~(amount # NULL /\ from = NULL)
      <3> DEFINE afi == IF amount = NULL THEN Unknown
                        ELSE [NoFigure EXCEPT !.amount = amount, !.status = "estimated",
                                              !.basis = "manual_estimate", !.from = from]
      <3>1. /\ Commit(o, NewRow(afi), GenesisEvents(o, afi, Unknown, "manual_estimate"), 0)
            /\ EndRequest(s) /\ opportunities[o] = NULL
        BY <1>1, <2>2 DEF Create
      <3>2. afi \in Figures
        BY DEF Figures, Unknown, NoFigure
      <3> HIDE DEF afi
      <3> QED
        BY <3>1, <3>2, SavingsCreate
    <2> QED
      BY <2>1, <2>2
  <1>2. ASSUME NEW s \in Sessions, RequestAdvance(s) \/ RequestRealise(s)
        PROVE  SavingsInv'
    BY <1>2, SavingsLoad DEF RequestAdvance, RequestRealise
  <1>3. ASSUME NEW s \in Sessions, Advance(s)
        PROVE  SavingsInv'
    BY <1>3, SavingsRolledBack, SavingsAdvance DEF Advance, AdvanceConflict, RaiseConflict
  <1>4. ASSUME NEW s \in Sessions, Realise(s)
        PROVE  SavingsInv'
    BY <1>4, SavingsRolledBack, SavingsLock, SavingsRealise
       DEF Realise, RealiseConflict, RaiseConflict
  <1>5. ASSUME NEW s \in Sessions, Crash(s)
        PROVE  SavingsInv'
    BY <1>5, SavingsRolledBack DEF Crash
  <1>6. CASE UNCHANGED vars
    <2>1. \A s \in Sessions : pc'[s] # "idle" => CopyAgrees(s)'
      BY <1>6 DEF vars, SavingsInv, CopyAgrees, Unused, Confirmed
    <2> QED
      BY <1>6, <2>1 DEF vars, SavingsInv, Unused, Confirmed
  <1> QED
    BY <1>1, <1>2, <1>3, <1>4, <1>5, <1>6 DEF Next

\* record_realised_savings: a saving is confirmed at most once for every move of its
\* opportunity into implementation, however many requests to realise it race.
THEOREM SavingsAreCountedOnce == Spec => []NoDoubleRealisation
PROOF
  <1>1. SavingsInv => NoDoubleRealisation
    BY DEF SavingsInv, Confirmed, NoDoubleRealisation
  <1>2. Spec => []SavingsInv
    BY Invariant, InitSavings, StepSavings, PTL DEF Spec
  <1> QED
    BY <1>1, <1>2, PTL


-----------------------------------------------------------------------------
(* Refinement: the register implements the evidence log.  The chain of a    *)
(* measure has one event per version, so that it reads as a sequence; a     *)
(* step that adds an event adds it at the end, and the row shows the last.  *)

Pairs == [figure : Figures, reason : Reasons]

\* The events evs of a chain, one for each version up to n.
Numbered(evs, k, n) ==
  /\ Chain(evs, k[1], k[2]) \subseteq Events
  /\ {e.version : e \in Chain(evs, k[1], k[2])} = 1 .. n
  /\ \A d, e \in Chain(evs, k[1], k[2]) : d.version = e.version => d = e

\* The history of a chain lists its events by their versions.
LEMMA HistoryIs ==
  ASSUME NEW evs, NEW k, NEW n \in Nat, Numbered(evs, k, n),
         \A e \in Chain(evs, k[1], k[2]) : e.new \in Figures /\ e.reason \in Reasons
  PROVE  /\ HistoryOf(evs, k) \in Seq(Pairs)
         /\ Len(HistoryOf(evs, k)) = n
         /\ \A e \in Chain(evs, k[1], k[2]) :
              HistoryOf(evs, k)[e.version] = [figure |-> e.new, reason |-> e.reason]
PROOF
  <1> DEFINE C     == Chain(evs, k[1], k[2])
             At(v) == CHOOSE e \in C : e.version = v
             H     == HistoryOf(evs, k)
  <1>1. {e.version : e \in C} = 1 .. n /\ \A d, e \in C : d.version = e.version => d = e
    BY DEF Numbered
  <1>2. LatestVersion(evs, k[1], k[2]) = n
    BY <1>1, LatestVersionIs
  <1>3. H = [v \in 1 .. n |-> [figure |-> At(v).new, reason |-> At(v).reason]]
    BY <1>2 DEF HistoryOf
  <1>4. \A v \in 1 .. n : At(v) \in C /\ At(v).version = v
    BY <1>1
  <1>5. \A e \in C : e.version \in 1 .. n /\ At(e.version) = e
    BY <1>1, <1>4
  <1> HIDE DEF C, At, H
  <1>6. \A v \in 1 .. n : At(v).new \in Figures /\ At(v).reason \in Reasons
    BY <1>4 DEF C
  <1>7. H \in [1 .. n -> Pairs]
    BY <1>3, <1>6 DEF Pairs
  <1>8. H \in Seq(Pairs)
    BY <1>7, SeqDef
  <1>9. Len(H) = n
    BY <1>7, <1>8, LenProperties
  <1>10. \A e \in C : H[e.version] = [figure |-> e.new, reason |-> e.reason]
    BY <1>3, <1>5
  <1> QED
    BY <1>8, <1>9, <1>10 DEF C, H

\* One more event is one more entry at the end of the history.
LEMMA HistoryGrows ==
  ASSUME NEW evs, NEW evs2, NEW k, NEW n \in Nat, NEW e,
         Numbered(evs, k, n), Numbered(evs2, k, n + 1),
         Chain(evs2, k[1], k[2]) = Chain(evs, k[1], k[2]) \cup {e}, e.version = n + 1,
         \A d \in Chain(evs2, k[1], k[2]) : d.new \in Figures /\ d.reason \in Reasons
  PROVE  HistoryOf(evs2, k) = Append(HistoryOf(evs, k), [figure |-> e.new, reason |-> e.reason])
PROOF
  <1> DEFINE C  == Chain(evs, k[1], k[2])
             C2 == Chain(evs2, k[1], k[2])
             x  == [figure |-> e.new, reason |-> e.reason]
  <1>0. n + 1 \in Nat /\ C \subseteq C2 /\ e \in C2
    OBVIOUS
  <1>1. PICK H : /\ H = HistoryOf(evs, k) /\ H \in Seq(Pairs) /\ Len(H) = n
                 /\ \A d \in C : H[d.version] = [figure |-> d.new, reason |-> d.reason]
    BY <1>0, HistoryIs
  <1>2. PICK H2 : /\ H2 = HistoryOf(evs2, k) /\ H2 \in Seq(Pairs) /\ Len(H2) = n + 1
                  /\ \A d \in C2 : H2[d.version] = [figure |-> d.new, reason |-> d.reason]
    BY <1>0, HistoryIs
  <1>3. x \in Pairs
    BY <1>0 DEF Pairs
  <1>4. \A v \in 1 .. n : H2[v] = H[v]
    <2> TAKE v \in 1 .. n
    <2>1. PICK d \in C : d.version = v
      BY DEF Numbered
    <2>2. d \in C2
      BY <1>0, <2>1
    <2> HIDE DEF C, C2
    <2>3. H[v] = [figure |-> d.new, reason |-> d.reason]
      BY <1>1, <2>1
    <2>4. H2[v] = [figure |-> d.new, reason |-> d.reason]
      BY <1>2, <2>1, <2>2
    <2> QED
      BY <2>3, <2>4
  <1>5. H2[n + 1] = x
    BY <1>0, <1>2
  <1> HIDE DEF x
  <1>6. PICK A : /\ A = Append(H, x) /\ A \in Seq(Pairs) /\ Len(A) = n + 1
                 /\ \A v \in 1 .. n : A[v] = H[v]
                 /\ A[n + 1] = x
    <2>1. H \in Seq(Pairs) /\ Len(H) = n
      BY <1>1
    <2>2. /\ Append(H, x) \in Seq(Pairs) /\ Len(Append(H, x)) = n + 1
          /\ \A v \in 1 .. n : Append(H, x)[v] = H[v]
          /\ Append(H, x)[n + 1] = x
      BY <1>3, <2>1, AppendProperties
    <2> QED
      BY <2>2
  <1>7. H2 \in [1 .. n + 1 -> Pairs] /\ A \in [1 .. n + 1 -> Pairs]
    BY <1>2, <1>6, LenProperties
  <1>8. \A v \in 1 .. n + 1 : H2[v] = A[v]
    BY <1>4, <1>5, <1>6
  <1> QED
    BY <1>1, <1>2, <1>6, <1>7, <1>8 DEF x

\* What IInv says of the events and the row of a measure.
Trail(k) ==
  \E n \in Nat :
    /\ Numbered(events, k, n)
    /\ LatestVersion(events, k[1], k[2]) = n
    /\ IF n = 0 THEN opportunities[k[1]] = NULL
                ELSE /\ opportunities[k[1]] # NULL
                     /\ \E e \in Chain(events, k[1], k[2]) :
                          e.version = n /\ e.new = CurrentOf(opportunities[k[1]], k[2])

\* IInv describes every trail.
LEMMA TrailsAre == IInv => \A k \in OppKeys : Trail(k)
PROOF
  <1> SUFFICES ASSUME IInv, NEW o \in Opps, NEW m \in OppMeasures
               PROVE  Trail(<<o, m>>)
    BY DEF OppKeys
  <1>1. PICK n : n = LatestVersion(events, o, m) /\ n \in Nat /\ Versions(o, m) = 1 .. n
    BY LatestVersionNat DEF IInv
  <1>2. Numbered(events, <<o, m>>, n)
    BY <1>1 DEF IInv, TypeOK, ChainUnbroken, Chain, Numbered, Versions
  <1>3. CASE opportunities[o] = NULL
    <2>1. Versions(o, m) = {}
      BY <1>3 DEF IInv, SnapshotIsLatestEvent, Versions, Chain
    <2>2. n = 0
      BY <1>1, <2>1
    <2> QED
      BY <1>1, <1>2, <1>3, <2>2 DEF Trail
  <1>4. CASE opportunities[o] # NULL
    <2>1. PICK e \in Chain(events, o, m) :
            e.version = n /\ e.new = CurrentOf(opportunities[o], m)
      BY <1>1, <1>4 DEF IInv, SnapshotIsLatestEvent, RowTriggersPass, SnapshotMatches,
                        CurrentOf, OppMeasures
    <2>2. n \in 1 .. n
      BY <1>1, <2>1 DEF Versions
    <2> QED
      BY <1>1, <1>2, <1>4, <2>1, <2>2 DEF Trail
  <1> QED
    BY <1>3, <1>4


\* The events that a step adds: at most one to each chain.
Adds ==
  /\ events \subseteq events'
  /\ \A d, e \in events' \ events : d.parent = e.parent /\ d.measure = e.measure => d = e

\* A step that adds no event to a trail leaves its figure, and one that adds an
\* event adds an entry to its history, with the figure that the row gets.
LEMMA Recorded ==
  ASSUME IInv, IInv', Adds, NEW k \in OppKeys, Trail(k), Trail(k)'
  PROVE  Log!Extended(k) \/ Log!Kept(k)
PROOF
  <1>1. PICK C, C2 : C = Chain(events, k[1], k[2]) /\ C2 = Chain(events', k[1], k[2])
    OBVIOUS
  <1>2. PICK n \in Nat : 
          /\ Numbered(events, k, n) /\ LatestVersion(events, k[1], k[2]) = n
          /\ IF n = 0 THEN opportunities[k[1]] = NULL
                      ELSE /\ opportunities[k[1]] # NULL
                           /\ \E e \in C : e.version = n
                                 /\ e.new = CurrentOf(opportunities[k[1]], k[2])
    BY <1>1 DEF Trail
  <1>3. PICK n2 \in Nat :
          /\ Numbered(events', k, n2) /\ LatestVersion(events', k[1], k[2]) = n2
          /\ IF n2 = 0 THEN opportunities'[k[1]] = NULL
                       ELSE /\ opportunities'[k[1]] # NULL
                            /\ \E e \in C2 : e.version = n2
                                  /\ e.new = CurrentOf(opportunities'[k[1]], k[2])
    BY <1>1 DEF Trail
  <1>4. /\ C \subseteq C2 /\ C2 \subseteq Events /\ C2 \subseteq events'
        /\ \A d, e \in C2 \ C : d = e
        /\ \A e \in C2 : e.parent = k[1] /\ e.measure = k[2]
    BY <1>1, <1>3 DEF Adds, Chain, Numbered
  <1>5. /\ {e.version : e \in C} = 1 .. n /\ {e.version : e \in C2} = 1 .. n2
        /\ \A d, e \in C2 : d.version = e.version => d = e
    BY <1>1, <1>2, <1>3 DEF Numbered
  <1>6. \A d \in C2 : d.new \in Figures /\ d.reason \in Reasons
    BY <1>4 DEF Events
  <1>7. CASE C2 = C
    <2>1. n2 = n
      BY <1>1, <1>2, <1>3, <1>7 DEF LatestVersion
    <2>2. HistoryOf(events', k) = HistoryOf(events, k)
      BY <1>1, <1>7 DEF HistoryOf, LatestVersion
    <2>3. CurrentOf(opportunities'[k[1]], k[2]) = CurrentOf(opportunities[k[1]], k[2])
      BY <1>2, <1>3, <1>5, <1>7, <2>1 DEF CurrentOf
    <2> QED
      BY <2>2, <2>3 DEF Log!Kept
  <1>8. CASE C2 # C
    <2>1. PICK e \in C2 : e \notin C
      BY <1>4, <1>8
    <2>2. C2 = C \cup {e}
      BY <1>4, <2>1
    <2>3. e.version = n + 1 /\ n2 = n + 1
      <3>1. e.version \in Nat /\ e.version \in 1 .. n2
        BY <1>4, <1>5, <2>1 DEF Events
      <3>2. e.version \notin 1 .. n
        BY <1>4, <1>5, <2>1
      <3>3. 1 .. n2 = (1 .. n) \cup {e.version}
        BY <1>5, <2>2
      <3>4. n < n2
        BY <3>1, <3>2
      <3>5. n + 1 \in 1 .. n2 /\ n2 \in 1 .. n2
        BY <3>4
      <3>6. n + 1 = e.version /\ n2 = e.version
        BY <3>3, <3>4, <3>5
      <3> QED
        BY <3>6
    <2>4. HistoryOf(events', k) =
            Append(HistoryOf(events, k), [figure |-> e.new, reason |-> e.reason])
      <3>1. PICK evs, evs2 : evs = events /\ evs2 = events'
        OBVIOUS
      <3>2. /\ Numbered(evs, k, n) /\ Numbered(evs2, k, n + 1)
            /\ Chain(evs2, k[1], k[2]) = Chain(evs, k[1], k[2]) \cup {e}
            /\ \A d \in Chain(evs2, k[1], k[2]) : d.new \in Figures /\ d.reason \in Reasons
        BY <1>1, <1>2, <1>3, <1>6, <2>2, <2>3, <3>1
      <3>3. HistoryOf(evs2, k) =
              Append(HistoryOf(evs, k), [figure |-> e.new, reason |-> e.reason])
        BY <2>3, <3>2, HistoryGrows
      <3> QED
        BY <3>1, <3>3
    <2>5. e.new = CurrentOf(opportunities'[k[1]], k[2])
      BY <1>3, <1>5, <2>1, <2>3
    <2>6. CurrentOf(opportunities[k[1]], k[2]) # NULL =>
            LegalChange(CurrentOf(opportunities[k[1]], k[2]).status, e.new.status, e.reason)
      <3> SUFFICES ASSUME CurrentOf(opportunities[k[1]], k[2]) # NULL
                   PROVE  LegalChange(CurrentOf(opportunities[k[1]], k[2]).status,
                                      e.new.status, e.reason)
        OBVIOUS
      <3>1. n # 0
        BY <1>2 DEF CurrentOf
      <3>2. PICK last \in C : last.version = n
                                /\ last.new = CurrentOf(opportunities[k[1]], k[2])
        BY <1>2, <3>1
      <3>3. ChainIntegrity(events', e)
        BY <1>4, <2>1 DEF IInv, ChainUnbroken
      <3>4. PICK prev \in C2 :
              prev.version = n /\ LegalChange(prev.new.status, e.new.status, e.reason)
        <4>1. e.version > 1 /\ e.version - 1 = n
          BY <2>3, <3>1
        <4> QED
          BY <1>1, <1>4, <2>1, <3>3, <4>1 DEF ChainIntegrity
      <3>5. prev = last
        BY <1>4, <1>5, <3>2, <3>4
      <3> QED
        BY <3>2, <3>4, <3>5
    <2>7. e.reason \in Reasons
      BY <1>6
    <2> QED
      BY <2>4, <2>5, <2>6, <2>7
         DEF Log!Extended, Log!Entry, Log!LegalChange, LegalChange, Log!Tier, Tier,
             Log!Corrective, Corrective, Log!Reasons, Reasons
  <1> QED
    BY <1>7, <1>8

\* The transactions add at most one event to each chain.
LEMMA StepAdds == IInv /\ [Next]_vars => Adds
PROOF
  <1> SUFFICES ASSUME IInv, [Next]_vars PROVE Adds
    OBVIOUS
  <1>1. ASSUME UNCHANGED events PROVE Adds
    BY <1>1 DEF Adds
  <1>2. ASSUME NEW o, NEW row, NEW added, NEW moves, Commit(o, row, added, moves),
               \A d, e \in added : d.measure = e.measure => d = e
        PROVE  Adds
    <2>1. events' = events \/ events' = events \cup added
      BY <1>2 DEF Commit, tables
    <2> QED
      BY <1>2, <2>1 DEF Adds
  <1>3. ASSUME NEW s \in Sessions, NEW o \in Opps, NEW amount, NEW from,
               Create(s, o, amount, from)
        PROVE  Adds
    <2>1. \A afi, reason : \A d, e \in GenesisEvents(o, afi, Unknown, reason) :
            d.measure = e.measure => d = e
      BY DEF GenesisEvents, Event
    <2> QED
      BY <1>1, <1>2, <1>3, <2>1 DEF Create, RaiseConflict, tables
  <1>4. ASSUME NEW s \in Sessions, RequestAdvance(s) \/ RequestRealise(s)
        PROVE  Adds
    BY <1>1, <1>4 DEF RequestAdvance, RequestRealise, Load, tables
  <1>5. ASSUME NEW s \in Sessions, Advance(s) PROVE Adds
    BY <1>1, <1>2, <1>5 DEF Advance, AdvanceConflict, AdvanceCommit, RaiseConflict, tables
  <1>6. ASSUME NEW s \in Sessions, Realise(s) PROVE Adds
    BY <1>1, <1>2, <1>6
       DEF Realise, RealiseConflict, RealiseLock, RealiseCommit, RaiseConflict, tables
  <1>7. ASSUME NEW s \in Sessions, Crash(s) PROVE Adds
    BY <1>1, <1>7 DEF Crash, tables
  <1>8. CASE UNCHANGED vars
    BY <1>1, <1>8 DEF vars
  <1> QED
    BY <1>3, <1>4, <1>5, <1>6, <1>7, <1>8 DEF Next

\* Initially every trail is empty or has its genesis event only.
LEMMA InitRecorded == Init => Log!Init
PROOF
  <1> SUFFICES ASSUME Init PROVE Log!Init
    OBVIOUS
  <1>1. \A e \in events : e.version = 1
    BY DEF Init, GenesisEvents, Event
  <1>2. IInv
    BY InitInvariant
  <1>3. ASSUME NEW k \in OppKeys
        PROVE  /\ Len(HistoryOf(events, k)) <= 1
               /\ CurrentOf(opportunities[k[1]], k[2]) =
                    IF HistoryOf(events, k) = <<>> THEN NULL ELSE HistoryOf(events, k)[1].figure
    <2>1. PICK C : C = Chain(events, k[1], k[2])
      OBVIOUS
    <2>2. PICK n \in Nat : 
            /\ Numbered(events, k, n)
            /\ IF n = 0 THEN opportunities[k[1]] = NULL
                        ELSE \E e \in C : e.version = n
                                   /\ e.new = CurrentOf(opportunities[k[1]], k[2])
      BY <1>2, <2>1, TrailsAre DEF Trail
    <2>3. \A e \in C : e.new \in Figures /\ e.reason \in Reasons /\ e.version = 1
      BY <1>1, <2>1, <2>2 DEF Numbered, Events, Chain
    <2>4. PICK H : /\ H = HistoryOf(events, k) /\ H \in Seq(Pairs) /\ Len(H) = n
                   /\ \A e \in C : H[e.version] = [figure |-> e.new, reason |-> e.reason]
      BY <2>1, <2>2, <2>3, HistoryIs
    <2>5. CASE n = 0
      <3>1. H = <<>>
        BY <2>4, <2>5
      <3> QED
        BY <2>2, <2>4, <2>5, <3>1 DEF CurrentOf
    <2>6. CASE n # 0
      <3>1. PICK e \in C : e.version = n /\ e.new = CurrentOf(opportunities[k[1]], k[2])
        BY <2>2, <2>6
      <3>2. n = 1
        BY <2>3, <3>1
      <3>3. H[1] = [figure |-> e.new, reason |-> e.reason]
        BY <2>3, <2>4, <3>1
      <3>4. H # <<>>
        BY <2>4, <3>2
      <3> QED
        BY <2>4, <3>1, <3>2, <3>3, <3>4
    <2> QED
      BY <2>5, <2>6
  <1> QED
    BY <1>3 DEF Log!Init

\* Every step of the register is a transaction of the log, or leaves it alone.
LEMMA StepRecorded == IInv /\ IInv' /\ [Next]_vars => Log!Record
PROOF
  <1> SUFFICES ASSUME IInv, IInv', [Next]_vars PROVE Log!Record
    OBVIOUS
  <1>1. Adds
    BY StepAdds
  <1>2. \A k \in OppKeys : Trail(k)
    BY TrailsAre
  <1>3. (\A k \in OppKeys : Trail(k))'
    BY TrailsAre, PTL
  <1>4. \A k \in OppKeys : Log!Extended(k) \/ Log!Kept(k)
    BY <1>1, <1>2, <1>3, Recorded
  <1> QED
    BY <1>4 DEF Log!Record

\* P-03: whatever the requests of the register do, the figures that readers see
\* change only by an entry at the end of a history that is never rewritten, and lose
\* evidence quality only for a corrective reason.
THEOREM EvidenceLogIsImplemented == Spec => ImplementsEvidenceLog
PROOF
  <1>1. IInv /\ IInv' /\ [Next]_vars => [Log!Record]_Log!logVars
    BY StepRecorded
  <1> QED
    BY <1>1, Invariant, InitRecorded, PTL DEF Spec, ImplementsEvidenceLog, Log!Spec

===============================================================================
