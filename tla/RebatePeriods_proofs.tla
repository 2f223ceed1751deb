------------------------- MODULE RebatePeriods_proofs -------------------------
(***************************************************************************)
(* Proofs about RebatePeriods, for any periods, terms, documents and        *)
(* sessions.                                                                *)
(*                                                                         *)
(* An ingest calculates on copies and reads nothing again, so that alone it *)
(* could write the amount for one spend beside another spend.  It is the    *)
(* chain of events that stops it: its event repeats the copy that it        *)
(* started from, and the trigger accepts that only after the event that the *)
(* row still shows.  An event tells which calculation it stands for, hence  *)
(* an accepted ingest has written on the row that it had read.             *)
(***************************************************************************)
EXTENDS RebatePeriods, FiniteSetTheorems, SequenceTheorems, WellFoundedInduction, TLAPS

ChainOf(p) == Chain(events, p, "expected_amount")

IsFigure(f) ==
  f = [amount |-> f.amount, status |-> f.status, basis |-> f.basis,
       calculatedAt |-> f.calculatedAt, approvedAt |-> f.approvedAt,
       approvedBy |-> f.approvedBy, from |-> f.from, until |-> f.until]

\* A row shows the amount for its spend, and which event calculated it.
IsRow(p, r) ==
  /\ r = [spend |-> r.spend, source |-> r.source, expected |-> r.expected, event |-> r.event,
          earned |-> r.earned, received |-> r.received, status |-> r.status]
  /\ IsFigure(r.expected)
  /\ r.event \in Nat \ {0} /\ r.source \in Sources
  /\ \/ /\ r.expected.status = "calculated" /\ r.expected.calculatedAt = r.event
        /\ r.expected.amount = Calc!ExpectedRebate(r.spend, Terms[p])
     \/ r.expected.status = "legacy_unverified" /\ r.event = 1

\* The row of a period shows the latest of its events, whose versions have no gap.
Shown(p) ==
  /\ IsRow(p, periods[p])
  /\ {e.version : e \in ChainOf(p)} = 1 .. periods[p].event
  /\ \A d, e \in ChainOf(p) : d.version = e.version => d = e
  /\ \E e \in ChainOf(p) : e.version = periods[p].event /\ e.new = periods[p].expected

\* There is a row if and only if there are events.
Trails ==
  \A p \in Periods : /\ ChainOf(p) # {} => Shown(p)
                     /\ periods[p] # NULL => ChainOf(p) # {}

\* A copy is the row, or a version of it that was replaced.
CopyHolds(p, c) ==
  /\ ChainOf(p) # {} /\ IsRow(p, c)
  /\ c.event <= periods[p].event
  /\ c.event = periods[p].event =>
       c.spend = periods[p].spend /\ c.source = periods[p].source /\ c.expected = periods[p].expected

\* What an ingest makes of its copy; the amount is calculated last.
Aggregated(p, c, n) ==
  /\ n = [spend |-> n.spend, source |-> n.source, expected |-> n.expected, event |-> n.event,
          earned |-> c.earned, received |-> c.received, status |-> c.status]
  /\ n.source \in Sources /\ Rank(n.source) >= Rank(c.source)
Calculates(p, n) ==
  /\ n.event \in Nat \ {0, 1}
  /\ n.expected = Calculated(p, n.spend, n.event)

InFlight(s) ==
  /\ DOMAIN loaded[s] \subseteq Periods /\ DOMAIN dirty[s] \subseteq DOMAIN loaded[s]
  /\ \A p \in DOMAIN loaded[s] : CopyHolds(p, loaded[s][p])
  /\ \A p \in DOMAIN dirty[s] :
       /\ Aggregated(p, loaded[s][p], dirty[s][p])
       /\ Calculates(p, dirty[s][p]) \/ (pc[s] = "write" /\ p = Head(todo[s]))
  /\ todo[s] \in Seq(DOMAIN loaded[s])
  /\ pc[s] = "idle" => todo[s] = <<>> /\ DOMAIN dirty[s] = {}
  /\ pc[s] \in {"no_invoices", "write"} => todo[s] # <<>>
  /\ pc[s] = "write" => Head(todo[s]) \in DOMAIN dirty[s]
  /\ pc[s] = "no_invoices" => loaded[s][Head(todo[s])].source # "invoice_aggregation"
  /\ pc[s] \in {"close", "receipt"} =>
       request[s].period \in Periods /\ DOMAIN loaded[s] = {request[s].period}
  /\ pc[s] = "receipt" => request[s].amount \in Receipts

Shapes ==
  /\ periods = [p \in Periods |-> periods[p]]
  /\ pc = [s \in Sessions |-> pc[s]]
  /\ request = [s \in Sessions |-> request[s]]
  /\ todo = [s \in Sessions |-> todo[s]]
  /\ loaded = [s \in Sessions |-> loaded[s]]
  /\ dirty = [s \in Sessions |-> dirty[s]]

IInv ==
  /\ Shapes
  /\ Trails
  /\ \A s \in Sessions : InFlight(s)

-----------------------------------------------------------------------------
(* Operators                                                                *)

\* The latest version of a chain without gaps is its length.
LEMMA LatestVersionIs ==
  ASSUME NEW evs, NEW p, NEW m, NEW n \in Nat, {e.version : e \in Chain(evs, p, m)} = 1 .. n
  PROVE  LatestVersion(evs, p, m) = n
PROOF
  <1> DEFINE S == {0} \cup {e.version : e \in Chain(evs, p, m)}
             IsLatest(v) == \A e \in Chain(evs, p, m) : e.version <= v
  <1>1. S = 0 .. n
    OBVIOUS
  <1>2. \A e \in Chain(evs, p, m) : e.version \in 1 .. n
    OBVIOUS
  <1>3. n \in S /\ IsLatest(n)
    BY <1>1, <1>2
  <1>4. ASSUME NEW v \in S, IsLatest(v) PROVE v = n
    <2>1. v \in 0 .. n /\ (n = 0 => v = n)
      BY <1>1
    <2>2. ASSUME n > 0 PROVE n <= v
      <3>1. PICK e \in Chain(evs, p, m) : e.version = n
        BY <2>2, n \in 1 .. n
      <3> QED
        BY <3>1, <1>4
    <2> QED
      BY <2>1, <2>2
  <1>5. LatestVersion(evs, p, m) = CHOOSE v \in S : IsLatest(v)
    BY DEF LatestVersion
  <1> HIDE DEF S, IsLatest
  <1> QED
    BY <1>3, <1>4, <1>5

Unapproved(amount, status, basis, calculatedAt) ==
  [amount |-> amount, status |-> status, basis |-> basis, calculatedAt |-> calculatedAt,
   approvedAt |-> NULL, approvedBy |-> NULL, from |-> NULL, until |-> NULL]

\* A calculated amount is a figure, and tells which event calculated it.
LEMMA CalculatedIs ==
  ASSUME NEW p, NEW spend, NEW v
  PROVE  /\ Calculated(p, spend, v) = Unapproved(Calc!ExpectedRebate(spend, Terms[p]),
                                                  "calculated", "contract_terms_calculation", v)
         /\ IsFigure(Calculated(p, spend, v))
         /\ Calculated(p, spend, v).status = "calculated"
         /\ Calculated(p, spend, v).calculatedAt = v
         /\ Calculated(p, spend, v).amount = Calc!ExpectedRebate(spend, Terms[p])
PROOF
  <1> DEFINE x == Calc!ExpectedRebate(spend, Terms[p])
             f0 == NoFigure
             f1 == [f0 EXCEPT !.amount = x]
             f2 == [f1 EXCEPT !.status = "calculated"]
             f3 == [f2 EXCEPT !.basis = "contract_terms_calculation"]
             f4 == [f3 EXCEPT !.calculatedAt = v]
  <1>1. Calculated(p, spend, v) = f4
    BY DEF Calculated
  <1> HIDE DEF x
  <1>2. f0 = Unapproved(NULL, NULL, NULL, NULL)
    BY DEF NoFigure, Unapproved
  <1> HIDE DEF f0
  <1>3. f1 = Unapproved(x, NULL, NULL, NULL)
    BY <1>2 DEF Unapproved
  <1> HIDE DEF f1
  <1>4. f2 = Unapproved(x, "calculated", NULL, NULL)
    BY <1>3 DEF Unapproved
  <1> HIDE DEF f2
  <1>5. f3 = Unapproved(x, "calculated", "contract_terms_calculation", NULL)
    BY <1>4 DEF Unapproved
  <1> HIDE DEF f3
  <1>6. f4 = Unapproved(x, "calculated", "contract_terms_calculation", v)
    BY <1>5 DEF Unapproved
  <1> HIDE DEF f4
  <1>7. IsFigure(f4)
    BY <1>6 DEF IsFigure, Unapproved
  <1> QED
    BY <1>1, <1>7, <1>6 DEF x, Unapproved

\* The amount that migration 0021 found is a figure without a calculation.
LEMMA LegacyIs ==
  ASSUME NEW p, NEW spend
  PROVE  /\ Legacy(p, spend) = Unapproved(Calc!ExpectedRebate(spend, Terms[p]),
                                            "legacy_unverified", NULL, NULL)
         /\ IsFigure(Legacy(p, spend)) /\ Legacy(p, spend).status = "legacy_unverified"
PROOF
  <1> DEFINE x == Calc!ExpectedRebate(spend, Terms[p])
             f0 == NoFigure
             f1 == [f0 EXCEPT !.amount = x]
             f2 == [f1 EXCEPT !.status = "legacy_unverified"]
  <1>1. Legacy(p, spend) = f2
    BY DEF Legacy
  <1> HIDE DEF x
  <1>2. f0 = Unapproved(NULL, NULL, NULL, NULL)
    BY DEF NoFigure, Unapproved
  <1> HIDE DEF f0
  <1>3. f1 = Unapproved(x, NULL, NULL, NULL)
    BY <1>2 DEF Unapproved
  <1> HIDE DEF f1
  <1>4. f2 = Unapproved(x, "legacy_unverified", NULL, NULL)
    BY <1>3 DEF Unapproved
  <1> HIDE DEF f2
  <1>5. IsFigure(f2)
    BY <1>4 DEF IsFigure, Unapproved
  <1> QED
    BY <1>1, <1>5, <1>4 DEF x, Unapproved

\* A figure that the session did not change stays what it is in the row, and one of which
\* the copy is the row's becomes the session's.
LEMMA FlushFigureIs ==
  ASSUME NEW r, NEW c, NEW n
  PROVE  /\ IsFigure(r) => FlushFigure(r, c, c) = r
         /\ IsFigure(n) => FlushFigure(r, r, n) = n
PROOF
  <1>1. ASSUME IsFigure(r) PROVE FlushFigure(r, c, c) = r
    BY <1>1 DEF IsFigure, FlushFigure, Column
  <1>2. ASSUME IsFigure(n) PROVE FlushFigure(r, r, n) = n
    <2>1. FlushFigure(r, r, n) =
            [amount |-> n.amount, status |-> n.status, basis |-> n.basis,
             calculatedAt |-> n.calculatedAt, approvedAt |-> n.approvedAt,
             approvedBy |-> n.approvedBy, from |-> n.from, until |-> n.until]
      BY DEF FlushFigure, Column
    <2> QED
      BY <2>1, <1>2 DEF IsFigure
  <1> QED
    BY <1>1, <1>2

\* The order of trust.
LEMMA RankIs ==
  ASSUME NEW source \in Sources
  PROVE  /\ Rank(source) \in 0 .. 2
         /\ source # "invoice_aggregation" => Rank(source) <= 1
         /\ Rank("invoice_aggregation") = 2 /\ Rank("transaction_aggregation") = 1
PROOF
  BY DEF Sources, Rank

-----------------------------------------------------------------------------
(* What a transaction does to the row and the events of a period            *)

Untouched(p) == periods'[p] = periods[p] /\ ChainOf(p)' = ChainOf(p)

\* Only what was earned and received, and the status.
Settled(p) ==
  /\ ChainOf(p)' = ChainOf(p) /\ ChainOf(p) # {}
  /\ IsRow(p, periods[p])'
  /\ periods'[p].spend = periods[p].spend /\ periods'[p].source = periods[p].source
  /\ periods'[p].expected = periods[p].expected /\ periods'[p].event = periods[p].event

Latest(p) == IF ChainOf(p) = {} THEN 0 ELSE periods[p].event

\* The next event of its chain, which the row shows.
Followed(p) ==
  /\ IsRow(p, periods[p])'
  /\ periods'[p].event = Latest(p) + 1
  /\ \E e : /\ ChainOf(p)' = ChainOf(p) \cup {e}
            /\ e.version = periods'[p].event /\ e.new = periods'[p].expected

\* The event of a row only goes up.
RowGrows(p) ==
  ChainOf(p) # {} =>
    /\ ChainOf(p)' # {}
    /\ periods[p].event <= periods'[p].event
    /\ periods'[p].event = periods[p].event =>
         /\ periods'[p].spend = periods[p].spend /\ periods'[p].source = periods[p].source
         /\ periods'[p].expected = periods[p].expected

\* A row that is left alone, settled or aggregated still shows the latest of its events,
\* and has only gained.
LEMMA TrailGoesOn ==
  ASSUME Trails, NEW p \in Periods, Untouched(p) \/ Settled(p) \/ Followed(p)
  PROVE  /\ ChainOf(p)' # {} => Shown(p)'
         /\ periods'[p] # NULL => ChainOf(p)' # {}
         /\ RowGrows(p)
PROOF
  <1>1. ChainOf(p) # {} => Shown(p)
    BY DEF Trails
  <1>2. ChainOf(p) # {} => periods[p].event \in Nat \ {0}
    BY <1>1 DEF Shown, IsRow
  <1>3. CASE Untouched(p)
    <2>1. ChainOf(p)' # {} => Shown(p)'
      BY <1>1, <1>3 DEF Untouched, Shown, IsRow
    <2> QED
      BY <2>1, <1>2, <1>3 DEF Untouched, Trails, RowGrows
  <1>4. CASE Settled(p)
    <2>1. Shown(p)'
      BY <1>1, <1>4 DEF Settled, Shown
    <2> QED
      BY <2>1, <1>2, <1>4 DEF Settled, RowGrows
  <1>5. CASE Followed(p)
    <2>1. PICK e : /\ ChainOf(p)' = ChainOf(p) \cup {e}
                   /\ e.version = periods'[p].event /\ e.new = periods'[p].expected
      BY <1>5 DEF Followed
    <2> DEFINE n == Latest(p)
    <2>2. n \in Nat /\ {d.version : d \in ChainOf(p)} = 1 .. n
      BY <1>1, <1>2 DEF Shown, Latest
    <2>3. periods'[p].event = n + 1 /\ IsRow(p, periods[p])'
      BY <1>5 DEF Followed
    <2> HIDE DEF n
    <2>4. {d.version : d \in ChainOf(p)'} = 1 .. periods'[p].event
      <3>1. {d.version : d \in ChainOf(p)'} = (1 .. n) \cup {n + 1}
        BY <2>1, <2>2, <2>3
      <3>2. (1 .. n) \cup {n + 1} = 1 .. (n + 1)
        BY <2>2
      <3> QED
        BY <3>1, <3>2, <2>3, Zenon
    <2>5. \A d \in ChainOf(p) : d.version \in 1 .. n
      BY <2>2
    <2>6. \A c, d \in ChainOf(p)' : c.version = d.version => c = d
      <3>1. \A c, d \in ChainOf(p) : c.version = d.version => c = d
        BY <1>1 DEF Shown
      <3>2. \A d \in ChainOf(p) : d.version # e.version
        BY <2>1, <2>2, <2>3, <2>5
      <3> QED
        BY <3>1, <3>2, <2>1
    <2>7. Shown(p)'
      BY <2>1, <2>3, <2>4, <2>6 DEF Shown
    <2>8. RowGrows(p)
      <3> SUFFICES ASSUME ChainOf(p) # {} PROVE RowGrows(p)
        BY DEF RowGrows
      <3>1. n = periods[p].event
        BY DEF n, Latest
      <3> QED
        BY <3>1, <2>1, <2>2, <2>3 DEF RowGrows
    <2> QED
      BY <2>1, <2>7, <2>8
  <1> QED
    BY <1>3, <1>4, <1>5

\* A copy stays a copy of the row or of a version of it that was replaced.
LEMMA CopyStays ==
  ASSUME NEW p \in Periods, NEW c, CopyHolds(p, c), RowGrows(p), Trails, Trails'
  PROVE  CopyHolds(p, c)'
PROOF
  <1>1. Shown(p) /\ Shown(p)' /\ ChainOf(p)' # {}
    BY DEF CopyHolds, RowGrows, Trails
  <1>2. periods[p].event \in Nat /\ periods'[p].event \in Nat /\ c.event \in Nat
    BY <1>1 DEF Shown, IsRow, CopyHolds
  <1>3. IsRow(p, c)'
    BY DEF CopyHolds, IsRow
  <1> QED
    BY <1>1, <1>2, <1>3 DEF CopyHolds, RowGrows

-----------------------------------------------------------------------------
(* What a step of one request leaves of the others                          *)

SameSession(t) ==
  /\ pc'[t] = pc[t] /\ request'[t] = request[t] /\ todo'[t] = todo[t]
  /\ loaded'[t] = loaded[t] /\ dirty'[t] = dirty[t]

\* A request that does not move keeps what it knows of its copies.
LEMMA Bystander ==
  ASSUME Trails, Trails', \A p \in Periods : RowGrows(p), NEW t \in Sessions,
         InFlight(t), SameSession(t)
  PROVE  InFlight(t)'
PROOF
  <1>1. PICK l, d, o, c, r : l = loaded[t] /\ d = dirty[t] /\ o = todo[t] /\ c = pc[t] /\ r = request[t]
    OBVIOUS
  <1>2. l = loaded'[t] /\ d = dirty'[t] /\ o = todo'[t] /\ c = pc'[t] /\ r = request'[t]
    BY <1>1 DEF SameSession
  <1>3. \A p \in DOMAIN l : p \in Periods /\ CopyHolds(p, l[p])
    BY <1>1 DEF InFlight
  <1>4. \A p \in DOMAIN l : CopyHolds(p, l[p])'
    BY <1>3, CopyStays
  <1>5. \A p \in DOMAIN d : /\ Aggregated(p, l[p], d[p])
                            /\ Calculates(p, d[p]) \/ (c = "write" /\ p = Head(o))
    BY <1>1 DEF InFlight
  <1>6. \A p \in DOMAIN loaded'[t] : CopyHolds(p, loaded[t][p])'
    BY <1>2, <1>4
  <1>7. \A p \in DOMAIN dirty'[t] :
          /\ Aggregated(p, loaded[t][p], dirty[t][p])'
          /\ Calculates(p, dirty[t][p])' \/ (pc'[t] = "write" /\ p = Head(todo'[t]))
    BY <1>2, <1>5 DEF Aggregated, Calculates
  <1> QED
    BY <1>1, <1>2, <1>6, <1>7 DEF InFlight

\* A request that is answered has no copies.
LEMMA Answered ==
  ASSUME NEW s \in Sessions, pc'[s] = "idle", todo'[s] = <<>>, loaded'[s] = <<>>, dirty'[s] = <<>>
  PROVE  InFlight(s)'
PROOF
  <1>1. DOMAIN loaded'[s] = {} /\ DOMAIN dirty'[s] = {}
    OBVIOUS
  <1>2. todo'[s] \in Seq(DOMAIN loaded'[s])
    BY EmptySeq
  <1> QED
    BY <1>1, <1>2 DEF InFlight


\* As long as no transaction commits, the rows show what they showed.
LEMMA TablesStay ==
  ASSUME Trails, UNCHANGED tables
  PROVE  /\ Trails'
         /\ \A p \in Periods : RowGrows(p)
         /\ \A p \in Periods : \A c : CopyHolds(p, c) => CopyHolds(p, c)'
PROOF
  <1>1. \A p \in Periods : Untouched(p)
    BY DEF tables, Untouched, ChainOf
  <1>2. Trails' /\ \A p \in Periods : RowGrows(p)
    BY <1>1, TrailGoesOn DEF Trails
  <1> QED
    BY <1>2, CopyStays

\* Copies that do not move stay copies as long as no transaction commits.
LEMMA CopiesStay ==
  ASSUME Trails, UNCHANGED tables, NEW s \in Sessions, loaded'[s] = loaded[s],
         \A q \in DOMAIN loaded[s] : q \in Periods /\ CopyHolds(q, loaded[s][q])
  PROVE  \A q \in DOMAIN loaded[s] : CopyHolds(q, loaded[s][q])'
PROOF
  <1>1. PICK l : l = loaded[s]
    OBVIOUS
  <1>2. l = loaded'[s]
    BY <1>1
  <1>3. \A q \in DOMAIN l : q \in Periods /\ CopyHolds(q, l[q])
    BY <1>1
  <1>4. \A q \in DOMAIN l : CopyHolds(q, l[q])'
    BY <1>3, TablesStay, Zenon
  <1> QED
    BY <1>1, <1>2, <1>4

\* A step of one request in which no transaction commits.
LEMMA AloneKeeps ==
  ASSUME IInv, NEW s \in Sessions, UNCHANGED tables, Shapes', InFlight(s)',
         \A t \in Sessions \ {s} : SameSession(t)
  PROVE  IInv'
PROOF
  <1>1. Trails /\ \A t \in Sessions : InFlight(t)
    BY DEF IInv
  <1>2. Trails' /\ \A p \in Periods : RowGrows(p)
    BY <1>1, TablesStay
  <1>3. \A t \in Sessions \ {s} : InFlight(t)'
    BY <1>1, <1>2, Bystander
  <1> QED
    BY <1>2, <1>3 DEF IInv

\* The answer to a request, with whatever it committed.
LEMMA EndKeeps ==
  ASSUME IInv, NEW s \in Sessions, EndRequest(s), periods' = [p \in Periods |-> periods'[p]],
         \A p \in Periods : Untouched(p) \/ Settled(p) \/ Followed(p)
  PROVE  IInv'
PROOF
  <1>1. Shapes /\ Trails /\ \A t \in Sessions : InFlight(t)
    BY DEF IInv
  <1>2. Trails' /\ \A p \in Periods : RowGrows(p)
    BY <1>1, TrailGoesOn DEF Trails
  <1>3. /\ pc' = [pc EXCEPT ![s] = "idle"] /\ request' = [request EXCEPT ![s] = NULL]
        /\ todo' = [todo EXCEPT ![s] = <<>>] /\ loaded' = [loaded EXCEPT ![s] = <<>>]
        /\ dirty' = [dirty EXCEPT ![s] = <<>>]
    BY DEF EndRequest, ClearSession
  <1>4. Shapes'
    BY <1>1, <1>3 DEF Shapes
  <1>5. InFlight(s)'
    <2>1. pc'[s] = "idle" /\ todo'[s] = <<>> /\ loaded'[s] = <<>> /\ dirty'[s] = <<>>
      BY <1>1, <1>3 DEF Shapes
    <2> QED
      BY <2>1, Answered
  <1>6. \A t \in Sessions \ {s} : InFlight(t)'
    <2>1. \A t \in Sessions \ {s} : SameSession(t)
      BY <1>1, <1>3 DEF Shapes, SameSession
    <2> QED
      BY <2>1, <1>1, <1>2, Bystander
  <1> QED
    BY <1>2, <1>4, <1>5, <1>6 DEF IInv


\* A request that ends without a commit.
LEMMA RolledBack ==
  ASSUME IInv, NEW s \in Sessions, EndRequest(s), UNCHANGED tables
  PROVE  IInv'
PROOF
  <1>1. \A p \in Periods : Untouched(p)
    BY DEF tables, Untouched, ChainOf
  <1>2. periods' = [p \in Periods |-> periods'[p]]
    BY DEF IInv, Shapes, tables
  <1> QED
    BY <1>1, <1>2, EndKeeps

\* A row is a copy of itself.
LEMMA RowIsCopy ==
  ASSUME Trails, NEW p \in Periods, periods[p] # NULL
  PROVE  CopyHolds(p, periods[p])
PROOF
  <1>1. Shown(p) /\ ChainOf(p) # {}
    BY DEF Trails
  <1>2. IsRow(p, periods[p]) /\ periods[p].event \in Nat
    BY <1>1 DEF Shown, IsRow
  <1> QED
    BY <1>1, <1>2 DEF CopyHolds

-----------------------------------------------------------------------------
(* The steps of a request before its commit                                 *)

\* An ingest starts with copies of the rows as they are.
LEMMA StartIngestKeeps ==
  ASSUME IInv, NEW s \in Sessions, NEW d \in Docs, StartIngest(s, d)
  PROVE  IInv'
PROOF
  <1> DEFINE found == {p \in Overlapping(d) : periods[p] # NULL /\ periods[p].earned = NULL}
  <1>1. PICK order \in [1 .. Cardinality(found) -> found] : todo' = [todo EXCEPT ![s] = order]
    BY DEF StartIngest
  <1>2. Shapes /\ Trails /\ InFlight(s)
    BY DEF IInv
  <1>3. found \subseteq Periods /\ \A p \in found : periods[p] # NULL
    BY DEF Overlapping
  <1>4. /\ pc' = [pc EXCEPT ![s] = "aggregate"]
        /\ request' = [request EXCEPT ![s] = [kind |-> "ingest", doc |-> d]]
        /\ loaded' = [loaded EXCEPT ![s] = [p \in found |-> periods[p]]]
        /\ UNCHANGED <<tables, today, rowLock, dirty>> /\ pc[s] = "idle"
    BY DEF StartIngest
  <1>5. Cardinality(found) \in Nat
    <2>1. IsFiniteSet(found)
      BY <1>3, FS_Subset, RebateAssumption
    <2> QED
      BY <2>1, FS_CardinalityType
  <1> HIDE DEF found
  <1>6. order \in Seq(found)
    BY <1>1, <1>5, SeqDef
  <1>7. pc'[s] = "aggregate" /\ todo'[s] = order /\ dirty'[s] = dirty[s]
        /\ loaded'[s] = [p \in found |-> periods[p]]
    BY <1>1, <1>2, <1>4 DEF Shapes
  <1>8. \A p \in found : CopyHolds(p, loaded[s][p])'
    <2>1. PICK l : l = [p \in found |-> periods[p]]
      OBVIOUS
    <2>2. \A p \in found : p \in Periods /\ CopyHolds(p, periods[p])
      BY <1>2, <1>3, RowIsCopy
    <2>3. \A p \in found : p \in Periods /\ CopyHolds(p, l[p])
      BY <2>1, <2>2
    <2>4. UNCHANGED tables
      BY <1>4
    <2>5. \A p \in found : CopyHolds(p, l[p])'
      BY <1>2, <2>3, <2>4, TablesStay, Zenon
    <2>6. loaded'[s] = l
      BY <1>7, <2>1
    <2> QED
      BY <2>5, <2>6
  <1>9. InFlight(s)'
    <2>1. DOMAIN loaded'[s] = found /\ DOMAIN dirty'[s] = {}
      BY <1>2, <1>4, <1>7 DEF InFlight
    <2> QED
      BY <2>1, <1>3, <1>6, <1>7, <1>8 DEF InFlight
  <1>10. Shapes'
    BY <1>1, <1>2, <1>4 DEF Shapes, tables
  <1>11. \A t \in Sessions \ {s} : SameSession(t)
    BY <1>1, <1>2, <1>4 DEF Shapes, SameSession
  <1> QED
    BY <1>4, <1>9, <1>10, <1>11, AloneKeeps


\* A copy with another spend and source, not calculated yet.
LEMMA AggregateIs ==
  ASSUME NEW p, NEW c, IsRow(p, c), NEW spend, NEW source \in Sources,
         Rank(source) >= Rank(c.source)
  PROVE  Aggregated(p, c, [c EXCEPT !.spend = spend, !.source = source])
PROOF
  <1> DEFINE f1 == [c EXCEPT !.spend = spend]
             f2 == [f1 EXCEPT !.source = source]
  <1>1. [c EXCEPT !.spend = spend, !.source = source] = f2
    OBVIOUS
  <1>2. c = [spend |-> c.spend, source |-> c.source, expected |-> c.expected, event |-> c.event,
             earned |-> c.earned, received |-> c.received, status |-> c.status]
    BY DEF IsRow
  <1>3. f1 = [spend |-> spend, source |-> c.source, expected |-> c.expected, event |-> c.event,
              earned |-> c.earned, received |-> c.received, status |-> c.status]
    BY <1>2
  <1> HIDE DEF f1
  <1>4. f2 = [spend |-> spend, source |-> source, expected |-> c.expected, event |-> c.event,
              earned |-> c.earned, received |-> c.received, status |-> c.status]
    BY <1>3
  <1> HIDE DEF f2
  <1>5. Aggregated(p, c, f2)
    BY <1>4 DEF Aggregated
  <1> QED
    BY <1>1, <1>5

\* The spend of the documents and their source go to the copy of the period.
LEMMA AggregateKeeps ==
  ASSUME IInv, NEW s \in Sessions, NEW source \in Sources, NEW docs,
         pc[s] \in {"aggregate", "no_invoices"}, todo[s] # <<>>,
         Aggregate(s, Head(todo[s]), source, docs),
         UNCHANGED <<tables, today, rowLock, request, todo, loaded>>,
         Rank(source) >= Rank(loaded[s][Head(todo[s])].source)
  PROVE  IInv'
PROOF
  <1> DEFINE total == SpendOf(Head(todo[s]), docs)
  <1>1. PICK p : p = Head(todo[s])
    OBVIOUS
  <1>2. Shapes /\ Trails /\ InFlight(s)
    BY DEF IInv
  <1>3. p \in DOMAIN loaded[s] /\ p \in Periods /\ CopyHolds(p, loaded[s][p])
    BY <1>1, <1>2 DEF InFlight
  <1> DEFINE copy == [loaded[s][p] EXCEPT !.spend = total, !.source = source]
             all == [q \in DOMAIN dirty[s] \cup {p} |-> IF q = p THEN copy ELSE dirty[s][q]]
  <1>4. dirty' = [dirty EXCEPT ![s] = all] /\ pc' = [pc EXCEPT ![s] = "write"]
    BY <1>1, Zenon DEF Aggregate
  <1> HIDE DEF total
  <1>5. Aggregated(p, loaded[s][p], copy)
    BY <1>1, <1>3, AggregateIs DEF CopyHolds
  <1> HIDE DEF copy
  <1>6. /\ pc'[s] = "write" /\ todo'[s] = todo[s] /\ loaded'[s] = loaded[s]
        /\ DOMAIN dirty'[s] = DOMAIN dirty[s] \cup {p} /\ dirty'[s][p] = copy
        /\ \A q \in DOMAIN dirty[s] : q # p => dirty'[s][q] = dirty[s][q]
    BY <1>2, <1>4, Zenon DEF Shapes
  <1> HIDE DEF all
  <1>7. \A q \in DOMAIN loaded[s] : CopyHolds(q, loaded[s][q])'
    <2>1. \A q \in DOMAIN loaded[s] : q \in Periods /\ CopyHolds(q, loaded[s][q])
      BY <1>2 DEF InFlight
    <2>2. UNCHANGED tables
      OBVIOUS
    <2> QED
      BY <2>1, <2>2, <1>2, <1>6, CopiesStay
  <1>8. \A q \in DOMAIN dirty'[s] :
          /\ Aggregated(q, loaded[s][q], dirty[s][q])'
          /\ Calculates(q, dirty[s][q])' \/ q = Head(todo'[s])
    <2> SUFFICES ASSUME NEW q \in DOMAIN dirty'[s]
                 PROVE  /\ Aggregated(q, loaded[s][q], dirty[s][q])'
                        /\ Calculates(q, dirty[s][q])' \/ q = Head(todo'[s])
      OBVIOUS
    <2>1. CASE q = p
      BY <2>1, <1>1, <1>5, <1>6 DEF Aggregated
    <2>2. CASE q # p
      <3>1. q \in DOMAIN dirty[s] /\ dirty'[s][q] = dirty[s][q]
        BY <2>2, <1>6
      <3>2. Aggregated(q, loaded[s][q], dirty[s][q]) /\ Calculates(q, dirty[s][q])
        BY <3>1, <2>2, <1>1, <1>2 DEF InFlight
      <3> QED
        BY <3>1, <3>2, <1>6 DEF Aggregated, Calculates
    <2> QED
      BY <2>1, <2>2
  <1>9. InFlight(s)'
    BY <1>1, <1>2, <1>3, <1>6, <1>7, <1>8 DEF InFlight
  <1>10. Shapes'
    BY <1>2, <1>4 DEF Shapes, tables
  <1>11. \A t \in Sessions \ {s} : SameSession(t)
    BY <1>2, <1>4 DEF Shapes, SameSession
  <1> QED
    BY <1>9, <1>10, <1>11, AloneKeeps


\* _invoice_tuples: invoices are the best source.
LEMMA ReadInvoicesKeeps ==
  ASSUME IInv, NEW s \in Sessions, ReadInvoices(s)
  PROVE  IInv'
PROOF
  <1>1. Shapes /\ Trails /\ InFlight(s)
    BY DEF IInv
  <1>2. PICK p : p = Head(todo[s])
    OBVIOUS
  <1>3. pc[s] = "aggregate" /\ todo[s] # <<>>
        /\ UNCHANGED <<tables, today, rowLock, request, todo, loaded>>
    BY DEF ReadInvoices
  <1>4. p \in DOMAIN loaded[s] /\ p \in Periods /\ loaded[s][p].source \in Sources
    <2>1. p \in DOMAIN loaded[s] /\ p \in Periods /\ CopyHolds(p, loaded[s][p])
      BY <1>1, <1>2, <1>3 DEF InFlight
    <2> QED
      BY <2>1 DEF CopyHolds, IsRow
  <1>5. CASE loaded[s][p].source = "invoice_aggregation" \/ Invoices(Visible(s)) # {}
    <2>1. Aggregate(s, Head(todo[s]), "invoice_aggregation", Invoices(Visible(s)))
      BY <1>2, <1>5 DEF ReadInvoices
    <2>2. "invoice_aggregation" \in Sources
          /\ Rank("invoice_aggregation") >= Rank(loaded[s][Head(todo[s])].source)
      BY <1>2, <1>4, RankIs DEF Sources
    <2> QED
      BY <1>3, <2>1, <2>2, AggregateKeeps
  <1>6. CASE ~ (loaded[s][p].source = "invoice_aggregation" \/ Invoices(Visible(s)) # {})
    <2>1. pc' = [pc EXCEPT ![s] = "no_invoices"] /\ UNCHANGED dirty
      BY <1>2, <1>6 DEF ReadInvoices
    <2>2. \A q \in DOMAIN loaded[s] : CopyHolds(q, loaded[s][q])'
      <3>1. \A q \in DOMAIN loaded[s] : q \in Periods /\ CopyHolds(q, loaded[s][q])
        BY <1>1 DEF InFlight
      <3>2. UNCHANGED tables /\ loaded'[s] = loaded[s] /\ Trails
        BY <1>1, <1>3
      <3> QED
        BY <3>1, <3>2, CopiesStay
    <2>3. pc'[s] = "no_invoices"
      BY <1>1, <2>1 DEF Shapes
    <2>4. \A q \in DOMAIN dirty[s] :
            Aggregated(q, loaded[s][q], dirty[s][q])' /\ Calculates(q, dirty[s][q])'
      <3>1. \A q \in DOMAIN dirty[s] :
              Aggregated(q, loaded[s][q], dirty[s][q]) /\ Calculates(q, dirty[s][q])
        BY <1>1, <1>3 DEF InFlight
      <3> QED
        BY <3>1, <1>3, <2>1 DEF Aggregated, Calculates
    <2>5. InFlight(s)'
      BY <1>1, <1>2, <1>3, <1>6, <2>1, <2>2, <2>3, <2>4 DEF InFlight
    <2>6. Shapes'
      BY <1>1, <1>3, <2>1 DEF Shapes, tables
    <2>7. \A t \in Sessions \ {s} : SameSession(t)
      BY <1>1, <1>3, <2>1 DEF Shapes, SameSession
    <2> QED
      BY <1>3, <2>5, <2>6, <2>7, AloneKeeps
  <1> QED
    BY <1>5, <1>6

\* _transaction_tuples: without an invoice the copy had no better source either.
LEMMA ReadTransactionsKeeps ==
  ASSUME IInv, NEW s \in Sessions, ReadTransactions(s)
  PROVE  IInv'
PROOF
  <1>1. InFlight(s)
    BY DEF IInv
  <1>2. pc[s] = "no_invoices"
        /\ Aggregate(s, Head(todo[s]), "transaction_aggregation", Transactions(Visible(s)))
        /\ UNCHANGED <<tables, today, rowLock, request, todo, loaded>>
    BY DEF ReadTransactions
  <1>3. todo[s] # <<>> /\ Head(todo[s]) \in DOMAIN loaded[s]
        /\ loaded[s][Head(todo[s])].source # "invoice_aggregation"
    BY <1>1, <1>2 DEF InFlight
  <1>4. loaded[s][Head(todo[s])].source \in Sources /\ "transaction_aggregation" \in Sources
    <2>1. CopyHolds(Head(todo[s]), loaded[s][Head(todo[s])])
      BY <1>1, <1>3 DEF InFlight
    <2> QED
      BY <2>1 DEF CopyHolds, IsRow, Sources
  <1>5. Rank("transaction_aggregation") >= Rank(loaded[s][Head(todo[s])].source)
    BY <1>3, <1>4, RankIs
  <1> QED
    BY <1>2, <1>3, <1>4, <1>5, AggregateKeeps

\* recalculate_expected works out the amount of the copy for the spend of the copy.
LEMMA WriteExpectedKeeps ==
  ASSUME IInv, NEW s \in Sessions, WriteExpected(s)
  PROVE  IInv'
PROOF
  <1> DEFINE v == LatestVersion(events, Head(todo[s]), "expected_amount") + 1
  <1>1. PICK p : p = Head(todo[s])
    OBVIOUS
  <1>2. Shapes /\ Trails /\ InFlight(s) /\ pc[s] = "write"
    BY DEF IInv, WriteExpected
  <1>3. p \in DOMAIN dirty[s] /\ p \in DOMAIN loaded[s] /\ p \in Periods /\ todo[s] # <<>>
        /\ CopyHolds(p, loaded[s][p]) /\ Aggregated(p, loaded[s][p], dirty[s][p])
    BY <1>1, <1>2 DEF InFlight
  <1>4. v \in Nat \ {0, 1}
    <2>1. Shown(p)
      BY <1>2, <1>3 DEF CopyHolds, Trails
    <2>2. periods[p].event \in Nat \ {0}
          /\ {e.version : e \in Chain(events, p, "expected_amount")} = 1 .. periods[p].event
      BY <2>1 DEF Shown, IsRow, ChainOf
    <2>3. LatestVersion(events, p, "expected_amount") = periods[p].event
      BY <2>2, LatestVersionIs
    <2> QED
      BY <1>1, <2>2, <2>3
  <1>5. /\ dirty' = [dirty EXCEPT ![s][p].expected = Calculated(p, dirty[s][p].spend, v),
                                 ![s][p].event = v]
        /\ todo' = [todo EXCEPT ![s] = Tail(@)] /\ pc' = [pc EXCEPT ![s] = "aggregate"]
        /\ UNCHANGED <<tables, today, request, loaded>>
    BY <1>1 DEF WriteExpected
  <1> HIDE DEF v
  <1> DEFINE n == dirty[s][p]
             amount == Calculated(p, n.spend, v)
             f1 == [n EXCEPT !.expected = amount]
             f2 == [f1 EXCEPT !.event = v]
             all == [dirty[s] EXCEPT ![p] = f2]
  <1>6. dirty' = [dirty EXCEPT ![s] = all]
    BY <1>2, <1>3, <1>5 DEF Shapes
  <1>7. /\ pc'[s] = "aggregate" /\ todo'[s] = Tail(todo[s]) /\ loaded'[s] = loaded[s]
        /\ DOMAIN dirty'[s] = DOMAIN dirty[s] /\ dirty'[s][p] = f2
        /\ \A q \in DOMAIN dirty[s] : q # p => dirty'[s][q] = dirty[s][q]
    BY <1>2, <1>3, <1>5, <1>6 DEF Shapes
  <1> HIDE DEF all
  <1>8. n = [spend |-> n.spend, source |-> n.source, expected |-> n.expected, event |-> n.event,
             earned |-> loaded[s][p].earned, received |-> loaded[s][p].received,
             status |-> loaded[s][p].status]
        /\ n.source \in Sources /\ Rank(n.source) >= Rank(loaded[s][p].source)
    BY <1>3 DEF Aggregated
  <1>9. amount = Calculated(p, n.spend, v)
    OBVIOUS
  <1> HIDE DEF amount, n
  <1>10. f1 = [spend |-> n.spend, source |-> n.source, expected |-> amount, event |-> n.event,
               earned |-> loaded[s][p].earned, received |-> loaded[s][p].received,
               status |-> loaded[s][p].status]
    BY <1>8
  <1> HIDE DEF f1
  <1>11. f2 = [spend |-> n.spend, source |-> n.source, expected |-> amount, event |-> v,
               earned |-> loaded[s][p].earned, received |-> loaded[s][p].received,
               status |-> loaded[s][p].status]
    BY <1>10
  <1> HIDE DEF f2
  <1>12. Aggregated(p, loaded[s][p], f2) /\ Calculates(p, f2)
    BY <1>4, <1>8, <1>9, <1>11, Zenon DEF Aggregated, Calculates
  <1>13. \A q \in DOMAIN loaded[s] : CopyHolds(q, loaded[s][q])'
    <2>1. \A q \in DOMAIN loaded[s] : q \in Periods /\ CopyHolds(q, loaded[s][q])
      BY <1>2 DEF InFlight
    <2>2. UNCHANGED tables
      BY <1>5
    <2> QED
      BY <2>1, <2>2, <1>2, <1>7, CopiesStay
  <1>14. \A q \in DOMAIN dirty'[s] :
           Aggregated(q, loaded[s][q], dirty[s][q])' /\ Calculates(q, dirty[s][q])'
    <2> SUFFICES ASSUME NEW q \in DOMAIN dirty'[s]
                 PROVE  Aggregated(q, loaded[s][q], dirty[s][q])' /\ Calculates(q, dirty[s][q])'
      OBVIOUS
    <2>1. CASE q = p
      BY <2>1, <1>7, <1>12 DEF Aggregated, Calculates
    <2>2. CASE q # p
      <3>1. q \in DOMAIN dirty[s] /\ dirty'[s][q] = dirty[s][q]
        BY <2>2, <1>7
      <3>2. Aggregated(q, loaded[s][q], dirty[s][q]) /\ Calculates(q, dirty[s][q])
        BY <3>1, <2>2, <1>1, <1>2 DEF InFlight
      <3> QED
        BY <3>1, <3>2, <1>7 DEF Aggregated, Calculates
    <2> QED
      BY <2>1, <2>2
  <1>15. Tail(todo[s]) \in Seq(DOMAIN loaded[s])
    <2>1. todo[s] \in Seq(DOMAIN loaded[s])
      BY <1>2 DEF InFlight
    <2> QED
      BY <2>1, <1>3, HeadTailProperties
  <1>16. InFlight(s)'
    BY <1>2, <1>7, <1>13, <1>14, <1>15 DEF InFlight
  <1>17. Shapes'
    BY <1>2, <1>5, <1>6 DEF Shapes, tables
  <1>18. \A t \in Sessions \ {s} : SameSession(t)
    BY <1>2, <1>5, <1>6 DEF Shapes, SameSession
  <1> QED
    BY <1>5, <1>16, <1>17, <1>18, AloneKeeps

\* A close or a receipt starts with a copy of the row as it is.
LEMMA LoadPeriodKeeps ==
  ASSUME IInv, NEW s \in Sessions, NEW p \in Periods, NEW r, LoadPeriod(s, p, r),
         r.kind \in {"close", "receipt"}, r.period = p,
         r.kind = "receipt" => r.amount \in Receipts
  PROVE  IInv'
PROOF
  <1>1. Shapes /\ Trails /\ InFlight(s) /\ pc[s] = "idle" /\ periods[p] # NULL
    BY DEF IInv, LoadPeriod
  <1>2. /\ pc' = [pc EXCEPT ![s] = r.kind] /\ request' = [request EXCEPT ![s] = r]
        /\ loaded' = [loaded EXCEPT ![s] = [q \in {p} |-> periods[p]]]
        /\ UNCHANGED <<tables, today, rowLock, todo, dirty>>
    BY DEF LoadPeriod
  <1>3. /\ pc'[s] = r.kind /\ request'[s] = r /\ DOMAIN loaded'[s] = {p}
        /\ loaded'[s][p] = periods[p] /\ todo'[s] = <<>> /\ DOMAIN dirty'[s] = {}
    BY <1>1, <1>2 DEF Shapes, InFlight
  <1>4. CopyHolds(p, loaded[s][p])'
    <2>1. PICK c : c = periods[p]
      OBVIOUS
    <2>2. CopyHolds(p, c)
      BY <1>1, <2>1, RowIsCopy
    <2>3. UNCHANGED tables
      BY <1>2
    <2>4. CopyHolds(p, c)'
      BY <1>1, <2>2, <2>3, TablesStay, Zenon
    <2>5. loaded'[s][p] = c
      BY <1>3, <2>1
    <2> QED
      BY <2>4, <2>5
  <1>5. todo'[s] \in Seq(DOMAIN loaded'[s])
    BY <1>3, EmptySeq
  <1>6. InFlight(s)'
    BY <1>3, <1>4, <1>5 DEF InFlight
  <1>7. Shapes'
    BY <1>1, <1>2 DEF Shapes, tables
  <1>8. \A t \in Sessions \ {s} : SameSession(t)
    BY <1>1, <1>2 DEF Shapes, SameSession
  <1> QED
    BY <1>2, <1>6, <1>7, <1>8, AloneKeeps


-----------------------------------------------------------------------------
(* The commits                                                              *)

\* What a transaction may not take back from the row of a period.
Carries(p) ==
  periods[p] # NULL =>
    /\ Rank(periods'[p].source) >= Rank(periods[p].source)
    /\ periods[p].earned # NULL => periods'[p].earned # NULL
    /\ periods[p].received # NULL => periods'[p].received # NULL

\* A row that is left alone loses nothing.
LEMMA UntouchedCarries ==
  ASSUME Trails, NEW p \in Periods, Untouched(p)
  PROVE  Carries(p)
PROOF
  <1>1. periods[p] # NULL => periods[p].source \in Sources
    BY DEF Trails, Shown, IsRow
  <1>2. periods[p] # NULL => Rank(periods[p].source) \in 0 .. 2
    BY <1>1, RankIs
  <1> QED
    BY <1>2 DEF Untouched, Carries

\* A transaction is rolled back, or every row that it wrote shows its latest event.
LEMMA CommitIs ==
  ASSUME Shapes, NEW rows, NEW added, NEW docs, Commit(rows, added, docs)
  PROVE  \/ UNCHANGED tables
         \/ /\ Accepts(events \cup added, added, rows)
            /\ periods' = [p \in Periods |-> IF p \in DOMAIN rows THEN rows[p] ELSE periods[p]]
            /\ events' = events \cup added
PROOF
  BY DEF Commit

\* The rows of the periods that nobody wrote.
LEMMA NotWritten ==
  ASSUME NEW rows, NEW added, NEW p \in Periods, p \notin DOMAIN rows,
         \A e \in added : e.parent # p,
         periods' = [q \in Periods |-> IF q \in DOMAIN rows THEN rows[q] ELSE periods[q]],
         events' = events \cup added
  PROVE  Untouched(p)
PROOF
  <1>1. periods'[p] = periods[p]
    OBVIOUS
  <1>2. ChainOf(p)' = ChainOf(p)
    BY DEF ChainOf, Chain
  <1> QED
    BY <1>1, <1>2 DEF Untouched

\* record_period_actual writes the first row and event of a period.
LEMMA RecordPeriodKeeps ==
  ASSUME IInv, NEW s \in Sessions, NEW p \in Periods, NEW spend, RecordPeriod(s, p, spend)
  PROVE  IInv' /\ (periods' = periods \/ \A q \in Periods : Carries(q))
PROOF
  <1> DEFINE expected == Calculated(p, spend, 1)
             row == NewRow(spend, expected)
             rows == [q \in {p} |-> row]
             e == ExpectedEvent(p, 1, NoFigure, expected, "manual_estimate")
  <1>1. Shapes /\ Trails /\ EndRequest(s) /\ periods[p] = NULL
    BY DEF IInv, RecordPeriod
  <1>2. Commit(rows, {e}, {})
    BY DEF RecordPeriod
  <1>3. CASE UNCHANGED tables
    BY <1>1, <1>3, RolledBack DEF tables
  <1>4. ASSUME Accepts(events \cup {e}, {e}, rows), events' = events \cup {e},
               periods' = [q \in Periods |-> IF q \in DOMAIN rows THEN rows[q] ELSE periods[q]]
        PROVE  IInv' /\ \A q \in Periods : Carries(q)
    <2>1. e.parent = p /\ e.measure = "expected_amount" /\ e.version = 1 /\ e.new = expected
      BY DEF ExpectedEvent, Event
    <2>2. EventInsertable(events, e)
      BY <1>4 DEF Accepts
    <2>3. /\ row.spend = spend /\ row.expected = expected /\ row.event = 1
          /\ row = [spend |-> row.spend, source |-> row.source, expected |-> row.expected,
                    event |-> row.event, earned |-> row.earned, received |-> row.received,
                    status |-> row.status]
          /\ row.source \in Sources
      BY DEF NewRow, Sources
    <2>4. /\ IsFigure(expected) /\ expected.status = "calculated" /\ expected.calculatedAt = 1
          /\ expected.amount = Calc!ExpectedRebate(spend, Terms[p])
      BY CalculatedIs
    <2>5. DOMAIN rows = {p} /\ rows[p] = row
      OBVIOUS
    <2> HIDE DEF expected, row, rows, e
    <2>6. ChainOf(p) = {}
      <3> SUFFICES ASSUME ChainOf(p) # {} PROVE FALSE
        OBVIOUS
      <3>1. Shown(p)
        BY <1>1 DEF Trails
      <3>2. 1 \in {d.version : d \in ChainOf(p)}
        BY <3>1 DEF Shown, IsRow
      <3> QED
        BY <2>1, <2>2, <3>2 DEF EventInsertable, ChainOf
    <2>7. ChainOf(p)' = ChainOf(p) \cup {e}
      BY <1>4, <2>1 DEF ChainOf, Chain
    <2>8. periods'[p] = row
      BY <1>4, <2>5
    <2>9. IsRow(p, row)
      BY <2>3, <2>4 DEF IsRow
    <2>10. Followed(p)
      <3>1. IsRow(p, periods[p])'
        BY <2>8, <2>9 DEF IsRow, IsFigure
      <3>2. Latest(p) = 0
        BY <2>6 DEF Latest
      <3> QED
        BY <3>1, <3>2, <2>1, <2>3, <2>7, <2>8 DEF Followed
    <2>11. \A q \in Periods : q # p => Untouched(q)
      BY <1>4, <2>1, <2>5, NotWritten
    <2>12. IInv'
      BY <1>1, <1>4, <2>10, <2>11, EndKeeps
    <2>13. \A q \in Periods : Carries(q)
      BY <1>1, <2>11, UntouchedCarries DEF Carries
    <2> QED
      BY <2>12, <2>13
  <1>5. \/ UNCHANGED tables
        \/ /\ Accepts(events \cup {e}, {e}, rows) /\ events' = events \cup {e}
           /\ periods' = [q \in Periods |-> IF q \in DOMAIN rows THEN rows[q] ELSE periods[q]]
    BY <1>1, <1>2, CommitIs
  <1> QED
    BY <1>3, <1>4, <1>5


\* A close or a receipt, which leaves the figure and its event as the row has them.
LEMMA UpdateKeeps ==
  ASSUME IInv, NEW s \in Sessions, pc[s] \in {"close", "receipt"}, NEW new, UpdatePeriod(s, new),
         NEW copy, copy = loaded[s][request[s].period],
         new.spend = copy.spend, new.source = copy.source, new.expected = copy.expected,
         new.event = copy.event,
         new.earned # copy.earned => new.earned # NULL,
         new.received # copy.received => new.received # NULL
  PROVE  IInv' /\ (periods' = periods \/ \A q \in Periods : Carries(q))
PROOF
  <1>1. PICK p : p = request[s].period
    OBVIOUS
  <1>2. Shapes /\ Trails /\ InFlight(s) /\ EndRequest(s)
    BY DEF IInv, UpdatePeriod
  <1>3. p \in Periods /\ CopyHolds(p, copy)
    BY <1>1, <1>2 DEF InFlight
  <1> DEFINE row == FlushRow(periods[p], copy, new)
             rows == [q \in {p} |-> row]
  <1>4. Commit(rows, {}, {})
    BY <1>1 DEF UpdatePeriod
  <1>5. CASE UNCHANGED tables
    BY <1>2, <1>5, RolledBack DEF tables
  <1>6. ASSUME events' = events \cup {},
               periods' = [q \in Periods |-> IF q \in DOMAIN rows THEN rows[q] ELSE periods[q]]
        PROVE  IInv' /\ \A q \in Periods : Carries(q)
    <2>1. Shown(p) /\ ChainOf(p) # {}
      BY <1>2, <1>3 DEF CopyHolds, Trails
    <2>2. IsRow(p, periods[p])
      BY <2>1 DEF Shown
    <2>3. row.expected = periods[p].expected
      <3>1. row.expected = FlushFigure(periods[p].expected, copy.expected, copy.expected)
        BY DEF FlushRow
      <3> QED
        BY <3>1, <2>2, FlushFigureIs DEF IsRow
    <2>4. /\ row.spend = periods[p].spend /\ row.source = periods[p].source
          /\ row.event = periods[p].event
          /\ row = [spend |-> row.spend, source |-> row.source, expected |-> row.expected,
                    event |-> row.event, earned |-> row.earned, received |-> row.received,
                    status |-> row.status]
          /\ row.earned = Column(periods[p].earned, copy.earned, new.earned)
          /\ row.received = Column(periods[p].received, copy.received, new.received)
      BY DEF FlushRow, Column
    <2>5. DOMAIN rows = {p} /\ rows[p] = row
      OBVIOUS
    <2> HIDE DEF row, rows
    <2>6. periods'[p] = row /\ ChainOf(p)' = ChainOf(p)
      BY <1>3, <1>6, <2>5 DEF ChainOf
    <2>7. IsRow(p, row)
      BY <2>2, <2>3, <2>4 DEF IsRow
    <2>8. Settled(p)
      <3>1. IsRow(p, periods[p])'
        BY <2>6, <2>7 DEF IsRow, IsFigure
      <3> QED
        BY <3>1, <2>1, <2>3, <2>4, <2>6 DEF Settled
    <2>9. \A q \in Periods : q # p => Untouched(q)
      BY <1>6, <2>5 DEF Untouched, ChainOf
    <2>10. IInv'
      BY <1>2, <1>6, <2>8, <2>9, EndKeeps
    <2>11. Carries(p)
      <3>1. Rank(periods[p].source) \in 0 .. 2
        BY <2>2, RankIs DEF IsRow
      <3> QED
        BY <3>1, <2>4, <2>6 DEF Carries, Column
    <2> QED
      BY <1>2, <2>9, <2>10, <2>11, UntouchedCarries
  <1>7. \/ UNCHANGED tables
        \/ /\ events' = events \cup {}
           /\ periods' = [q \in Periods |-> IF q \in DOMAIN rows THEN rows[q] ELSE periods[q]]
    BY <1>2, <1>4, CommitIs
  <1> QED
    BY <1>5, <1>6, <1>7

\* close_period settles the row and writes nothing of the amount.
LEMMA CloseCommitKeeps ==
  ASSUME IInv, NEW s \in Sessions, CloseCommit(s)
  PROVE  IInv' /\ (periods' = periods \/ \A q \in Periods : Carries(q))
PROOF
  <1>1. PICK copy : copy = loaded[s][request[s].period]
    OBVIOUS
  <1> DEFINE status == RefreshedStatus(copy, TRUE)
             f1 == [copy EXCEPT !.earned = copy.expected.amount]
             f2 == [f1 EXCEPT !.status = status]
  <1>2. pc[s] = "close" /\ copy.earned = NULL /\ UpdatePeriod(s, f2)
    BY <1>1 DEF CloseCommit, MayClose
  <1> HIDE DEF status
  <1>3. copy = [spend |-> copy.spend, source |-> copy.source, expected |-> copy.expected,
                event |-> copy.event, earned |-> copy.earned, received |-> copy.received,
                status |-> copy.status]
    BY <1>1, <1>2 DEF IInv, InFlight, CopyHolds, IsRow
  <1>4. f1 = [spend |-> copy.spend, source |-> copy.source, expected |-> copy.expected,
              event |-> copy.event, earned |-> copy.expected.amount,
              received |-> copy.received, status |-> copy.status]
    BY <1>3
  <1> HIDE DEF f1
  <1>5. f2 = [spend |-> copy.spend, source |-> copy.source, expected |-> copy.expected,
              event |-> copy.event, earned |-> copy.expected.amount,
              received |-> copy.received, status |-> status]
    BY <1>4
  <1> HIDE DEF f2
  <1>6. /\ f2.spend = copy.spend /\ f2.source = copy.source /\ f2.expected = copy.expected
        /\ f2.event = copy.event /\ f2.received = copy.received
    BY <1>5
  <1> QED
    BY <1>1, <1>2, <1>6, UpdateKeeps

\* record_receipt settles the row and writes nothing of the amount.
LEMMA ReceiptCommitKeeps ==
  ASSUME IInv, NEW s \in Sessions, ReceiptCommit(s)
  PROVE  IInv' /\ (periods' = periods \/ \A q \in Periods : Carries(q))
PROOF
  <1>1. PICK copy : copy = loaded[s][request[s].period]
    OBVIOUS
  <1>2. PICK amount : amount = request[s].amount
    OBVIOUS
  <1> DEFINE f1 == [copy EXCEPT !.received = amount]
             status == RefreshedStatus(f1, copy.earned # NULL)
             f2 == [f1 EXCEPT !.status = status]
  <1>3. pc[s] = "receipt" /\ UpdatePeriod(s, f2)
    BY <1>1, <1>2 DEF ReceiptCommit
  <1> HIDE DEF status
  <1>4. copy = [spend |-> copy.spend, source |-> copy.source, expected |-> copy.expected,
                event |-> copy.event, earned |-> copy.earned, received |-> copy.received,
                status |-> copy.status]
    BY <1>1, <1>3 DEF IInv, InFlight, CopyHolds, IsRow
  <1>5. amount # NULL
    BY <1>2, <1>3, RebateAssumption DEF IInv, InFlight
  <1>6. f1 = [spend |-> copy.spend, source |-> copy.source, expected |-> copy.expected,
              event |-> copy.event, earned |-> copy.earned, received |-> amount,
              status |-> copy.status]
    BY <1>4
  <1> HIDE DEF f1
  <1>7. f2 = [spend |-> copy.spend, source |-> copy.source, expected |-> copy.expected,
              event |-> copy.event, earned |-> copy.earned, received |-> amount,
              status |-> status]
    BY <1>6
  <1> HIDE DEF f2
  <1>8. /\ f2.spend = copy.spend /\ f2.source = copy.source /\ f2.expected = copy.expected
        /\ f2.event = copy.event /\ f2.earned = copy.earned /\ f2.received = amount
    BY <1>7
  <1> QED
    BY <1>1, <1>3, <1>5, <1>8, UpdateKeeps


\* e is the event that an ingest adds for p, one of added, from its copy and the copy as changed.
Announces(s, p, old, new, added, e) ==
  /\ pc[s] = "aggregate" /\ p \in DOMAIN dirty[s]
  /\ old = loaded[s][p] /\ new = dirty[s][p]
  /\ e \in added /\ \A d \in added : d.parent = p => d = e
  /\ e = ExpectedEvent(p, new.event, old.expected, new.expected, "recalculation")

\* The copy was the row, and its event is the next one.
Continues(p, old, new) ==
  /\ Shown(p) /\ ChainOf(p) # {} /\ Calculates(p, new) /\ Aggregated(p, old, new)
  /\ new.event = periods[p].event + 1 /\ old.expected = periods[p].expected
  /\ old.spend = periods[p].spend /\ old.source = periods[p].source
  /\ old.event = periods[p].event

\* What the trigger tells about a period whose event it has accepted: the ingest had read
\* the row that its event follows.
LEMMA IngestHadReadTheRow ==
  ASSUME IInv, NEW s \in Sessions, NEW p, NEW old, NEW new, NEW added, NEW e,
         Announces(s, p, old, new, added, e),
         EventInsertable(events, e), ChainIntegrity(events \cup added, e)
  PROVE  Continues(p, old, new)
PROOF
  <1>0. /\ pc[s] = "aggregate" /\ p \in DOMAIN dirty[s]
        /\ old = loaded[s][p] /\ new = dirty[s][p]
        /\ e \in added /\ \A d \in added : d.parent = p => d = e
        /\ e = ExpectedEvent(p, new.event, old.expected, new.expected, "recalculation")
    BY DEF Announces
  <1>1. Trails /\ InFlight(s)
    BY DEF IInv
  <1>2. /\ p \in Periods /\ CopyHolds(p, old) /\ Aggregated(p, old, new)
        /\ Calculates(p, new)
    BY <1>0, <1>1 DEF InFlight
  <1>3. Shown(p) /\ ChainOf(p) # {}
    BY <1>1, <1>2 DEF CopyHolds, Trails
  <1>4. new.event \in Nat \ {0, 1} /\ periods[p].event \in Nat \ {0}
    BY <1>2, <1>3 DEF Calculates, Shown, IsRow
  <1>5. /\ e.parent = p /\ e.measure = "expected_amount" /\ e.version = new.event
        /\ e.old = old.expected
    BY <1>0, <1>4 DEF ExpectedEvent, Event
  <1>6. PICK prev \in Chain(events \cup added, p, "expected_amount") :
          prev.version = new.event - 1 /\ prev.new = old.expected
    <2>1. e.version > 1
      BY <1>4, <1>5
    <2>2. \E prev \in Chain(events \cup added, e.parent, e.measure) :
            prev.version = e.version - 1 /\ e.old = prev.new
      BY <2>1 DEF ChainIntegrity
    <2>3. e.parent = p /\ e.measure = "expected_amount"
      BY <1>5
    <2>4. \E prev \in Chain(events \cup added, p, "expected_amount") :
            prev.version = e.version - 1 /\ e.old = prev.new
      BY <2>2, <2>3, Zenon
    <2> QED
      BY <1>5, <2>4, Zenon
  <1>7. prev \in ChainOf(p)
    <2>1. prev.parent = p /\ prev.measure = "expected_amount" /\ prev \in events \cup added
      BY DEF Chain
    <2>2. prev # e
      BY <1>4, <1>5, <1>6
    <2> QED
      BY <1>0, <2>1, <2>2 DEF ChainOf, Chain
  <1>8. new.event = periods[p].event + 1
    <2>1. new.event - 1 \in 1 .. periods[p].event
      BY <1>3, <1>6, <1>7 DEF Shown
    <2>2. new.event \notin 1 .. periods[p].event
      <3>1. new.event \notin {d.version : d \in ChainOf(p)}
        BY <1>5 DEF EventInsertable, ChainOf
      <3> QED
        BY <3>1, <1>3 DEF Shown
    <2> QED
      BY <2>1, <2>2, <1>4
  <1>9. old.expected = periods[p].expected
    BY <1>3, <1>4, <1>6, <1>7, <1>8 DEF Shown
  <1>10. old.event = periods[p].event
    BY <1>2, <1>3, <1>9 DEF CopyHolds, Shown, IsRow
  <1> QED
    BY <1>2, <1>3, <1>8, <1>9, <1>10 DEF CopyHolds, Continues

\* What an ingest commits follows the rows that it has read, and nothing else.
LEMMA IngestCommitKeeps ==
  ASSUME IInv, NEW s \in Sessions, IngestCommit(s)
  PROVE  IInv' /\ (periods' = periods \/ \A q \in Periods : Carries(q))
PROOF
  <1> DEFINE EventOf(p) == ExpectedEvent(p, dirty[s][p].event, loaded[s][p].expected,
                                         dirty[s][p].expected, "recalculation")
             added == {EventOf(p) : p \in DOMAIN dirty[s]}
             rows == Flushed(s)
  <1>1. Shapes /\ Trails /\ InFlight(s) /\ EndRequest(s) /\ pc[s] = "aggregate"
    BY DEF IInv, IngestCommit
  <1>2. Commit(rows, added, {request[s].doc})
    BY DEF IngestCommit
  <1>3. CASE UNCHANGED tables
    BY <1>1, <1>3, RolledBack DEF tables
  <1>4. ASSUME Accepts(events \cup added, added, rows), events' = events \cup added,
               periods' = [q \in Periods |-> IF q \in DOMAIN rows THEN rows[q] ELSE periods[q]]
        PROVE  IInv' /\ \A q \in Periods : Carries(q)
    <2>1. \A p \in DOMAIN dirty[s] :
            /\ EventOf(p) \in added /\ EventOf(p).parent = p
            /\ EventOf(p).measure = "expected_amount"
            /\ EventOf(p).version = dirty[s][p].event /\ EventOf(p).new = dirty[s][p].expected
      BY DEF ExpectedEvent, Event
    <2>2. /\ DOMAIN rows = DOMAIN dirty[s]
          /\ \A p \in DOMAIN dirty[s] :
               rows[p] = FlushRow(periods[p], loaded[s][p], dirty[s][p])
      BY DEF Flushed
    <2>3. \A p \in DOMAIN dirty[s] : Followed(p) /\ Carries(p)
      <3> SUFFICES ASSUME NEW p \in DOMAIN dirty[s] PROVE Followed(p) /\ Carries(p)
        OBVIOUS
      <3>1. PICK old, new : old = loaded[s][p] /\ new = dirty[s][p]
        OBVIOUS
      <3>2. PICK e : e = EventOf(p)
        OBVIOUS
      <3>3. /\ e \in added /\ e.parent = p /\ e.measure = "expected_amount"
            /\ e.version = new.event /\ e.new = new.expected
            /\ e = ExpectedEvent(p, new.event, old.expected, new.expected, "recalculation")
        BY <2>1, <3>1, <3>2
      <3>4. \A d \in added : d.parent = p => d = e
        BY <2>1, <3>2
      <3> HIDE DEF EventOf, added, rows
      <3>5. EventInsertable(events, e) /\ ChainIntegrity(events \cup added, e)
        BY <1>4, <3>3 DEF Accepts
      <3>6. /\ Shown(p) /\ ChainOf(p) # {} /\ Calculates(p, new) /\ Aggregated(p, old, new)
            /\ new.event = periods[p].event + 1 /\ old.expected = periods[p].expected
            /\ old.spend = periods[p].spend /\ old.source = periods[p].source
            /\ old.event = periods[p].event
        <4>1. PICK a : a = added
          OBVIOUS
        <4>2. e \in a /\ (\A d \in a : d.parent = p => d = e) /\ ChainIntegrity(events \cup a, e)
          BY <3>3, <3>4, <3>5, <4>1
        <4>3. Announces(s, p, old, new, a, e)
          BY <1>1, <3>1, <3>3, <4>2 DEF Announces
        <4>4. Continues(p, old, new)
          BY <3>5, <4>2, <4>3, IngestHadReadTheRow, Zenon
        <4> QED
          BY <4>4 DEF Continues
      <3>7. IsFigure(new.expected) /\ new.expected.status = "calculated"
            /\ new.expected.calculatedAt = new.event
            /\ new.expected.amount = Calc!ExpectedRebate(new.spend, Terms[p])
        BY <3>6, CalculatedIs DEF Calculates
      <3> DEFINE row == FlushRow(periods[p], old, new)
      <3>8. row.expected = new.expected
        <4>1. row.expected = FlushFigure(old.expected, old.expected, new.expected)
          BY <3>6 DEF FlushRow
        <4> QED
          BY <4>1, <3>7, FlushFigureIs
      <3>9. /\ row.spend = new.spend /\ row.source = new.source /\ row.event = new.event
            /\ row.earned = periods[p].earned /\ row.received = periods[p].received
            /\ row = [spend |-> row.spend, source |-> row.source, expected |-> row.expected,
                      event |-> row.event, earned |-> row.earned, received |-> row.received,
                      status |-> row.status]
        <4>1. new.earned = old.earned /\ new.received = old.received
          BY <3>6 DEF Aggregated
        <4> QED
          BY <4>1, <3>6 DEF FlushRow, Column
      <3>10. periods'[p] = row
        BY <1>1, <1>4, <2>2, <3>1 DEF InFlight
      <3> HIDE DEF row
      <3>11. new.event \in Nat \ {0} /\ new.source \in Sources /\ Rank(new.source) >= Rank(old.source)
        BY <3>6 DEF Calculates, Aggregated
      <3>12. IsRow(p, row)
        BY <3>7, <3>8, <3>9, <3>11 DEF IsRow
      <3>13. ChainOf(p)' = ChainOf(p) \cup {e}
        BY <1>4, <3>3, <3>4 DEF ChainOf, Chain
      <3>14. Followed(p)
        <4>1. IsRow(p, periods[p])'
          BY <3>10, <3>12 DEF IsRow, IsFigure
        <4>2. Latest(p) = periods[p].event
          BY <3>6 DEF Latest
        <4> QED
          BY <4>1, <4>2, <3>3, <3>6, <3>8, <3>9, <3>10, <3>13 DEF Followed
      <3>15. Carries(p)
        BY <3>6, <3>9, <3>10, <3>11 DEF Carries
      <3> QED
        BY <3>14, <3>15
    <2>4. \A q \in Periods : q \notin DOMAIN dirty[s] => Untouched(q)
      <3>1. \A e \in added : e.parent \in DOMAIN dirty[s]
        BY <2>1
      <3> HIDE DEF added, rows
      <3> QED
        BY <1>4, <2>2, <3>1, NotWritten, ZenonT(60)
    <2>5. IInv'
      BY <1>1, <1>4, <2>3, <2>4, EndKeeps
    <2>6. \A q \in Periods : Carries(q)
      BY <1>1, <2>3, <2>4, UntouchedCarries
    <2> QED
      BY <2>5, <2>6
  <1>5. \/ UNCHANGED tables
        \/ /\ Accepts(events \cup added, added, rows) /\ events' = events \cup added
           /\ periods' = [q \in Periods |-> IF q \in DOMAIN rows THEN rows[q] ELSE periods[q]]
    BY <1>1, <1>2, CommitIs
  <1> QED
    BY <1>3, <1>4, <1>5


-----------------------------------------------------------------------------
(* The theorems                                                             *)

\* What migration 0021 leaves: one event for each row, of which the amount is the row's.
LEMMA InitInvariant == Init => IInv
PROOF
  <1> SUFFICES ASSUME Init PROVE IInv
    OBVIOUS
  <1>1. PICK spend \in [Recorded -> Spends] :
          /\ periods = [p \in Periods |->
                          IF p \in Recorded THEN NewRow(spend[p], Legacy(p, spend[p])) ELSE NULL]
          /\ events = {ExpectedEvent(p, 1, NoFigure, Legacy(p, spend[p]), "initial_backfill") :
                         p \in Recorded}
    BY DEF Init
  <1>2. Recorded \subseteq Periods
    BY RebateAssumption
  <1>3. Shapes
    BY <1>1 DEF Init, Shapes
  <1>4. \A s \in Sessions : InFlight(s)
    <2> SUFFICES ASSUME NEW s \in Sessions PROVE InFlight(s)
      OBVIOUS
    <2>1. pc[s] = "idle" /\ todo[s] = <<>> /\ DOMAIN loaded[s] = {} /\ DOMAIN dirty[s] = {}
      BY DEF Init
    <2>2. todo[s] \in Seq(DOMAIN loaded[s])
      BY <2>1, EmptySeq
    <2> QED
      BY <2>1, <2>2 DEF InFlight
  <1>5. Trails
    <2> SUFFICES ASSUME NEW p \in Periods
                 PROVE  /\ ChainOf(p) # {} => Shown(p)
                        /\ periods[p] # NULL => ChainOf(p) # {}
      BY DEF Trails
    <2> DEFINE EventOf(q) == ExpectedEvent(q, 1, NoFigure, Legacy(q, spend[q]), "initial_backfill")
    <2>1. \A q \in Recorded : /\ EventOf(q) \in events /\ EventOf(q).parent = q
                              /\ EventOf(q).measure = "expected_amount" /\ EventOf(q).version = 1
                              /\ EventOf(q).new = Legacy(q, spend[q])
      BY <1>1 DEF ExpectedEvent, Event
    <2>2. \A e \in events : \E q \in Recorded : e = EventOf(q)
      BY <1>1
    <2> HIDE DEF EventOf
    <2>3. CASE p \notin Recorded
      <3>1. periods[p] = NULL
        BY <1>1, <2>3
      <3>2. ChainOf(p) = {}
        BY <2>1, <2>2, <2>3 DEF ChainOf, Chain
      <3> QED
        BY <3>1, <3>2
    <2>4. CASE p \in Recorded
      <3>1. ChainOf(p) = {EventOf(p)}
        BY <2>1, <2>2, <2>4 DEF ChainOf, Chain
      <3> DEFINE row == NewRow(spend[p], Legacy(p, spend[p]))
      <3>2. /\ row.expected = Legacy(p, spend[p]) /\ row.event = 1 /\ row.source \in Sources
            /\ row = [spend |-> row.spend, source |-> row.source, expected |-> row.expected,
                      event |-> row.event, earned |-> row.earned, received |-> row.received,
                      status |-> row.status]
        BY DEF NewRow, Sources
      <3>3. periods[p] = row
        BY <1>1, <2>4
      <3> HIDE DEF row
      <3>4. IsRow(p, row)
        BY <3>2, LegacyIs DEF IsRow
      <3>5. {e.version : e \in ChainOf(p)} = 1 .. 1
        BY <2>1, <2>4, <3>1
      <3> QED
        BY <2>1, <2>4, <3>1, <3>2, <3>3, <3>4, <3>5 DEF Shown
    <2> QED
      BY <2>3, <2>4
  <1> QED
    BY <1>3, <1>4, <1>5 DEF IInv

\* Every step keeps the invariant, and takes nothing back from a row.
LEMMA StepInvariant ==
  IInv /\ [Next]_vars => IInv' /\ (periods' = periods \/ \A p \in Periods : Carries(p))
PROOF
  <1> SUFFICES ASSUME IInv, [Next]_vars
               PROVE  IInv' /\ (periods' = periods \/ \A p \in Periods : Carries(p))
    OBVIOUS
  <1>1. ASSUME UNCHANGED <<tables, session>>
        PROVE  IInv' /\ periods' = periods
    <2>1. Trails /\ Shapes /\ \A t \in Sessions : InFlight(t) /\ SameSession(t)
      BY <1>1 DEF IInv, session, SameSession
    <2>2. Trails' /\ \A p \in Periods : RowGrows(p)
      BY <1>1, <2>1, TablesStay
    <2>3. \A t \in Sessions : InFlight(t)'
      BY <2>1, <2>2, Bystander
    <2>4. Shapes'
      BY <1>1, <2>1 DEF Shapes, session, tables
    <2> QED
      BY <1>1, <2>2, <2>3, <2>4 DEF IInv, tables
  <1>2. CASE Tick \/ UNCHANGED vars
    BY <1>1, <1>2 DEF Tick, vars
  <1>3. ASSUME NEW s \in Sessions, NEW p \in Periods, NEW spend \in Spends,
               RecordPeriod(s, p, spend)
        PROVE  IInv' /\ (periods' = periods \/ \A q \in Periods : Carries(q))
    BY <1>3, RecordPeriodKeeps
  <1>4. ASSUME NEW s \in Sessions, NEW d \in Docs, StartIngest(s, d)
        PROVE  IInv' /\ periods' = periods
    BY <1>4, StartIngestKeeps DEF StartIngest, tables
  <1>5. ASSUME NEW s \in Sessions, NEW p \in Periods, RequestClose(s, p)
        PROVE  IInv' /\ periods' = periods
    <2> DEFINE r == [kind |-> "close", doc |-> NULL, period |-> p, asOf |-> today]
    <2>1. PICK q : q = r
      OBVIOUS
    <2>2. LoadPeriod(s, p, q)
      BY <1>5, <2>1 DEF RequestClose
    <2>3. q.kind = "close" /\ q.period = p
      BY <2>1
    <2>4. IInv'
      BY <2>2, <2>3, LoadPeriodKeeps
    <2> QED
      BY <2>2, <2>4 DEF LoadPeriod, tables
  <1>6. ASSUME NEW s \in Sessions, NEW p \in Periods, NEW amount \in Receipts,
               RequestReceipt(s, p, amount)
        PROVE  IInv' /\ periods' = periods
    <2> DEFINE r == [kind |-> "receipt", doc |-> NULL, period |-> p, amount |-> amount]
    <2>1. PICK q : q = r
      OBVIOUS
    <2>2. LoadPeriod(s, p, q)
      BY <1>6, <2>1 DEF RequestReceipt
    <2>3. q.kind = "receipt" /\ q.period = p /\ q.amount = amount
      BY <2>1
    <2>4. IInv'
      BY <2>2, <2>3, LoadPeriodKeeps
    <2> QED
      BY <2>2, <2>4 DEF LoadPeriod, tables
  <1>7. ASSUME NEW s \in Sessions, ReadInvoices(s) PROVE IInv' /\ periods' = periods
    BY <1>7, ReadInvoicesKeeps DEF ReadInvoices, tables
  <1>8. ASSUME NEW s \in Sessions, ReadTransactions(s) PROVE IInv' /\ periods' = periods
    BY <1>8, ReadTransactionsKeeps DEF ReadTransactions, tables
  <1>9. ASSUME NEW s \in Sessions, WriteExpected(s) PROVE IInv' /\ periods' = periods
    BY <1>9, WriteExpectedKeeps DEF WriteExpected, tables
  <1>10. ASSUME NEW s \in Sessions, CloseConflict(s) \/ DeadlockAbort(s) \/ Crash(s)
         PROVE  IInv' /\ periods' = periods
    <2>1. EndRequest(s) /\ UNCHANGED tables
      BY <1>10 DEF CloseConflict, DeadlockAbort, Crash
    <2> QED
      BY <2>1, RolledBack DEF tables
  <1> QED
    BY <1>2, <1>3, <1>4, <1>5, <1>6, <1>7, <1>8, <1>9, <1>10, IngestCommitKeeps, CloseCommitKeeps,
       ReceiptCommitKeeps
    DEF Next, Ingest, Close

\* IInv is an invariant of the rebate periods.
LEMMA Invariant == Spec => []IInv
PROOF
  <1>1. Init => IInv
    BY InitInvariant
  <1>2. IInv /\ [Next]_vars => IInv'
    BY StepInvariant
  <1> QED
    BY <1>1, <1>2, PTL DEF Spec

\* The expected amount of a period is what its agreement makes of the spend that the same
\* row shows, whatever the ingests that raced to write them had read: the chain of events
\* refuses the one that had not read the row (recalculate_expected).
THEOREM AmountsMatchSpend == Spec => []ExpectedMatchesSpend
PROOF
  <1>1. IInv => ExpectedMatchesSpend
    BY DEF IInv, Trails, Shown, IsRow, ExpectedMatchesSpend
  <1> QED
    BY <1>1, Invariant, PTL

\* A stale ingest never takes a period back to a less trusted source of its spend
\* (recalculate_affected_periods).
THEOREM SourcesOnlyImprove == Spec => SourceNeverDowngrades
PROOF
  <1>1. IInv /\ [Next]_vars =>
          [\A p \in Periods : periods[p] # NULL =>
             Rank(periods'[p].source) >= Rank(periods[p].source)]_periods
    BY StepInvariant DEF Carries
  <1> QED
    BY <1>1, Invariant, PTL DEF Spec, SourceNeverDowngrades

\* A close or a receipt is never undone by a request that read the row before it
\* (close_period, record_receipt, recalculate_expected).
THEOREM ClosesAndReceiptsStay == Spec => NothingIsUndone
PROOF
  <1>1. IInv /\ [Next]_vars =>
          [\A p \in Periods : periods[p] # NULL =>
             /\ periods[p].earned # NULL => periods'[p].earned # NULL
             /\ periods[p].received # NULL => periods'[p].received # NULL]_periods
    BY StepInvariant DEF Carries
  <1> QED
    BY <1>1, Invariant, PTL DEF Spec, NothingIsUndone

-----------------------------------------------------------------------------
(* Sums, by induction in the form of a least counterexample                 *)

\* A set of naturals has a least member.
LEMMA Least ==
  ASSUME NEW S, S \subseteq Nat, S # {}
  PROVE  \E i \in S : \A j \in S : i <= j
PROOF
  <1>1. PICK i \in S : \A j \in S : <<j, i>> \notin OpToRel(<, Nat)
    BY WFMin, NatLessThanWellFounded, Zenon
  <1>2. \A j \in S : ~(j < i)
    BY <1>1, Zenon DEF OpToRel
  <1> QED
    BY <1>2

\* Among finite sets there is one that is in the set and less no element is.
LEMMA Smallest ==
  ASSUME NEW B, B # {}, \A U \in B : IsFiniteSet(U)
  PROVE  \E U \in B : \A x \in U : U \ {x} \notin B
PROOF
  <1> DEFINE sizes == {Cardinality(U) : U \in B}
  <1>1. \A U \in B : Cardinality(U) \in Nat
    BY FS_CardinalityType
  <1>2. sizes \subseteq Nat /\ sizes # {}
    BY <1>1
  <1>3. \A U \in B : Cardinality(U) \in sizes
    OBVIOUS
  <1>4. PICK U \in B : \A V \in B : Cardinality(U) <= Cardinality(V)
    <2>1. PICK n \in sizes : \A k \in sizes : n <= k
      BY <1>2, Least
    <2> QED
      BY <1>3, <2>1
  <1>5. ASSUME NEW x \in U PROVE U \ {x} \notin B
    <2>1. Cardinality(U \ {x}) = Cardinality(U) - 1
      BY FS_RemoveElement
    <2> QED
      BY <1>1, <1>4, <2>1
  <1> QED
    BY <1>5

\* i is the first index of R at which v is greatest.
IsTop(v, R, i) == i \in R /\ \A j \in R : v[j] < v[i] \/ (v[j] = v[i] /\ i <= j)

\* Finitely many numbers have a greatest, and a first place where it is.
LEMMA TopExists ==
  ASSUME NEW n \in Nat, NEW R, R \subseteq 1 .. n, R # {}, NEW v, \A i \in R : v[i] \in Int
  PROVE  \E i \in R : IsTop(v, R, i)
PROOF
  <1> DEFINE Part(k) == R \cap (1 .. k)
             Bad     == {k \in 0 .. n : Part(k) # {} /\ ~\E i \in Part(k) : IsTop(v, Part(k), i)}
  <1> SUFFICES Bad = {}
    <2>1. R \cap (1 .. n) = R
      OBVIOUS
    <2>2. n \in 0 .. n
      OBVIOUS
    <2> QED
      BY <2>1, <2>2
  <1> SUFFICES ASSUME Bad # {} PROVE FALSE
    OBVIOUS
  <1>1. PICK k \in Bad : \A j \in Bad : k <= j
    <2>1. Bad \subseteq Nat
      OBVIOUS
    <2> HIDE DEF Bad
    <2> QED
      BY <2>1, Least
  <1>2. k \in 1 .. n /\ Part(k) # {} /\ ~\E i \in Part(k) : IsTop(v, Part(k), i)
    OBVIOUS
  <1>3. k - 1 \in 0 .. n /\ k - 1 \notin Bad
    BY <1>1, <1>2, SMTT(60)
  <1>4. Part(k - 1) = {} \/ \E i \in Part(k - 1) : IsTop(v, Part(k - 1), i)
    BY <1>3
  <1>5. Part(k) = Part(k - 1) \cup (R \cap {k})
    <2>1. 1 .. k = (1 .. (k - 1)) \cup {k}
      BY <1>2
    <2> QED
      BY <2>1
  <1>6. \A j \in Part(k - 1) : j \in Int /\ j < k /\ v[j] \in Int
    BY <1>2
  <1>7. PICK P, Q : /\ P = Part(k - 1) /\ Q = Part(k)
                    /\ \A j \in P : j \in Int /\ j < k /\ v[j] \in Int
    BY <1>6
  <1> HIDE DEF Bad, Part
  <1>8. CASE k \notin R
    BY <1>2, <1>4, <1>5, <1>7, <1>8
  <1>9. CASE k \in R
    <2>1. v[k] \in Int /\ Q = P \cup {k}
      BY <1>5, <1>7, <1>9
    <2>2. CASE P = {}
      BY <1>2, <1>7, <2>1, <2>2 DEF IsTop
    <2>3. CASE P # {}
      <3>1. PICK i \in P : IsTop(v, P, i)
        BY <1>4, <1>7, <2>3
      <3>2. CASE v[k] > v[i]
        <4>1. IsTop(v, Q, k)
          BY <1>2, <1>7, <2>1, <3>1, <3>2 DEF IsTop
        <4> QED
          BY <1>2, <1>7, <2>1, <4>1
      <3>3. CASE ~(v[k] > v[i])
        <4>1. IsTop(v, Q, i)
          BY <1>2, <1>7, <2>1, <3>1, <3>3 DEF IsTop
        <4> QED
          BY <1>2, <1>7, <2>1, <4>1
      <3> QED
        BY <3>2, <3>3
    <2> QED
      BY <2>2, <2>3
  <1> QED
    BY <1>8, <1>9

\* f sums w from 1 to each of 0 .. n.
Prefixes(w, n, f) == f = [k \in 0 .. n |-> IF k = 0 THEN 0 ELSE f[k - 1] + w[k]]

\* There is such a function.
LEMMA PrefixesExist ==
  ASSUME NEW n \in Nat, NEW w
  PROVE  \E f : Prefixes(w, n, f)
PROOF
  <1> DEFINE Bad == {k \in 0 .. n : ~\E f : Prefixes(w, k, f)}
  <1> SUFFICES ASSUME Bad # {} PROVE FALSE
    OBVIOUS
  <1>1. Bad \subseteq Nat
    OBVIOUS
  <1> HIDE DEF Bad
  <1>2. PICK k \in Bad : \A j \in Bad : k <= j
    BY <1>1, Least
  <1> USE DEF Bad
  <1>3. k \in 0 .. n /\ ~\E f : Prefixes(w, k, f)
    OBVIOUS
  <1>4. CASE k = 0
    <2>1. PICK f : f = [i \in 0 .. 0 |-> 0]
      OBVIOUS
    <2>2. Prefixes(w, 0, f)
      BY <2>1 DEF Prefixes
    <2> QED
      BY <1>3, <1>4, <2>2
  <1>5. CASE k # 0
    <2>1. k \in Int /\ 1 <= k /\ k <= n /\ k - 1 \in 0 .. n /\ k - 1 \notin Bad
      BY <1>2, <1>3, <1>5
    <2>2. PICK g : Prefixes(w, k - 1, g)
      BY <2>1
    <2> HIDE DEF Bad
    <2>3. DOMAIN g = 0 .. k - 1
          /\ \A i \in 0 .. k - 1 : g[i] = IF i = 0 THEN 0 ELSE g[i - 1] + w[i]
      BY <2>2 DEF Prefixes
    <2>4. PICK f : f = [i \in 0 .. k |-> IF i = k THEN g[k - 1] + w[k] ELSE g[i]]
      OBVIOUS
    <2>5. \A i \in 0 .. k : f[i] = IF i = 0 THEN 0 ELSE f[i - 1] + w[i]
      <3> TAKE i \in 0 .. k
      <3>1. CASE i = k
        <4>1. k - 1 \in 0 .. k /\ k - 1 # k
          BY <2>1
        <4> QED
          BY <2>1, <2>4, <3>1, <4>1
      <3>2. CASE i = 0
        BY <2>1, <2>3, <2>4, <3>2
      <3>3. CASE i # k /\ i # 0
        <4>1. i \in 0 .. k - 1 /\ i - 1 \in 0 .. k /\ i - 1 # k
          BY <2>1, <3>3
        <4> QED
          BY <2>3, <2>4, <3>3, <4>1
      <3> QED
        BY <3>1, <3>2, <3>3
    <2>6. Prefixes(w, k, f)
      BY <2>4, <2>5, Zenon DEF Prefixes
    <2> QED
      BY <1>3, <2>6
  <1> QED
    BY <1>4, <1>5

\* What no summand leads out of, no sum leads out of.
LEMMA PrefixesStay ==
  ASSUME NEW n \in Nat, NEW w, NEW f, Prefixes(w, n, f), NEW C,
         0 \in C, \A i \in 1 .. n : \A c \in C : c + w[i] \in C
  PROVE  f[n] \in C
PROOF
  <1> DEFINE Bad == {k \in 0 .. n : f[k] \notin C}
  <1> SUFFICES ASSUME Bad # {} PROVE FALSE
    OBVIOUS
  <1>1. Bad \subseteq Nat
    OBVIOUS
  <1> HIDE DEF Bad
  <1>2. PICK k \in Bad : \A j \in Bad : k <= j
    BY <1>1, Least
  <1> USE DEF Bad
  <1>3. k \in 0 .. n /\ f[k] \notin C /\ f[k] = IF k = 0 THEN 0 ELSE f[k - 1] + w[k]
    BY DEF Prefixes
  <1>4. k # 0 /\ k \in 1 .. n /\ k - 1 \in 0 .. n /\ k - 1 \notin Bad
    BY <1>2, <1>3
  <1> QED
    BY <1>3, <1>4

\* f sums w over each of the subsets of S.
Sums(w, S, f) ==
  f = [some \in SUBSET S |-> IF some = {} THEN 0
                             ELSE LET x == CHOOSE x \in some : TRUE
                                  IN  w[x] + f[some \ {x}]]

SumsUpTo(w, S, f, n) ==
  \A some \in SUBSET S :
    Cardinality(some) <= n =>
      f[some] = IF some = {} THEN 0 ELSE LET x == CHOOSE x \in some : TRUE
                                         IN  w[x] + f[some \ {x}]

\* Every weight has its sums over the subsets of a finite set.
LEMMA SumsExist ==
  ASSUME NEW w, NEW S, IsFiniteSet(S)
  PROVE  \E f : Sums(w, S, f)
PROOF
  <1> DEFINE Reach(n) == \E f : /\ DOMAIN f = SUBSET S /\ f = [some \in SUBSET S |-> f[some]]
                                /\ SumsUpTo(w, S, f, n)
             Bad == {n \in Nat : ~Reach(n)}
  <1>1. PICK size : size = Cardinality(S) /\ size \in Nat
    BY FS_CardinalityType
  <1>2. \A some \in SUBSET S : /\ Cardinality(some) \in Nat /\ Cardinality(some) <= size
                               /\ IsFiniteSet(some)
    BY <1>1, FS_Subset, FS_CardinalityType
  <1>3. Bad = {}
    <2> SUFFICES ASSUME Bad # {} PROVE FALSE
      OBVIOUS
    <2>1. Bad \subseteq Nat
      OBVIOUS
    <2> HIDE DEF Bad
    <2>2. PICK n \in Bad : \A j \in Bad : n <= j
      BY <2>1, Least
    <2>3. n \in Nat /\ ~Reach(n)
      BY DEF Bad
    <2>4. CASE n = 0
      <3>1. PICK f : f = [some \in SUBSET S |-> 0]
        OBVIOUS
      <3>2. \A some \in SUBSET S : Cardinality(some) <= 0 => some = {}
        BY <1>2, FS_EmptySet
      <3>3. SumsUpTo(w, S, f, 0)
        BY <3>1, <3>2 DEF SumsUpTo
      <3>4. Reach(0)
        BY <3>1, <3>3
      <3> QED
        BY <2>3, <2>4, <3>4
    <2>5. CASE n # 0
      <3>1. n - 1 \in Nat /\ n - 1 \notin Bad
        BY <2>2, <2>3, <2>5
      <3>2. PICK g : DOMAIN g = SUBSET S /\ SumsUpTo(w, S, g, n - 1)
        BY <3>1 DEF Bad
      <3>3. PICK f : f = [some \in SUBSET S |->
                IF Cardinality(some) <= n - 1 THEN g[some]
                ELSE LET x == CHOOSE x \in some : TRUE IN w[x] + g[some \ {x}]]
        OBVIOUS
      <3>4. SumsUpTo(w, S, f, n)
        <4> SUFFICES ASSUME NEW some \in SUBSET S, Cardinality(some) <= n
                     PROVE  f[some] = IF some = {} THEN 0 ELSE LET x == CHOOSE x \in some : TRUE
                                         IN  w[x] + f[some \ {x}]
          BY DEF SumsUpTo
        <4>1. CASE some = {}
          <5>1. Cardinality(some) <= n - 1
            BY <3>1, <4>1, FS_EmptySet
          <5>2. f[some] = g[some]
            BY <3>3, <5>1
          <5>3. g[some] = 0
            BY <3>2, <4>1, <5>1 DEF SumsUpTo
          <5> QED
            BY <4>1, <5>2, <5>3
        <4>2. CASE some # {}
          <5>1. PICK x : x = CHOOSE y \in some : TRUE
            OBVIOUS
          <5>2. x \in some /\ some \ {x} \in SUBSET S
            BY <4>2, <5>1
          <5>3. Cardinality(some \ {x}) = Cardinality(some) - 1
            BY <1>2, <5>2, FS_RemoveElement
          <5>4. Cardinality(some \ {x}) <= n - 1
            BY <1>2, <2>3, <5>3
          <5>5. f[some \ {x}] = g[some \ {x}]
            BY <3>3, <5>2, <5>4
          <5>6. f[some] = w[x] + g[some \ {x}]
            <6>1. CASE Cardinality(some) <= n - 1
              BY <3>2, <3>3, <4>2, <5>1, <6>1 DEF SumsUpTo
            <6>2. CASE ~(Cardinality(some) <= n - 1)
              BY <3>3, <5>1, <6>2
            <6> QED
              BY <6>1, <6>2
          <5> QED
            BY <4>2, <5>1, <5>5, <5>6
        <4> QED
          BY <4>1, <4>2
      <3>5. Reach(n)
        BY <3>3, <3>4
      <3> QED
        BY <2>3, <3>5
    <2> QED
      BY <2>4, <2>5
  <1>4. PICK f : f = [some \in SUBSET S |-> f[some]] /\ SumsUpTo(w, S, f, size)
    BY <1>1, <1>3
  <1>5. \A some \in SUBSET S : f[some] = IF some = {} THEN 0 ELSE LET x == CHOOSE x \in some : TRUE
                                         IN  w[x] + f[some \ {x}]
    BY <1>2, <1>4 DEF SumsUpTo
  <1>6. Sums(w, S, f)
    BY <1>4, <1>5, Zenon DEF Sums
  <1> QED
    BY <1>6

\* What no summand leads out of, no sum over a set leads out of.
LEMMA SumsStay ==
  ASSUME NEW w, NEW S, IsFiniteSet(S), NEW f, Sums(w, S, f), NEW C,
         0 \in C, \A x \in S : \A c \in C : w[x] + c \in C
  PROVE  \A some \in SUBSET S : f[some] \in C
PROOF
  <1> DEFINE Bad == {some \in SUBSET S : f[some] \notin C}
  <1> SUFFICES ASSUME Bad # {} PROVE FALSE
    OBVIOUS
  <1>1. \A some \in Bad : IsFiniteSet(some)
    BY FS_Subset
  <1> HIDE DEF Bad
  <1>2. PICK some \in Bad : \A x \in some : some \ {x} \notin Bad
    BY <1>1, Smallest
  <1>3. some \in SUBSET S /\ f[some] \notin C
    BY DEF Bad
  <1>4. some # {}
    BY <1>3 DEF Sums
  <1>5. PICK x : x = CHOOSE y \in some : TRUE
    OBVIOUS
  <1>6. x \in some /\ x \in S /\ some \ {x} \in SUBSET S
    BY <1>3, <1>4, <1>5
  <1>7. f[some] = w[x] + f[some \ {x}]
    BY <1>3, <1>4, <1>5 DEF Sums
  <1>8. f[some \ {x}] \in C
    BY <1>2, <1>6 DEF Bad
  <1> QED
    BY <1>3, <1>6, <1>7, <1>8

\* The sum over a set depends on its members only.
LEMMA SumsAgree ==
  ASSUME NEW w, NEW v, NEW S, NEW T, NEW f, NEW g, IsFiniteSet(T), T \subseteq S,
         Sums(w, S, f), Sums(v, T, g), \A x \in T : w[x] = v[x]
  PROVE  f[T] = g[T]
PROOF
  <1> DEFINE Bad == {some \in SUBSET T : f[some] # g[some]}
  <1>1. \A some \in Bad : IsFiniteSet(some)
    BY FS_Subset
  <1>2. Bad = {}
    <2> SUFFICES ASSUME Bad # {} PROVE FALSE
      OBVIOUS
    <2> HIDE DEF Bad
    <2>1. PICK some \in Bad : \A x \in some : some \ {x} \notin Bad
      BY <1>1, Smallest
    <2>2. some \in SUBSET T /\ some \in SUBSET S /\ f[some] # g[some]
      BY DEF Bad
    <2>3. some # {}
      BY <2>2 DEF Sums
    <2>4. PICK x : x = CHOOSE y \in some : TRUE
      OBVIOUS
    <2>5. x \in some /\ x \in T /\ some \ {x} \in SUBSET T
      BY <2>2, <2>3, <2>4
    <2>6. f[some] = w[x] + f[some \ {x}]
      BY <2>2, <2>3, <2>4 DEF Sums
    <2>7. g[some] = v[x] + g[some \ {x}]
      BY <2>2, <2>3, <2>4 DEF Sums
    <2>8. f[some \ {x}] = g[some \ {x}]
      BY <2>1, <2>5 DEF Bad
    <2> QED
      BY <2>2, <2>5, <2>6, <2>7, <2>8
  <1> QED
    BY <1>2

\* The order in which the members are added up does not matter.
LEMMA SumsSplit ==
  ASSUME NEW w, NEW S, IsFiniteSet(S), NEW f, Sums(w, S, f),
         \A x \in S : w[x] \in Int
  PROVE  \A x \in S : f[S] = w[x] + f[S \ {x}]
PROOF
  <1> DEFINE Bad == {some \in SUBSET S : \E x \in some : f[some] # w[x] + f[some \ {x}]}
  <1>0. \A some \in SUBSET S : f[some] \in Int
    <2>1. PICK C : C = Int
      OBVIOUS
    <2>2. 0 \in C /\ \A x \in S : \A c \in C : w[x] + c \in C
      BY <2>1
    <2>3. \A some \in SUBSET S : f[some] \in C
      BY <2>2, SumsStay
    <2> QED
      BY <2>1, <2>3
  <1>1. \A some \in Bad : IsFiniteSet(some)
    BY FS_Subset
  <1>2. Bad = {}
    <2> SUFFICES ASSUME Bad # {} PROVE FALSE
      OBVIOUS
    <2> HIDE DEF Bad
    <2>1. PICK some \in Bad : \A x \in some : some \ {x} \notin Bad
      BY <1>1, Smallest
    <2>2. some \in SUBSET S
      BY DEF Bad
    <2>3. PICK x \in some : f[some] # w[x] + f[some \ {x}]
      BY DEF Bad
    <2>4. PICK y : y = CHOOSE z \in some : TRUE
      OBVIOUS
    <2>5. y \in some /\ f[some] = w[y] + f[some \ {y}]
      BY <2>2, <2>3, <2>4 DEF Sums
    <2>6. y # x
      BY <2>3, <2>5
    <2>7. PICK A, B, D : A = some \ {x} /\ B = some \ {y} /\ D = (some \ {x}) \ {y}
      OBVIOUS
    <2>8. /\ A \in SUBSET S /\ B \in SUBSET S /\ D \in SUBSET S
          /\ y \in A /\ x \in B /\ D = A \ {y} /\ D = B \ {x} /\ A \notin Bad /\ B \notin Bad
      BY <2>1, <2>2, <2>5, <2>6, <2>7
    <2>9. f[A] = w[y] + f[D] /\ f[B] = w[x] + f[D]
      BY <2>8 DEF Bad
    <2>10. f[D] \in Int /\ w[x] \in Int /\ w[y] \in Int
      BY <1>0, <2>2, <2>3, <2>5, <2>8
    <2>11. f[some] = w[y] + f[B] /\ f[some] # w[x] + f[A]
      BY <2>3, <2>5, <2>7
    <2> QED
      BY <2>9, <2>10, <2>11
  <1> QED
    BY <1>2

-----------------------------------------------------------------------------
(* Spend                                                                    *)

\* What the row of a document adds to the spend of a period.
RowIn(rows, start, end, n) == IF rows[n][1] \in start .. end THEN rows[n][2] ELSE 0

\* The spend of a document in a period is the last of the prefix sums of its rows.
LEMMA SpendWithinIs ==
  ASSUME NEW rows, Len(rows) \in Nat, NEW start, NEW end
  PROVE  \E w, f : /\ Prefixes(w, Len(rows), f) /\ Calc!SpendWithin(rows, start, end) = f[Len(rows)]
                   /\ \A n \in 1 .. Len(rows) : w[n] = RowIn(rows, start, end, n)
PROOF
  <1> DEFINE w == [n \in 1 .. Len(rows) |-> RowIn(rows, start, end, n)]
             Equation(f) == f = [n \in 0 .. Len(rows) |->
                                   IF n = 0 THEN 0
                                   ELSE f[n - 1] + (IF rows[n][1] \in start .. end
                                                      THEN rows[n][2] ELSE 0)]
  <1>1. Calc!SpendWithin(rows, start, end) = (CHOOSE f : Equation(f))[Len(rows)]
    BY DEF Calc!SpendWithin
  <1>2. ASSUME NEW f PROVE Equation(f) <=> Prefixes(w, Len(rows), f)
    <2> DEFINE left  == [n \in 0 .. Len(rows) |->
                                   IF n = 0 THEN 0
                                   ELSE f[n - 1] + (IF rows[n][1] \in start .. end
                                                      THEN rows[n][2] ELSE 0)]
               right == [n \in 0 .. Len(rows) |-> IF n = 0 THEN 0 ELSE f[n - 1] + w[n]]
    <2>1. \A n \in 0 .. Len(rows) : left[n] = right[n]
      BY DEF RowIn
    <2>2. left = right
      BY <2>1
    <2>3. Equation(f) <=> f = left
      OBVIOUS
    <2>4. Prefixes(w, Len(rows), f) <=> f = right
      BY DEF Prefixes
    <2> HIDE DEF left, right, Equation, w
    <2> QED
      BY <2>2, <2>3, <2>4
  <1>3. \A n \in 1 .. Len(rows) : w[n] = RowIn(rows, start, end, n)
    OBVIOUS
  <1> HIDE DEF w, Equation
  <1>4. PICK f : f = CHOOSE g : Equation(g)
    OBVIOUS
  <1>5. Equation(f)
    <2>1. \E g : Equation(g)
      BY <1>2, PrefixesExist
    <2> QED
      BY <1>4, <2>1, Zenon
  <1> QED
    BY <1>1, <1>2, <1>3, <1>4, <1>5

\* The spend of a document is an amount.
LEMMA SpendWithinType ==
  ASSUME NEW d \in Docs, NEW start, NEW end
  PROVE  Calc!SpendWithin(RowsOf[d], start, end) \in Int
PROOF
  <1>1. PICK rows : rows = RowsOf[d] /\ rows \in Seq(Int \X Int)
    BY RebateAssumption
  <1>2. Len(rows) \in Nat /\ \A n \in 1 .. Len(rows) : rows[n][2] \in Int
    <2>1. Len(rows) \in Nat /\ \A n \in 1 .. Len(rows) : rows[n] \in Int \X Int
      BY <1>1, LenProperties, ElementOfSeq
    <2> QED
      BY <2>1
  <1>3. PICK w, f : /\ Prefixes(w, Len(rows), f) /\ Calc!SpendWithin(rows, start, end) = f[Len(rows)]
                    /\ \A n \in 1 .. Len(rows) : w[n] = RowIn(rows, start, end, n)
    BY <1>2, SpendWithinIs
  <1>4. PICK C : C = Int
    OBVIOUS
  <1>5. 0 \in C /\ \A n \in 1 .. Len(rows) : \A c \in C : c + w[n] \in C
    BY <1>2, <1>3, <1>4 DEF RowIn
  <1>6. f[Len(rows)] \in C
    BY <1>2, <1>3, <1>5, PrefixesStay
  <1> QED
    BY <1>1, <1>3, <1>4, <1>6

\* A document without a row in a period spends nothing in it.
LEMMA SpendOutside ==
  ASSUME NEW d \in Docs, NEW p \in Periods, ~Dated(p, {d})
  PROVE  Calc!SpendWithin(RowsOf[d], StartOf[p], EndOf[p]) = 0
PROOF
  <1>1. PICK rows, start, end : /\ rows = RowsOf[d] /\ rows \in Seq(Int \X Int)
                                /\ start = StartOf[p] /\ end = EndOf[p]
                                /\ start \in Int /\ end \in Int
    BY RebateAssumption
  <1>2. Len(rows) \in Nat /\ DOMAIN rows = 1 .. Len(rows)
        /\ \A n \in 1 .. Len(rows) : rows[n][1] \in Int
    <2>1. Len(rows) \in Nat /\ \A n \in 1 .. Len(rows) : rows[n] \in Int \X Int
      BY <1>1, LenProperties, ElementOfSeq
    <2> QED
      BY <1>1, <2>1
  <1>3. \A n \in 1 .. Len(rows) : rows[n][1] \notin start .. end
    BY <1>1, <1>2 DEF Dated, DatesOf
  <1>4. PICK w, f : /\ Prefixes(w, Len(rows), f) /\ Calc!SpendWithin(rows, start, end) = f[Len(rows)]
                    /\ \A n \in 1 .. Len(rows) : w[n] = RowIn(rows, start, end, n)
    BY <1>2, SpendWithinIs
  <1>5. \A n \in 1 .. Len(rows) : \A c \in {0} : c + w[n] \in {0}
    BY <1>3, <1>4 DEF RowIn
  <1>6. f[Len(rows)] \in {0}
    BY <1>2, <1>4, <1>5, PrefixesStay
  <1> QED
    BY <1>1, <1>4, <1>6

\* The spend of a period in each of the documents.
SpendsIn(p, docs, w) ==
  \A d \in docs : w[d] = Calc!SpendWithin(RowsOf[d], StartOf[p], EndOf[p])

\* The spend of a period in some documents is the sum over them.
LEMMA SpendOfIs ==
  ASSUME NEW p, NEW docs, IsFiniteSet(docs)
  PROVE  \E w, f : Sums(w, docs, f) /\ SpendsIn(p, docs, w) /\ SpendOf(p, docs) = f[docs]
PROOF
  <1> DEFINE w == [d \in docs |-> Calc!SpendWithin(RowsOf[d], StartOf[p], EndOf[p])]
             Equation(f) == f = [some \in SUBSET docs |->
                IF some = {} THEN 0
                ELSE LET d == CHOOSE x \in some : TRUE
                     IN  Calc!SpendWithin(RowsOf[d], StartOf[p], EndOf[p]) + f[some \ {d}]]
  <1>1. SpendOf(p, docs) = (CHOOSE f : Equation(f))[docs]
    BY DEF SpendOf, MapThenSumSet, MapThenFoldSet
  <1>2. ASSUME NEW f PROVE Equation(f) <=> Sums(w, docs, f)
    <2> DEFINE left  == [some \in SUBSET docs |->
                IF some = {} THEN 0
                ELSE LET d == CHOOSE x \in some : TRUE
                     IN  Calc!SpendWithin(RowsOf[d], StartOf[p], EndOf[p]) + f[some \ {d}]]
               right == [some \in SUBSET docs |-> IF some = {} THEN 0
                             ELSE LET x == CHOOSE x \in some : TRUE
                                  IN  w[x] + f[some \ {x}]]
    <2>1. \A some \in SUBSET docs : left[some] = right[some]
      <3> TAKE some \in SUBSET docs
      <3>1. CASE some = {}
        BY <3>1
      <3>2. CASE some # {}
        <4>1. PICK x : x = CHOOSE y \in some : TRUE
          OBVIOUS
        <4>2. x \in docs /\ w[x] = Calc!SpendWithin(RowsOf[x], StartOf[p], EndOf[p])
          BY <3>2, <4>1
        <4>3. left[some] = Calc!SpendWithin(RowsOf[x], StartOf[p], EndOf[p]) + f[some \ {x}]
          BY <3>2, <4>1
        <4>4. right[some] = w[x] + f[some \ {x}]
          BY <3>2, <4>1
        <4> QED
          BY <4>2, <4>3, <4>4
      <3> QED
        BY <3>1, <3>2
    <2>2. left = right
      BY <2>1
    <2>3. Equation(f) <=> f = left
      OBVIOUS
    <2>4. Sums(w, docs, f) <=> f = right
      BY DEF Sums
    <2> HIDE DEF left, right, Equation, w
    <2> QED
      BY <2>2, <2>3, <2>4
  <1>3. SpendsIn(p, docs, w)
    BY DEF SpendsIn
  <1> HIDE DEF w, Equation
  <1>4. PICK f : f = CHOOSE g : Equation(g)
    OBVIOUS
  <1>5. Equation(f)
    <2>1. \E g : Equation(g)
      BY <1>2, SumsExist
    <2> QED
      BY <1>4, <2>1, Zenon
  <1> QED
    BY <1>1, <1>2, <1>3, <1>4, <1>5

\* The spend of a period is an amount.
LEMMA SpendOfType ==
  ASSUME NEW p, NEW docs, docs \subseteq Docs
  PROVE  SpendOf(p, docs) \in Int
PROOF
  <1>1. IsFiniteSet(docs)
    BY FS_Subset, RebateAssumption
  <1>2. PICK w, f : Sums(w, docs, f) /\ SpendsIn(p, docs, w) /\ SpendOf(p, docs) = f[docs]
    BY <1>1, SpendOfIs
  <1>3. \A d \in docs : w[d] \in Int
    BY <1>2, SpendWithinType DEF SpendsIn
  <1>4. PICK C : C = Int
    OBVIOUS
  <1>5. 0 \in C /\ \A d \in docs : \A c \in C : w[d] + c \in C
    BY <1>3, <1>4
  <1>6. f[docs] \in C
    BY <1>1, <1>2, <1>5, SumsStay
  <1> QED
    BY <1>2, <1>4, <1>6

\* One more document adds its own spend.
LEMMA SpendOfOneMore ==
  ASSUME NEW p, NEW docs, docs \subseteq Docs, NEW d \in Docs, d \notin docs
  PROVE  SpendOf(p, docs \cup {d})
           = Calc!SpendWithin(RowsOf[d], StartOf[p], EndOf[p]) + SpendOf(p, docs)
PROOF
  <1>1. PICK more : more = docs \cup {d}
    OBVIOUS
  <1>2. more \subseteq Docs /\ docs \subseteq more /\ more \ {d} = docs /\ d \in more
    BY <1>1
  <1>3. IsFiniteSet(docs) /\ IsFiniteSet(more)
    BY <1>2, FS_Subset, RebateAssumption
  <1>4. PICK w, f : Sums(w, docs, f) /\ SpendsIn(p, docs, w) /\ SpendOf(p, docs) = f[docs]
    BY <1>3, SpendOfIs
  <1>5. PICK v, g : Sums(v, more, g) /\ SpendsIn(p, more, v) /\ SpendOf(p, more) = g[more]
    BY <1>3, SpendOfIs
  <1>6. \A x \in more : v[x] \in Int
    BY <1>2, <1>5, SpendWithinType DEF SpendsIn
  <1>7. g[more] = v[d] + g[docs]
    BY <1>2, <1>3, <1>5, <1>6, SumsSplit
  <1>8. g[docs] = f[docs]
    <2>1. \A x \in docs : v[x] = w[x]
      BY <1>2, <1>4, <1>5 DEF SpendsIn
    <2> QED
      BY <1>2, <1>3, <1>4, <1>5, <2>1, SumsAgree
  <1> QED
    BY <1>1, <1>2, <1>4, <1>5, <1>7, <1>8 DEF SpendsIn

-----------------------------------------------------------------------------
(* Expected amounts                                                         *)

BandSeqs == Seq([threshold : Int, rate : Int])

\* Rounding makes an integer of an integer.
LEMMA AtRateType ==
  ASSUME NEW spend \in Int, NEW rate \in Int
  PROVE  Calc!AtRate(spend, rate) \in Int
PROOF
  <1>1. PICK n : n = spend * rate /\ n \in Int
    OBVIOUS
  <1>2. n \div 10000 \in Int
    BY <1>1
  <1> QED
    BY <1>1, <1>2 DEF Calc!AtRate, Calc!RoundHalfEven, Calc!RateUnit

\* calculate_expected_rebate pays at a rate of the agreement.
LEMMA BestBandType ==
  ASSUME NEW bands \in BandSeqs, NEW spend \in Int, Calc!Reached(spend, bands) # {}
  PROVE  Calc!BestBand(spend, bands).rate \in Int
PROOF
  <1> DEFINE v == [i \in DOMAIN bands |-> bands[i].threshold]
             R == Calc!Reached(spend, bands)
  <1>1. /\ Len(bands) \in Nat /\ DOMAIN bands = 1 .. Len(bands)
        /\ bands \in [1 .. Len(bands) -> [threshold : Int, rate : Int]]
    BY LenProperties DEF BandSeqs
  <1>2. /\ R \subseteq 1 .. Len(bands)
        /\ \A i \in R : v[i] = bands[i].threshold /\ v[i] \in Int
    BY <1>1 DEF Calc!Reached
  <1> HIDE DEF v
  <1>3. PICK i \in R : IsTop(v, R, i)
    <2> HIDE DEF R
    <2> QED
      BY <1>1, <1>2, TopExists DEF R
  <1>4. \A j \in R : bands[j].threshold < bands[i].threshold
                     \/ (bands[j].threshold = bands[i].threshold /\ i <= j)
    BY <1>2, <1>3 DEF IsTop
  <1>5. PICK best : best = CHOOSE k \in R : \A j \in R :
                             \/ bands[j].threshold < bands[k].threshold
                             \/ bands[j].threshold = bands[k].threshold /\ k <= j
    OBVIOUS
  <1>6. best \in R
    <2> HIDE DEF R
    <2> QED
      BY <1>3, <1>4, <1>5, Zenon
  <1>7. Calc!BestBand(spend, bands) = bands[best]
    BY <1>5, Zenon DEF Calc!BestBand
  <1> QED
    BY <1>1, <1>2, <1>6, <1>7

\* What an agreement makes of a spend is an amount.
LEMMA ExpectedRebateType ==
  ASSUME NEW p \in Periods, NEW spend \in Int
  PROVE  Calc!ExpectedRebate(spend, Terms[p]) \in Int
PROOF
  <1>1. PICK t : t = Terms[p]
    OBVIOUS
  <1>2. CASE t.type \in {"fixed_percentage", "volume", "growth"} /\ t.rate \in Int
    <2>1. Calc!ExpectedRebate(spend, t) = Calc!AtRate(spend, t.rate)
      BY <1>2 DEF Calc!ExpectedRebate, Calc!FlatTypes, Calc!BandedTypes
    <2> QED
      BY <1>1, <1>2, <2>1, AtRateType
  <1>3. CASE t.type \in {"tiered", "retrospective"} /\ t.bands \in BandSeqs
    <2>1. Calc!ExpectedRebate(spend, t) =
            IF Calc!Reached(spend, t.bands) = {} THEN 0
            ELSE Calc!AtRate(spend, Calc!BestBand(spend, t.bands).rate)
      BY <1>3 DEF Calc!ExpectedRebate, Calc!FlatTypes, Calc!BandedTypes
    <2>2. Calc!Reached(spend, t.bands) # {} =>
            Calc!AtRate(spend, Calc!BestBand(spend, t.bands).rate) \in Int
      BY <1>3, BestBandType, AtRateType
    <2> QED
      BY <1>1, <2>1, <2>2
  <1>4. CASE t.type = "fixed_amount" /\ t.fixed \in Int
    <2>1. Calc!ExpectedRebate(spend, t) = t.fixed
      BY <1>4 DEF Calc!ExpectedRebate, Calc!FlatTypes, Calc!BandedTypes
    <2> QED
      BY <1>1, <1>4, <2>1
  <1> QED
    BY <1>1, <1>2, <1>3, <1>4, TermsAssumption DEF BandSeqs

-----------------------------------------------------------------------------
(* Types                                                                    *)

EventRows ==
  [parent : Periods, measure : {"expected_amount"}, version : Nat \ {0},
   old : Figures \cup {NoFigure}, new : Figures, reason : Reasons, evidence : {{}}]

TablesOK ==
  /\ periods \in [Periods -> Rows \cup {NULL}]
  /\ events \subseteq EventRows
  /\ documents \subseteq Docs

SessionOK ==
  /\ pc \in [Sessions -> {"idle", "aggregate", "no_invoices", "write", "close", "receipt"}]
  /\ request \in [Sessions -> Requests \cup {NULL}]
  /\ todo \in [Sessions -> Seq(Periods)]
  /\ DOMAIN loaded = Sessions /\ DOMAIN dirty = Sessions
  /\ \A s \in Sessions : IsIdentityMap(loaded[s]) /\ IsIdentityMap(dirty[s])

\* A period with events has a row.
Present == \A p \in Periods : ChainOf(p) # {} => periods[p] # NULL

\* An ingest has its document.
Ingesting == \A s \in Sessions : pc[s] \in {"aggregate", "no_invoices", "write"} => request[s].doc \in Docs

TypeInv == TypeOK /\ Present /\ Ingesting

\* The parts of the type invariant.
LEMMA TypeParts ==
  TypeOK <=> /\ TablesOK /\ SessionOK /\ today \in FirstDay .. LastDay
             /\ rowLock \in [Periods -> Sessions \cup {NULL}]
PROOF
  BY DEF TypeOK, TablesOK, SessionOK, EventRows

\* A flush writes each column from one of three rows.
LEMMA FlushRowType ==
  ASSUME NEW r \in Rows, NEW c \in Rows, NEW n \in Rows
  PROVE  FlushRow(r, c, n) \in Rows
PROOF
  <1>1. FlushFigure(r.expected, c.expected, n.expected) \in Figures
    <2>1. PICK f, g, h : /\ f = r.expected /\ g = c.expected /\ h = n.expected
                         /\ f \in Figures /\ h \in Figures
      BY DEF Rows
    <2>2. FlushFigure(f, g, h) \in Figures
      BY <2>1 DEF FlushFigure, Column, Figures
    <2> QED
      BY <2>1, <2>2
  <1>2. /\ Column(r.spend, c.spend, n.spend) \in Int
        /\ Column(r.source, c.source, n.source) \in Sources
        /\ Column(r.event, c.event, n.event) \in Nat
        /\ Column(r.earned, c.earned, n.earned) \in Amounts
        /\ Column(r.received, c.received, n.received) \in Amounts
        /\ Column(r.status, c.status, n.status) \in WorkflowStatuses
    BY DEF Column, Rows
  <1> QED
    BY <1>1, <1>2 DEF FlushRow, Rows

\* What recalculate_expected assigns is a figure.
LEMMA CalculatedType ==
  ASSUME NEW p \in Periods, NEW spend \in Int, NEW v \in Nat
  PROVE  Calculated(p, spend, v) \in Figures
PROOF
  <1>1. PICK a : a = Calc!ExpectedRebate(spend, Terms[p]) /\ a \in Int
    BY ExpectedRebateType
  <1>2. Calculated(p, spend, v) = Unapproved(a, "calculated", "contract_terms_calculation", v)
    BY <1>1, CalculatedIs
  <1> QED
    BY <1>1, <1>2 DEF Unapproved, Figures, Amounts

\* What migration 0021 finds is a figure.
LEMMA LegacyType ==
  ASSUME NEW p \in Periods, NEW spend \in Int
  PROVE  Legacy(p, spend) \in Figures
PROOF
  <1>1. PICK a : a = Calc!ExpectedRebate(spend, Terms[p]) /\ a \in Int
    BY ExpectedRebateType
  <1>2. Legacy(p, spend) = Unapproved(a, "legacy_unverified", NULL, NULL)
    BY <1>1, LegacyIs
  <1> QED
    BY <1>1, <1>2 DEF Unapproved, Figures, Amounts

\* A new period has a row of the type.
LEMMA NewRowType ==
  ASSUME NEW spend \in Int, NEW f \in Figures
  PROVE  NewRow(spend, f) \in Rows
PROOF
  BY DEF NewRow, Rows, Sources, Amounts, WorkflowStatuses

\* _refresh_status assigns one of the statuses of a period.
LEMMA RefreshedStatusType ==
  ASSUME NEW row, NEW closed \in BOOLEAN, row.status \in WorkflowStatuses, row.received \in Amounts,
         row.expected.status \in {"legacy_unverified", "calculated"},
         row.expected.status = "calculated" => row.expected.amount \in Int
  PROVE  RefreshedStatus(row, closed) \in WorkflowStatuses
PROOF
  <1>1. CASE row.expected.status = "legacy_unverified"
    BY <1>1 DEF RefreshedStatus
  <1>2. CASE row.expected.status = "calculated"
    <2>1. PICK a, r : a = row.expected.amount /\ r = row.received /\ a \in Int /\ r \in Amounts
      BY <1>2
    <2>2. Calc!Classify(a, r, closed, FALSE) \in WorkflowStatuses
      <3>1. CASE r = NULL
        BY <3>1 DEF Calc!Classify, WorkflowStatuses
      <3>2. CASE r # NULL
        <4>1. r \in Int
          BY <2>1, <3>2 DEF Amounts
        <4>2. Calc!Leakage(a, r) \in Int
          BY <2>1, <3>2, <4>1 DEF Calc!Leakage
        <4>3. Calc!Leakage(a, r) <= 1 \/ Calc!Leakage(a, r) > 1
          BY <4>2
        <4> QED
          BY <3>2, <4>3 DEF Calc!Classify, WorkflowStatuses
      <3> QED
        BY <3>1, <3>2
    <2> QED
      BY <1>2, <2>1, <2>2 DEF RefreshedStatus
  <1> QED
    BY <1>1, <1>2

-----------------------------------------------------------------------------
\* What a transaction commits has its types.
LEMMA CommitType ==
  ASSUME TablesOK, Present, NEW rows, NEW added, NEW docs, Commit(rows, added, docs),
         DOMAIN rows \subseteq Periods, \A p \in DOMAIN rows : rows[p] \in Rows,
         added \subseteq EventRows, \A e \in added : e.parent \in DOMAIN rows, docs \subseteq Docs
  PROVE  TablesOK' /\ Present'
PROOF
  <1>1. CASE UNCHANGED tables
    BY <1>1 DEF tables, TablesOK, Present, ChainOf
  <1>2. CASE ~ UNCHANGED tables
    <2>1. /\ periods' = [p \in Periods |-> IF p \in DOMAIN rows THEN rows[p] ELSE periods[p]]
          /\ events' = events \cup added /\ documents' = documents \cup docs
      BY <1>2 DEF Commit
    <2>2. TablesOK'
      BY <2>1 DEF TablesOK
    <2>3. ASSUME NEW p \in Periods, ChainOf(p)' # {} PROVE periods'[p] # NULL
      <3>1. CASE p \in DOMAIN rows
        BY <2>1, <3>1, RowAssumption
      <3>2. CASE p \notin DOMAIN rows
        <4>1. ChainOf(p) # {}
          BY <2>1, <2>3, <3>2 DEF ChainOf, Chain
        <4> QED
          BY <2>1, <3>2, <4>1 DEF Present
      <3> QED
        BY <3>1, <3>2
    <2> QED
      BY <2>2, <2>3 DEF Present
  <1> QED
    BY <1>1, <1>2

\* A session that ends has its types.
LEMMA EndRequestType ==
  ASSUME TypeInv, NEW s \in Sessions, EndRequest(s), TablesOK', Present'
  PROVE  TypeInv'
PROOF
  <1>1. /\ pc' = [pc EXCEPT ![s] = "idle"] /\ request' = [request EXCEPT ![s] = NULL]
        /\ todo' = [todo EXCEPT ![s] = <<>>] /\ loaded' = [loaded EXCEPT ![s] = <<>>]
        /\ dirty' = [dirty EXCEPT ![s] = <<>>]
        /\ rowLock' = [p \in Periods |-> IF rowLock[p] = s THEN NULL ELSE rowLock[p]]
        /\ today' = today
    BY DEF EndRequest, ClearSession
  <1>2. /\ SessionOK /\ today \in FirstDay .. LastDay
        /\ rowLock \in [Periods -> Sessions \cup {NULL}] /\ Ingesting
    BY TypeParts DEF TypeInv
  <1>3. IsIdentityMap(<<>>)
    BY DEF IsIdentityMap
  <1>4. <<>> \in Seq(Periods)
    OBVIOUS
  <1>5. \A t \in Sessions : IsIdentityMap(loaded'[t]) /\ IsIdentityMap(dirty'[t])
    BY <1>1, <1>2, <1>3 DEF SessionOK
  <1>6. SessionOK'
    BY <1>1, <1>2, <1>4, <1>5 DEF SessionOK, IsIdentityMap
  <1>7. rowLock' \in [Periods -> Sessions \cup {NULL}]
    BY <1>1, <1>2
  <1>8. Ingesting'
    BY <1>1, <1>2 DEF Ingesting, SessionOK
  <1>9. (TablesOK /\ SessionOK /\ today \in FirstDay .. LastDay
         /\ rowLock \in [Periods -> Sessions \cup {NULL}])'
    BY <1>1, <1>2, <1>6, <1>7
  <1>10. TypeOK'
    BY <1>9, TypeParts, PTL
  <1> QED
    BY <1>8, <1>10 DEF TypeInv

\* A step of one session that gives its variables values of their types.
LEMMA OneSession ==
  ASSUME TypeInv, NEW s \in Sessions, UNCHANGED <<tables, today>>,
         rowLock' \in [Periods -> Sessions \cup {NULL}],
         NEW a, a \in {"idle", "aggregate", "no_invoices", "write", "close", "receipt"},
         NEW r, r \in Requests \cup {NULL}, NEW o, o \in Seq(Periods),
         NEW l, IsIdentityMap(l), NEW d, IsIdentityMap(d),
         a \in {"aggregate", "no_invoices", "write"} => r.doc \in Docs,
         pc' = [pc EXCEPT ![s] = a], request' = [request EXCEPT ![s] = r],
         todo' = [todo EXCEPT ![s] = o], loaded' = [loaded EXCEPT ![s] = l],
         dirty' = [dirty EXCEPT ![s] = d]
  PROVE  TypeInv'
PROOF
  <1>1. SessionOK /\ Ingesting /\ TablesOK /\ Present /\ today \in FirstDay .. LastDay
    BY TypeParts DEF TypeInv
  <1>2. \A t \in Sessions : IsIdentityMap(loaded'[t]) /\ IsIdentityMap(dirty'[t])
    BY <1>1 DEF SessionOK
  <1>3. SessionOK'
    BY <1>1, <1>2 DEF SessionOK, IsIdentityMap
  <1>4. Ingesting'
    BY <1>1 DEF Ingesting, SessionOK
  <1>5. TablesOK' /\ Present'
    BY <1>1 DEF tables, TablesOK, Present, ChainOf
  <1>6. (TablesOK /\ SessionOK /\ today \in FirstDay .. LastDay
         /\ rowLock \in [Periods -> Sessions \cup {NULL}])'
    BY <1>1, <1>3, <1>5
  <1>7. TypeOK'
    BY <1>6, TypeParts, PTL
  <1> QED
    BY <1>4, <1>5, <1>7 DEF TypeInv

\* The shapes that IInv and the types give the variables of a session.
LEMMA SessionHas ==
  ASSUME TypeInv, NEW s \in Sessions
  PROVE  /\ pc[s] \in {"idle", "aggregate", "no_invoices", "write", "close", "receipt"}
         /\ request[s] \in Requests \cup {NULL} /\ todo[s] \in Seq(Periods)
         /\ IsIdentityMap(loaded[s]) /\ IsIdentityMap(dirty[s])
         /\ pc = [pc EXCEPT ![s] = pc[s]] /\ request = [request EXCEPT ![s] = request[s]]
         /\ todo = [todo EXCEPT ![s] = todo[s]]
         /\ pc[s] \in {"aggregate", "no_invoices", "write"} => request[s].doc \in Docs
         /\ rowLock \in [Periods -> Sessions \cup {NULL}]
PROOF
  <1>1. SessionOK /\ Ingesting /\ rowLock \in [Periods -> Sessions \cup {NULL}]
    BY TypeParts DEF TypeInv
  <1> QED
    BY <1>1 DEF SessionOK, Ingesting

\* The maps stay what they are.
LEMMA MapsHave ==
  ASSUME TypeInv, IInv, NEW s \in Sessions
  PROVE  loaded = [loaded EXCEPT ![s] = loaded[s]] /\ dirty = [dirty EXCEPT ![s] = dirty[s]]
PROOF
  BY DEF IInv, Shapes

\* The row of a period that has one.
LEMMA RowOf ==
  ASSUME TypeInv, NEW p \in Periods, periods[p] # NULL
  PROVE  periods[p] \in Rows
PROOF
  BY DEF TypeInv, TypeOK

\* A session that leaves its request, its todo and the rows that it loaded alone.
LEMMA OneMap ==
  ASSUME TypeInv, IInv, NEW s \in Sessions, NEW a, NEW d,
         UNCHANGED <<tables, today, rowLock, request, todo, loaded>>,
         a \in {"idle", "aggregate", "no_invoices", "write", "close", "receipt"},
         request[s].doc \in Docs, IsIdentityMap(d),
         pc' = [pc EXCEPT ![s] = a], dirty' = [dirty EXCEPT ![s] = d]
  PROVE  TypeInv'
PROOF
  <1>1. SessionOK /\ Ingesting /\ TablesOK /\ Present /\ today \in FirstDay .. LastDay
        /\ rowLock \in [Periods -> Sessions \cup {NULL}]
    BY TypeParts DEF TypeInv
  <1>2. \A t \in Sessions : IsIdentityMap(loaded'[t]) /\ IsIdentityMap(dirty'[t])
    BY <1>1 DEF SessionOK
  <1>3. SessionOK'
    BY <1>1, <1>2 DEF SessionOK, IsIdentityMap
  <1>4. Ingesting'
    BY <1>1 DEF Ingesting, SessionOK
  <1>5. TablesOK' /\ Present'
    BY <1>1 DEF tables, TablesOK, Present, ChainOf
  <1>6. (TablesOK /\ SessionOK /\ today \in FirstDay .. LastDay
         /\ rowLock \in [Periods -> Sessions \cup {NULL}])'
    BY <1>1, <1>3, <1>5
  <1>7. TypeOK'
    BY <1>6, TypeParts, PTL
  <1> QED
    BY <1>4, <1>5, <1>7 DEF TypeInv

\* An ingest starts with its document and the rows it found.
LEMMA StartIngestType ==
  ASSUME TypeInv, IInv, NEW s \in Sessions, NEW d \in Docs, StartIngest(s, d)
  PROVE  TypeInv'
PROOF
  <1> DEFINE found == {p \in Overlapping(d) : periods[p] # NULL /\ periods[p].earned = NULL}
  <1>1. PICK order \in [1 .. Cardinality(found) -> found] : todo' = [todo EXCEPT ![s] = order]
    BY DEF StartIngest
  <1>2. PICK l, r : l = [p \in found |-> periods[p]] /\ r = [kind |-> "ingest", doc |-> d]
    OBVIOUS
  <1>3. found \subseteq Periods /\ \A p \in found : periods[p] \in Rows
    BY RowOf DEF Overlapping
  <1>4. /\ pc' = [pc EXCEPT ![s] = "aggregate"] /\ request' = [request EXCEPT ![s] = r]
        /\ loaded' = [loaded EXCEPT ![s] = l]
        /\ UNCHANGED <<tables, today, rowLock, dirty>>
    BY <1>2 DEF StartIngest
  <1> HIDE DEF found
  <1>5. order \in Seq(Periods)
    <2>1. IsFiniteSet(found)
      BY <1>3, FS_Subset, RebateAssumption
    <2>2. Cardinality(found) \in Nat
      BY <2>1, FS_CardinalityType
    <2>3. order \in [1 .. Cardinality(found) -> Periods]
      BY <1>1, <1>3
    <2> QED
      BY <2>2, <2>3, SeqDef
  <1>6. IsIdentityMap(l)
    BY <1>2, <1>3 DEF IsIdentityMap
  <1>7. r \in Requests /\ r.doc \in Docs
    BY <1>2 DEF Requests
  <1>8. dirty' = [dirty EXCEPT ![s] = dirty[s]] /\ IsIdentityMap(dirty[s])
        /\ rowLock' \in [Periods -> Sessions \cup {NULL}]
    BY <1>4, MapsHave, SessionHas
  <1> QED
    BY <1>1, <1>4, <1>5, <1>6, <1>7, <1>8, OneSession

\* The copy of a period gets a whole number for its spend.
LEMMA AggregateType ==
  ASSUME TypeInv, IInv, NEW s \in Sessions, NEW source \in Sources, NEW docs, docs \subseteq Docs,
         todo[s] # <<>>, Aggregate(s, Head(todo[s]), source, docs),
         pc[s] \in {"aggregate", "no_invoices"},
         UNCHANGED <<tables, today, rowLock, request, todo, loaded>>
  PROVE  TypeInv'
PROOF
  <1>1. PICK p : p = Head(todo[s])
    OBVIOUS
  <1>2. p \in DOMAIN loaded[s]
    BY <1>1 DEF IInv, InFlight
  <1>3. PICK l : l = loaded[s][p]
    OBVIOUS
  <1>4. l \in Rows /\ p \in Periods /\ IsIdentityMap(dirty[s])
    BY <1>2, <1>3, SessionHas DEF IsIdentityMap
  <1>5. PICK total : total = SpendOf(p, docs) /\ total \in Int
    BY SpendOfType
  <1>6. PICK n : n = [l EXCEPT !.spend = total, !.source = source]
    OBVIOUS
  <1>7. n \in Rows
    <2> DEFINE m == [l EXCEPT !.spend = total]
    <2>1. m \in Rows
      BY <1>4, <1>5 DEF Rows
    <2>2. n = [m EXCEPT !.source = source]
      BY <1>6
    <2> HIDE DEF m
    <2> QED
      BY <2>1, <2>2 DEF Rows
  <1>8. PICK all : all = [q \in DOMAIN dirty[s] \cup {p} |-> IF q = p THEN n ELSE dirty[s][q]]
    OBVIOUS
  <1>9. IsIdentityMap(all)
    BY <1>4, <1>7, <1>8 DEF IsIdentityMap
  <1>10. dirty' = [dirty EXCEPT ![s] = all] /\ pc' = [pc EXCEPT ![s] = "write"]
    BY <1>1, <1>3, <1>5, <1>6, <1>8 DEF Aggregate
  <1>11. PICK a : a = "write"
    OBVIOUS
  <1>12. /\ pc' = [pc EXCEPT ![s] = a] /\ dirty' = [dirty EXCEPT ![s] = all]
         /\ UNCHANGED <<tables, today, rowLock, request, todo, loaded>>
    BY <1>10, <1>11
  <1>13. a \in {"idle", "aggregate", "no_invoices", "write", "close", "receipt"}
    BY <1>11
  <1>14. request[s].doc \in Docs
    BY SessionHas
  <1> QED
    BY <1>9, <1>12, <1>13, <1>14, OneMap

\* An ingest sees documents only.
LEMMA VisibleType ==
  ASSUME TypeInv, NEW s \in Sessions, pc[s] \in {"aggregate", "no_invoices"}
  PROVE  Invoices(Visible(s)) \subseteq Docs /\ Transactions(Visible(s)) \subseteq Docs
PROOF
  BY DEF TypeInv, TypeOK, Ingesting, Visible, Invoices, Transactions

\* The aggregation of invoices keeps the types.
LEMMA ReadInvoicesType ==
  ASSUME TypeInv, IInv, NEW s \in Sessions, ReadInvoices(s)
  PROVE  TypeInv'
PROOF
  <1>1. pc[s] = "aggregate" /\ todo[s] # <<>>
        /\ UNCHANGED <<tables, today, rowLock, request, todo, loaded>>
    BY DEF ReadInvoices
  <1>2. PICK docs : docs = Invoices(Visible(s)) /\ docs \subseteq Docs
    BY <1>1, VisibleType
  <1>3. CASE Aggregate(s, Head(todo[s]), "invoice_aggregation", docs)
    <2>1. PICK source \in Sources : source = "invoice_aggregation"
      BY DEF Sources
    <2> QED
      BY <1>1, <1>2, <1>3, <2>1, AggregateType
  <1>4. CASE pc' = [pc EXCEPT ![s] = "no_invoices"] /\ UNCHANGED dirty
    <2>1. PICK a, r, o, l, d : /\ a = "no_invoices" /\ r = request[s] /\ o = todo[s]
                               /\ l = loaded[s] /\ d = dirty[s]
      OBVIOUS
    <2>2. /\ request' = [request EXCEPT ![s] = r] /\ todo' = [todo EXCEPT ![s] = o]
          /\ loaded' = [loaded EXCEPT ![s] = l] /\ IsIdentityMap(l)
          /\ dirty' = [dirty EXCEPT ![s] = d] /\ IsIdentityMap(d)
          /\ rowLock' \in [Periods -> Sessions \cup {NULL}]
          /\ r \in Requests \cup {NULL} /\ o \in Seq(Periods) /\ r.doc \in Docs
      BY <1>1, <1>4, <2>1, MapsHave, SessionHas
    <2>3. pc' = [pc EXCEPT ![s] = a]
      BY <1>4, <2>1
    <2>4. UNCHANGED <<tables, today>>
      BY <1>1
    <2>5. a \in {"idle", "aggregate", "no_invoices", "write", "close", "receipt"}
      BY <2>1
    <2> QED
      BY <2>2, <2>3, <2>4, <2>5, OneSession
  <1> QED
    BY <1>2, <1>3, <1>4 DEF ReadInvoices

\* The aggregation of transactions keeps the types.
LEMMA ReadTransactionsType ==
  ASSUME TypeInv, IInv, NEW s \in Sessions, ReadTransactions(s)
  PROVE  TypeInv'
PROOF
  <1>1. pc[s] = "no_invoices" /\ UNCHANGED <<tables, today, rowLock, request, todo, loaded>>
    BY DEF ReadTransactions
  <1>2. PICK docs : docs = Transactions(Visible(s)) /\ docs \subseteq Docs
    BY <1>1, VisibleType
  <1>3. PICK source \in Sources : source = "transaction_aggregation"
    BY DEF Sources
  <1>4. Aggregate(s, Head(todo[s]), source, docs)
    BY <1>2, <1>3 DEF ReadTransactions
  <1>5. todo[s] # <<>>
    BY <1>1 DEF IInv, InFlight
  <1> QED
    BY <1>1, <1>2, <1>4, <1>5, AggregateType

\* The next version is read from the events, which have no gap.
LEMMA NextVersionType ==
  ASSUME IInv, NEW p \in Periods, ChainOf(p) # {}
  PROVE  LatestVersion(events, p, "expected_amount") + 1 \in Nat
PROOF
  <1>1. Shown(p)
    BY DEF IInv, Trails
  <1>2. PICK n \in Nat : {e.version : e \in ChainOf(p)} = 1 .. n
    BY <1>1 DEF Shown, IsRow
  <1>3. PICK evs : evs = events
    OBVIOUS
  <1>4. {e.version : e \in Chain(evs, p, "expected_amount")} = 1 .. n
    BY <1>2, <1>3 DEF ChainOf
  <1>5. LatestVersion(evs, p, "expected_amount") = n
    BY <1>4, LatestVersionIs
  <1> QED
    BY <1>3, <1>5

\* The new amount and the version of its event have their types.
LEMMA WriteExpectedType ==
  ASSUME TypeInv, IInv, NEW s \in Sessions, WriteExpected(s)
  PROVE  TypeInv'
PROOF
  <1>1. PICK p : p = Head(todo[s])
    OBVIOUS
  <1>2. PICK v : v = LatestVersion(events, p, "expected_amount") + 1
    OBVIOUS
  <1>3. /\ pc[s] = "write" /\ rowLock' = [rowLock EXCEPT ![p] = s]
        /\ dirty' = [dirty EXCEPT ![s][p].expected = Calculated(p, dirty[s][p].spend, v),
                                  ![s][p].event = v]
        /\ todo' = [todo EXCEPT ![s] = Tail(todo[s])] /\ pc' = [pc EXCEPT ![s] = "aggregate"]
        /\ UNCHANGED <<tables, today, request, loaded>>
    BY <1>1, <1>2, SessionHas DEF WriteExpected
  <1>4. todo[s] # <<>> /\ p \in DOMAIN dirty[s] /\ p \in Periods /\ ChainOf(p) # {}
    BY <1>1, <1>3 DEF IInv, InFlight, CopyHolds
  <1>5. v \in Nat
    BY <1>2, <1>4, NextVersionType
  <1>6. PICK d : d = dirty[s] /\ IsIdentityMap(d) /\ p \in DOMAIN d
    BY <1>4, SessionHas
  <1>7. PICK n : n = d[p] /\ n \in Rows
    BY <1>6 DEF IsIdentityMap
  <1>8. PICK f : f = Calculated(p, n.spend, v) /\ f \in Figures
    <2>1. n.spend \in Int
      BY <1>7 DEF Rows
    <2> QED
      BY <1>4, <1>5, <2>1, CalculatedType
  <1> DEFINE f1 == [n EXCEPT !.expected = f]
             f2 == [f1 EXCEPT !.event = v]
             all == [d EXCEPT ![p] = f2]
  <1>9. dirty' = [dirty EXCEPT ![s] = all]
    BY <1>3, <1>4, <1>6, <1>7, <1>8 DEF IInv, Shapes
  <1>10. f1 \in Rows
    BY <1>7, <1>8 DEF Rows
  <1> HIDE DEF f1
  <1>11. f2 \in Rows
    BY <1>5, <1>10 DEF Rows
  <1> HIDE DEF f2
  <1>12. IsIdentityMap(all)
    BY <1>6, <1>11 DEF IsIdentityMap
  <1> HIDE DEF all
  <1>13. Tail(todo[s]) \in Seq(Periods)
    BY <1>4, SessionHas
  <1>14. rowLock' \in [Periods -> Sessions \cup {NULL}]
    BY <1>3, SessionHas
  <1>15. /\ request' = [request EXCEPT ![s] = request[s]]
         /\ loaded' = [loaded EXCEPT ![s] = loaded[s]] /\ IsIdentityMap(loaded[s])
         /\ request[s] \in Requests \cup {NULL} /\ request[s].doc \in Docs
    BY <1>3, MapsHave, SessionHas
  <1> QED
    BY <1>3, <1>9, <1>12, <1>13, <1>14, <1>15, OneSession

\* A request on one period starts with the row of it.
LEMMA LoadPeriodType ==
  ASSUME TypeInv, IInv, NEW s \in Sessions, NEW p \in Periods, NEW r, r \in Requests,
         r.kind \in {"close", "receipt"}, LoadPeriod(s, p, r)
  PROVE  TypeInv'
PROOF
  <1>1. PICK l : l = [q \in {p} |-> periods[p]]
    OBVIOUS
  <1>2. PICK a : a = r.kind
    OBVIOUS
  <1>3. /\ periods[p] # NULL
        /\ pc' = [pc EXCEPT ![s] = a] /\ request' = [request EXCEPT ![s] = r]
        /\ loaded' = [loaded EXCEPT ![s] = l]
        /\ UNCHANGED <<tables, today, rowLock, todo, dirty>>
    BY <1>1, <1>2 DEF LoadPeriod
  <1>4. IsIdentityMap(l)
    BY <1>1, <1>3, RowOf DEF IsIdentityMap
  <1>5. /\ todo' = [todo EXCEPT ![s] = todo[s]] /\ todo[s] \in Seq(Periods)
        /\ dirty' = [dirty EXCEPT ![s] = dirty[s]] /\ IsIdentityMap(dirty[s])
        /\ rowLock' \in [Periods -> Sessions \cup {NULL}]
    BY <1>3, MapsHave, SessionHas
  <1> QED
    BY <1>2, <1>3, <1>4, <1>5, OneSession

\* What a session that ends leaves, with what it committed.
LEMMA CommitEndType ==
  ASSUME TypeInv, NEW s \in Sessions, EndRequest(s),
         NEW rows, NEW added, NEW docs, Commit(rows, added, docs),
         DOMAIN rows \subseteq Periods, \A p \in DOMAIN rows : rows[p] \in Rows,
         added \subseteq EventRows, \A e \in added : e.parent \in DOMAIN rows, docs \subseteq Docs
  PROVE  TypeInv'
PROOF
  <1>1. TablesOK /\ Present
    BY TypeParts DEF TypeInv
  <1>2. TablesOK' /\ Present'
    BY <1>1, CommitType
  <1> QED
    BY <1>2, EndRequestType

\* An event has its columns.
LEMMA EventType ==
  ASSUME NEW p \in Periods, NEW v \in Nat \ {0}, NEW old \in Figures \cup {NoFigure},
         NEW new \in Figures, NEW reason \in Reasons
  PROVE  ExpectedEvent(p, v, old, new, reason) \in EventRows
         /\ ExpectedEvent(p, v, old, new, reason).parent = p
PROOF
  BY DEF ExpectedEvent, Event, EventRows

\* Recording a period inserts a row and an event of the types.
LEMMA RecordPeriodType ==
  ASSUME TypeInv, NEW s \in Sessions, NEW p \in Periods, NEW spend \in Spends,
         RecordPeriod(s, p, spend)
  PROVE  TypeInv'
PROOF
  <1>1. spend \in Int
    BY RebateAssumption
  <1>2. PICK f : f = Calculated(p, spend, 1) /\ f \in Figures
    BY <1>1, CalculatedType
  <1>3. PICK row : row = NewRow(spend, f) /\ row \in Rows
    BY <1>1, <1>2, NewRowType
  <1>4. PICK e : /\ e = ExpectedEvent(p, 1, NoFigure, f, "manual_estimate")
                 /\ e \in EventRows /\ e.parent = p
    <2>1. "manual_estimate" \in Reasons /\ 1 \in Nat \ {0} /\ NoFigure \in Figures \cup {NoFigure}
      BY DEF Reasons
    <2> QED
      BY <1>2, <2>1, EventType
  <1>5. PICK rows, added, docs : rows = [q \in {p} |-> row] /\ added = {e} /\ docs = {}
    OBVIOUS
  <1>6. Commit(rows, added, docs) /\ EndRequest(s)
    BY <1>2, <1>3, <1>4, <1>5 DEF RecordPeriod
  <1> QED
    BY <1>3, <1>4, <1>5, <1>6, CommitEndType

\* An UPDATE of one period keeps the types.
LEMMA UpdateType ==
  ASSUME TypeInv, IInv, NEW s \in Sessions, pc[s] \in {"close", "receipt"},
         NEW new \in Rows, UpdatePeriod(s, new)
  PROVE  TypeInv'
PROOF
  <1>1. PICK p : p = request[s].period
    OBVIOUS
  <1>2. p \in Periods /\ p \in DOMAIN loaded[s] /\ ChainOf(p) # {}
    BY <1>1 DEF IInv, InFlight, CopyHolds
  <1>3. periods[p] \in Rows
    BY <1>2, RowOf DEF TypeInv, Present
  <1>4. loaded[s][p] \in Rows
    BY <1>2, SessionHas DEF IsIdentityMap
  <1>5. PICK row : row = FlushRow(periods[p], loaded[s][p], new) /\ row \in Rows
    BY <1>3, <1>4, FlushRowType
  <1>6. PICK rows, none : rows = [q \in {p} |-> row] /\ none = {}
    OBVIOUS
  <1>7. Commit(rows, none, none) /\ EndRequest(s)
    BY <1>1, <1>5, <1>6 DEF UpdatePeriod
  <1> QED
    BY <1>2, <1>5, <1>6, <1>7, CommitEndType

\* The copy of a close or a receipt.
LEMMA CopyType ==
  ASSUME TypeInv, IInv, NEW s \in Sessions, pc[s] \in {"close", "receipt"}
  PROVE  /\ loaded[s][request[s].period] \in Rows
         /\ loaded[s][request[s].period].expected.status = "calculated" =>
              loaded[s][request[s].period].expected.amount \in Int
PROOF
  <1>1. PICK p : p = request[s].period
    OBVIOUS
  <1>2. p \in Periods /\ p \in DOMAIN loaded[s] /\ CopyHolds(p, loaded[s][p])
    BY <1>1 DEF IInv, InFlight
  <1>3. PICK c : c = loaded[s][p]
    OBVIOUS
  <1>4. c \in Rows
    BY <1>2, <1>3, SessionHas DEF IsIdentityMap
  <1>5. c.expected.status = "calculated" => c.expected.amount = Calc!ExpectedRebate(c.spend, Terms[p])
    BY <1>2, <1>3 DEF CopyHolds, IsRow
  <1>6. Calc!ExpectedRebate(c.spend, Terms[p]) \in Int
    <2>1. c.spend \in Int
      BY <1>4 DEF Rows
    <2> QED
      BY <1>2, <2>1, ExpectedRebateType
  <1> QED
    BY <1>1, <1>3, <1>4, <1>5, <1>6

\* Closing writes the expected amount and a status.
LEMMA CloseCommitType ==
  ASSUME TypeInv, IInv, NEW s \in Sessions, CloseCommit(s)
  PROVE  TypeInv'
PROOF
  <1>1. pc[s] = "close"
    BY DEF CloseCommit
  <1>2. PICK c : /\ c = loaded[s][request[s].period] /\ c \in Rows
                 /\ c.expected.status = "calculated" => c.expected.amount \in Int
    BY <1>1, CopyType
  <1>3. PICK x : x = c.expected.amount /\ x \in Amounts
    BY <1>2 DEF Rows, Figures
  <1>4. PICK status : status = RefreshedStatus(c, TRUE) /\ status \in WorkflowStatuses
    <2>1. /\ c.status \in WorkflowStatuses /\ c.received \in Amounts
          /\ c.expected.status \in {"legacy_unverified", "calculated"}
      BY <1>2 DEF Rows, Figures
    <2> QED
      BY <1>2, <2>1, RefreshedStatusType
  <1> DEFINE f1 == [c EXCEPT !.earned = x]
             f2 == [f1 EXCEPT !.status = status]
  <1>5. f1 \in Rows
    BY <1>2, <1>3 DEF Rows
  <1>6. UpdatePeriod(s, f2)
    BY <1>2, <1>3, <1>4 DEF CloseCommit
  <1> HIDE DEF f1
  <1>7. f2 \in Rows
    BY <1>4, <1>5 DEF Rows
  <1> HIDE DEF f2
  <1> QED
    BY <1>1, <1>6, <1>7, UpdateType

\* A receipt writes an amount that was entered and a status.
LEMMA ReceiptCommitType ==
  ASSUME TypeInv, IInv, NEW s \in Sessions, ReceiptCommit(s)
  PROVE  TypeInv'
PROOF
  <1>1. pc[s] = "receipt"
    BY DEF ReceiptCommit
  <1>2. PICK c : /\ c = loaded[s][request[s].period] /\ c \in Rows
                 /\ c.expected.status = "calculated" => c.expected.amount \in Int
    BY <1>1, CopyType
  <1>3. PICK x : x = request[s].amount /\ x \in Amounts
    <2>1. request[s].amount \in Receipts
      BY <1>1 DEF IInv, InFlight
    <2>2. Receipts \subseteq Int
      BY RebateAssumption
    <2>3. request[s].amount \in Int
      BY <2>1, <2>2
    <2> QED
      BY <2>3 DEF Amounts
  <1>4. PICK n : n = [c EXCEPT !.received = x]
    OBVIOUS
  <1>5. n \in Rows /\ n.expected = c.expected
    BY <1>2, <1>3, <1>4 DEF Rows
  <1>6. PICK closed \in BOOLEAN : closed = (c.earned # NULL)
    OBVIOUS
  <1>7. PICK status : status = RefreshedStatus(n, closed) /\ status \in WorkflowStatuses
    <2>1. /\ n.status \in WorkflowStatuses /\ n.received \in Amounts
          /\ n.expected.status \in {"legacy_unverified", "calculated"}
      BY <1>5 DEF Rows, Figures
    <2> QED
      BY <1>2, <1>5, <2>1, RefreshedStatusType
  <1> DEFINE f2 == [n EXCEPT !.status = status]
  <1>8. UpdatePeriod(s, f2)
    BY <1>2, <1>3, <1>4, <1>6, <1>7 DEF ReceiptCommit
  <1>9. f2 \in Rows
    BY <1>5, <1>7 DEF Rows
  <1> HIDE DEF f2
  <1> QED
    BY <1>1, <1>8, <1>9, UpdateType

\* An ingest commits rows and events of the types.
LEMMA IngestCommitType ==
  ASSUME TypeInv, IInv, NEW s \in Sessions, IngestCommit(s)
  PROVE  TypeInv'
PROOF
  <1>1. pc[s] = "aggregate" /\ todo[s] = <<>> /\ EndRequest(s) /\ InFlight(s)
    BY DEF IngestCommit, IInv
  <1>2. PICK l, d : l = loaded[s] /\ d = dirty[s] /\ IsIdentityMap(l) /\ IsIdentityMap(d)
    BY SessionHas
  <1>3. \A p \in DOMAIN d : /\ p \in Periods /\ p \in DOMAIN l /\ ChainOf(p) # {}
                            /\ d[p].event \in Nat \ {0}
    BY <1>1, <1>2 DEF InFlight, CopyHolds, Calculates
  <1>4. \A p \in DOMAIN d : l[p] \in Rows /\ d[p] \in Rows /\ periods[p] \in Rows
    BY <1>2, <1>3, RowOf DEF IsIdentityMap, TypeInv, Present
  <1>5. PICK rows, added, docs :
          /\ rows = [p \in DOMAIN d |-> FlushRow(periods[p], l[p], d[p])]
          /\ added = {ExpectedEvent(p, d[p].event, l[p].expected, d[p].expected, "recalculation") :
                       p \in DOMAIN d}
          /\ docs = {request[s].doc}
    OBVIOUS
  <1>6. Commit(rows, added, docs)
    BY <1>2, <1>5 DEF IngestCommit, Flushed
  <1>7. DOMAIN rows \subseteq Periods /\ \A p \in DOMAIN rows : rows[p] \in Rows
    BY <1>3, <1>4, <1>5, FlushRowType
  <1>8. added \subseteq EventRows /\ \A e \in added : e.parent \in DOMAIN rows
    <2> SUFFICES ASSUME NEW e \in added PROVE e \in EventRows /\ e.parent \in DOMAIN rows
      OBVIOUS
    <2>1. PICK p \in DOMAIN d :
            e = ExpectedEvent(p, d[p].event, l[p].expected, d[p].expected, "recalculation")
      BY <1>5
    <2>2. l[p].expected \in Figures /\ d[p].expected \in Figures
      BY <1>4 DEF Rows
    <2>3. "recalculation" \in Reasons
      BY DEF Reasons
    <2>4. e \in EventRows /\ e.parent = p
      BY <1>3, <2>1, <2>2, <2>3, EventType
    <2> QED
      BY <1>5, <2>4
  <1>9. docs \subseteq Docs
    BY <1>1, <1>5, SessionHas
  <1> QED
    BY <1>1, <1>6, <1>7, <1>8, <1>9, CommitEndType

\* Rolled back.
LEMMA RolledBackType ==
  ASSUME TypeInv, NEW s \in Sessions, EndRequest(s), UNCHANGED tables
  PROVE  TypeInv'
PROOF
  <1>1. TablesOK /\ Present
    BY TypeParts DEF TypeInv
  <1>2. TablesOK' /\ Present'
    BY <1>1 DEF tables, TablesOK, Present, ChainOf
  <1> QED
    BY <1>2, EndRequestType

\* A new day is a day of the model.
LEMMA TickType ==
  ASSUME TypeInv, UNCHANGED <<tables, rowLock, session>>, today' \in FirstDay .. LastDay
  PROVE  TypeInv'
PROOF
  <1>1. TablesOK /\ SessionOK /\ Present /\ Ingesting /\ rowLock \in [Periods -> Sessions \cup {NULL}]
    BY TypeParts DEF TypeInv
  <1>2. (TablesOK /\ SessionOK /\ today \in FirstDay .. LastDay
         /\ rowLock \in [Periods -> Sessions \cup {NULL}])'
    BY <1>1 DEF tables, session, TablesOK, SessionOK, IsIdentityMap
  <1>3. TypeOK'
    BY <1>2, TypeParts, PTL
  <1>4. Present' /\ Ingesting'
    BY <1>1 DEF tables, session, Present, Ingesting, ChainOf
  <1> QED
    BY <1>3, <1>4 DEF TypeInv

\* Every step keeps the types.
LEMMA StepType == TypeInv /\ IInv /\ [Next]_vars => TypeInv'
PROOF
  <1> SUFFICES ASSUME TypeInv, IInv, [Next]_vars PROVE TypeInv'
    OBVIOUS
  <1>1. CASE Tick
    <2>1. today \in FirstDay .. LastDay
      BY DEF TypeInv, TypeOK
    <2>2. today' \in FirstDay .. LastDay
      BY <1>1, <2>1, RebateAssumption DEF Tick
    <2> QED
      BY <1>1, <2>2, TickType DEF Tick
  <1>2. CASE UNCHANGED vars
    <2>1. today \in FirstDay .. LastDay
      BY DEF TypeInv, TypeOK
    <2> QED
      BY <1>2, <2>1, TickType DEF vars
  <1>3. ASSUME NEW s \in Sessions, NEW p \in Periods, NEW spend \in Spends,
               RecordPeriod(s, p, spend)
        PROVE  TypeInv'
    BY <1>3, RecordPeriodType
  <1>4. ASSUME NEW s \in Sessions, NEW d \in Docs, StartIngest(s, d) PROVE TypeInv'
    BY <1>4, StartIngestType
  <1>5. ASSUME NEW s \in Sessions, NEW p \in Periods, RequestClose(s, p) PROVE TypeInv'
    <2>1. PICK r : r = [kind |-> "close", doc |-> NULL, period |-> p, asOf |-> today]
      OBVIOUS
    <2>2. LoadPeriod(s, p, r)
      BY <1>5, <2>1 DEF RequestClose
    <2>3. r \in Requests /\ r.kind = "close"
      BY <2>1 DEF Requests, TypeInv, TypeOK
    <2> QED
      BY <2>2, <2>3, LoadPeriodType
  <1>6. ASSUME NEW s \in Sessions, NEW p \in Periods, NEW amount \in Receipts,
               RequestReceipt(s, p, amount)
        PROVE  TypeInv'
    <2>1. PICK r : r = [kind |-> "receipt", doc |-> NULL, period |-> p, amount |-> amount]
      OBVIOUS
    <2>2. LoadPeriod(s, p, r)
      BY <1>6, <2>1 DEF RequestReceipt
    <2>3. r \in Requests /\ r.kind = "receipt"
      BY <2>1 DEF Requests
    <2> QED
      BY <2>2, <2>3, LoadPeriodType
  <1>7. ASSUME NEW s \in Sessions, Ingest(s) PROVE TypeInv'
    BY <1>7, ReadInvoicesType, ReadTransactionsType, WriteExpectedType, IngestCommitType DEF Ingest
  <1>8. ASSUME NEW s \in Sessions, CloseCommit(s) \/ ReceiptCommit(s) PROVE TypeInv'
    BY <1>8, CloseCommitType, ReceiptCommitType
  <1>9. ASSUME NEW s \in Sessions, CloseConflict(s) \/ DeadlockAbort(s) \/ Crash(s) PROVE TypeInv'
    BY <1>9, RolledBackType DEF CloseConflict, DeadlockAbort, Crash
  <1> QED
    BY <1>1, <1>2, <1>3, <1>4, <1>5, <1>6, <1>7, <1>8, <1>9 DEF Next, Close

\* What the migration leaves has its types.
LEMMA InitType == Init => TypeInv
PROOF
  <1> SUFFICES ASSUME Init PROVE TypeInv
    OBVIOUS
  <1>1. PICK spend \in [Recorded -> Spends] :
          /\ periods = [p \in Periods |->
                          IF p \in Recorded THEN NewRow(spend[p], Legacy(p, spend[p])) ELSE NULL]
          /\ events = {ExpectedEvent(p, 1, NoFigure, Legacy(p, spend[p]), "initial_backfill") :
                         p \in Recorded}
    BY DEF Init
  <1>2. \A p \in Recorded : p \in Periods /\ spend[p] \in Int
    <2>1. Recorded \subseteq Periods /\ Spends \subseteq Int
      BY RebateAssumption
    <2> QED
      BY <2>1
  <1>3. \A p \in Recorded : /\ Legacy(p, spend[p]) \in Figures
                            /\ NewRow(spend[p], Legacy(p, spend[p])) \in Rows
    BY <1>2, LegacyType, NewRowType
  <1>4. periods \in [Periods -> Rows \cup {NULL}]
    BY <1>1, <1>3
  <1>5. ASSUME NEW e \in events
        PROVE  e \in EventRows /\ e.parent \in Recorded
    <2>1. PICK p \in Recorded :
            e = ExpectedEvent(p, 1, NoFigure, Legacy(p, spend[p]), "initial_backfill")
      BY <1>1
    <2>2. "initial_backfill" \in Reasons /\ 1 \in Nat \ {0} /\ NoFigure \in Figures \cup {NoFigure}
      BY DEF Reasons
    <2> QED
      <3>1. PICK f, v, reason : /\ f = Legacy(p, spend[p]) /\ v = 1 /\ reason = "initial_backfill"
                                /\ f \in Figures /\ v \in Nat \ {0} /\ reason \in Reasons
        BY <1>3, <2>2
      <3>2. e = ExpectedEvent(p, v, NoFigure, f, reason)
        BY <2>1, <3>1
      <3>3. p \in Periods
        BY <1>2
      <3> QED
        BY <2>2, <3>1, <3>2, <3>3, EventType
  <1>6. TablesOK
    BY <1>4, <1>5 DEF TablesOK, Init
  <1>7. Present
    BY <1>1, <1>3, <1>5, RowAssumption DEF Present, ChainOf, Chain
  <1>8. IsIdentityMap(<<>>) /\ <<>> \in Seq(Periods)
    BY DEF IsIdentityMap
  <1>9. SessionOK /\ Ingesting
    BY <1>8 DEF Init, SessionOK, Ingesting
  <1>10. today \in FirstDay .. LastDay /\ rowLock \in [Periods -> Sessions \cup {NULL}]
    BY RebateAssumption DEF Init
  <1> QED
    BY <1>6, <1>7, <1>9, <1>10, TypeParts DEF TypeInv

\* The lemma in the form that the temporal step needs.
LEMMA TypeInvariant == Spec => []TypeInv
PROOF
  <1>1. Init => TypeInv
    BY InitType
  <1>2. TypeInv /\ IInv /\ [Next]_vars => TypeInv'
    BY StepType
  <1> QED
    BY <1>1, <1>2, Invariant, PTL DEF Spec

\* Every variable keeps its type: a row has no amount but a whole number or NULL in any of its
\* columns, an event tells of a period and a measure that exist, and a session that works on a
\* document works on one that was uploaded.
THEOREM TypeCorrect == Spec => []TypeOK
PROOF
  <1>1. TypeInv => TypeOK
    BY DEF TypeInv
  <1> QED
    BY <1>1, TypeInvariant, PTL

-----------------------------------------------------------------------------
(* Refinement: the periods implement the evidence log.  The chain of a      *)
(* period has one event per version, so that it reads as a sequence; a step *)
(* that adds an event adds it at the end, and the row shows the last.       *)

Pairs == [figure : Figures, reason : Reasons]

ChainIn(evs, p) == Chain(evs, p, "expected_amount")

HistoryIn(evs, p) ==
  [v \in 1 .. LatestVersion(evs, p, "expected_amount") |->
     LET e == CHOOSE e \in Chain(evs, p, "expected_amount") : e.version = v
     IN  [figure |-> e.new, reason |-> e.reason]]

\* The events evs of a chain, one for each version up to n.
Numbered(evs, p, n) ==
  /\ {e.version : e \in ChainIn(evs, p)} = 1 .. n
  /\ \A d, e \in ChainIn(evs, p) : d.version = e.version => d = e
  /\ \A e \in ChainIn(evs, p) :
       e.new \in Figures /\ e.reason \in Reasons /\ e.version \in Nat \ {0}

\* The history of a chain lists its events by their versions.
LEMMA HistoryIs ==
  ASSUME NEW evs, NEW p, NEW n \in Nat, Numbered(evs, p, n)
  PROVE  /\ HistoryIn(evs, p) \in Seq(Pairs)
         /\ Len(HistoryIn(evs, p)) = n
         /\ \A e \in ChainIn(evs, p) :
              HistoryIn(evs, p)[e.version] = [figure |-> e.new, reason |-> e.reason]
PROOF
  <1> DEFINE C     == ChainIn(evs, p)
             At(v) == CHOOSE e \in C : e.version = v
             H     == HistoryIn(evs, p)
  <1>1. {e.version : e \in C} = 1 .. n /\ \A d, e \in C : d.version = e.version => d = e
    BY DEF Numbered
  <1>2. LatestVersion(evs, p, "expected_amount") = n
    BY <1>1, LatestVersionIs DEF ChainIn
  <1>3. H = [v \in 1 .. n |-> [figure |-> At(v).new, reason |-> At(v).reason]]
    BY <1>2 DEF HistoryIn, ChainIn
  <1>4. \A v \in 1 .. n : At(v) \in C /\ At(v).version = v
    BY <1>1
  <1>5. \A e \in C : e.version \in 1 .. n /\ At(e.version) = e
    BY <1>1, <1>4
  <1> HIDE DEF C, At, H
  <1>6. \A v \in 1 .. n : At(v).new \in Figures /\ At(v).reason \in Reasons
    BY <1>4 DEF C, Numbered
  <1>7. H \in [1 .. n -> Pairs]
    BY <1>3, <1>6 DEF Pairs
  <1>8. H \in Seq(Pairs)
    BY <1>7, SeqDef
  <1>9. Len(H) = n
    BY <1>7, <1>8, LenProperties
  <1>10. \A e \in C : H[e.version] = [figure |-> e.new, reason |-> e.reason]
    BY <1>3, <1>5
  <1> QED
    BY <1>8, <1>9, <1>10 DEF C, H

\* The event e is the next of the chain.
NextIs(evs, evs2, p, n, e) ==
  /\ n \in Nat /\ e.version = n + 1
  /\ Numbered(evs, p, n) /\ Numbered(evs2, p, n + 1)
  /\ ChainIn(evs2, p) = ChainIn(evs, p) \cup {e}

\* One more event is one more entry at the end of the history.
LEMMA HistoryGrows ==
  ASSUME NEW evs, NEW evs2, NEW p, NEW n, NEW e, NextIs(evs, evs2, p, n, e)
  PROVE  HistoryIn(evs2, p) = Append(HistoryIn(evs, p), [figure |-> e.new, reason |-> e.reason])
PROOF
  <1>0. /\ n \in Nat /\ e.version = n + 1
        /\ Numbered(evs, p, n) /\ Numbered(evs2, p, n + 1)
        /\ ChainIn(evs2, p) = ChainIn(evs, p) \cup {e}
    BY DEF NextIs
  <1>1. PICK C, H : /\ C = ChainIn(evs, p) /\ H = HistoryIn(evs, p)
                    /\ H \in Seq(Pairs) /\ Len(H) = n
                    /\ \A d \in C : H[d.version] = [figure |-> d.new, reason |-> d.reason]
    BY <1>0, HistoryIs
  <1>2. n + 1 \in Nat
    BY <1>0
  <1>3. PICK C2, H2 : /\ C2 = ChainIn(evs2, p) /\ H2 = HistoryIn(evs2, p)
                      /\ H2 \in Seq(Pairs) /\ Len(H2) = n + 1
                      /\ \A d \in C2 : H2[d.version] = [figure |-> d.new, reason |-> d.reason]
    <2>1. PICK m : m = n + 1 /\ m \in Nat /\ Numbered(evs2, p, m)
      BY <1>0, <1>2
    <2> QED
      BY <2>1, HistoryIs
  <1>4. PICK x : x = [figure |-> e.new, reason |-> e.reason]
    OBVIOUS
  <1>5. C2 = C \cup {e}
    BY <1>0, <1>1, <1>3
  <1>6. x \in Pairs
    <2>1. e.new \in Figures /\ e.reason \in Reasons
      BY <1>0, <1>3, <1>5 DEF Numbered
    <2> QED
      BY <1>4, <2>1 DEF Pairs
  <1>7. ASSUME NEW v \in 1 .. n PROVE H2[v] = H[v]
    <2>1. PICK d \in C : d.version = v
      BY <1>0, <1>1 DEF Numbered
    <2>2. d \in C2
      BY <1>5, <2>1
    <2>3. H[v] = [figure |-> d.new, reason |-> d.reason]
      BY <1>1, <2>1
    <2>4. H2[v] = [figure |-> d.new, reason |-> d.reason]
      BY <1>3, <2>1, <2>2
    <2> QED
      BY <2>3, <2>4
  <1>8. H2[n + 1] = x
    BY <1>0, <1>3, <1>4, <1>5
  <1>9. PICK A : /\ A = Append(H, x) /\ A \in Seq(Pairs) /\ Len(A) = n + 1
                 /\ \A v \in 1 .. n : A[v] = H[v]
                 /\ A[n + 1] = x
    <2>1. n \in Nat /\ H \in Seq(Pairs) /\ Len(H) = n
      BY <1>0, <1>1
    <2>2. /\ Append(H, x) \in Seq(Pairs) /\ Len(Append(H, x)) = n + 1
          /\ \A v \in 1 .. n : Append(H, x)[v] = H[v]
          /\ Append(H, x)[n + 1] = x
      BY <1>6, <2>1, AppendProperties
    <2> QED
      BY <2>2
  <1>10. H2 \in [1 .. n + 1 -> Pairs] /\ A \in [1 .. n + 1 -> Pairs]
    BY <1>0, <1>3, <1>9, LenProperties
  <1>11. \A v \in 1 .. n + 1 : H2[v] = A[v]
    BY <1>0, <1>7, <1>8, <1>9
  <1>12. H2 = A
    <2>1. PICK D : D = 1 .. n + 1
      OBVIOUS
    <2>2. H2 \in [D -> Pairs] /\ A \in [D -> Pairs] /\ \A v \in D : H2[v] = A[v]
      BY <1>10, <1>11, <2>1
    <2> QED
      BY <2>2
  <1> QED
    BY <1>1, <1>3, <1>4, <1>9, <1>12

\* What readers see of a period.
Seen(p) == IF periods[p] = NULL THEN NULL ELSE periods[p].expected

\* What the invariants say of the events and the row of a period.
Trail(p) ==
  \E n \in Nat :
    /\ Numbered(events, p, n)
    /\ IF n = 0 THEN periods[p] = NULL
                ELSE /\ periods[p] # NULL
                     /\ \E e \in ChainIn(events, p) :
                          e.version = n /\ e.new = periods[p].expected

\* The invariants describe every trail.
LEMMA TrailsAre == IInv /\ TypeInv => \A p \in Periods : Trail(p)
PROOF
  <1> SUFFICES ASSUME IInv, TypeInv, NEW p \in Periods PROVE Trail(p)
    OBVIOUS
  <1>1. PICK C : C = ChainOf(p) /\ C = ChainIn(events, p)
    BY DEF ChainOf, ChainIn
  <1>2. \A e \in C : e.new \in Figures /\ e.reason \in Reasons /\ e.version \in Nat \ {0}
    BY <1>1, TypeParts DEF TypeInv, TablesOK, EventRows, ChainIn, Chain
  <1>3. CASE C = {}
    <2>1. periods[p] = NULL
      BY <1>1, <1>3 DEF IInv, Trails
    <2>2. {e.version : e \in C} = 1 .. 0
      BY <1>3
    <2>3. Numbered(events, p, 0)
      BY <1>1, <1>3, <2>2 DEF Numbered
    <2> QED
      BY <2>1, <2>3 DEF Trail
  <1>4. CASE C # {}
    <2>1. Shown(p) /\ periods[p] # NULL
      BY <1>1, <1>4 DEF IInv, Trails, TypeInv, Present
    <2>2. PICK n : n = periods[p].event /\ n \in Nat \ {0}
      BY <2>1 DEF Shown, IsRow
    <2>3. Numbered(events, p, n)
      BY <1>1, <1>2, <2>1, <2>2 DEF Shown, Numbered
    <2>4. \E e \in C : e.version = n /\ e.new = periods[p].expected
      BY <1>1, <2>1, <2>2 DEF Shown
    <2> QED
      BY <1>1, <2>1, <2>2, <2>3, <2>4 DEF Trail
  <1> QED
    BY <1>3, <1>4

\* The events that a step adds: at most one to each chain, of a calculation.
Adds ==
  /\ events \subseteq events'
  /\ \A d, e \in events' \ events : d.parent = e.parent => d = e
  /\ \A e \in events' \ events : e.new.status = "calculated"

\* What an event of a calculation says is as good as any figure before it.
LEMMA CalculationIsLegal ==
  ASSUME NEW f \in Figures, NEW reason
  PROVE  LegalChange(f.status, "calculated", reason)
PROOF
  BY DEF LegalChange, Tier, Figures

\* A step that adds no event to a trail leaves its figure, and one that adds an
\* event adds an entry to its history, with the figure that the row gets.
LEMMA TrailExtends ==
  ASSUME TypeInv, Adds, NEW p \in Periods, Trail(p), Trail(p)'
  PROVE  \/ HistoryIn(events', p) = HistoryIn(events, p) /\ Seen(p)' = Seen(p)
         \/ \E reason \in Reasons :
              /\ HistoryIn(events', p) =
                   Append(HistoryIn(events, p), [figure |-> Seen(p)', reason |-> reason])
              /\ Seen(p) # NULL => LegalChange(Seen(p).status, Seen(p)'.status, reason)
PROOF
  <1>1. PICK evs, evs2, C, C2, r, r2 :
          /\ evs = events /\ evs2 = events' /\ C = ChainIn(evs, p) /\ C2 = ChainIn(evs2, p)
          /\ r = periods[p] /\ r2 = periods'[p]
    OBVIOUS
  <1>2. PICK n : /\ n \in Nat /\ Numbered(evs, p, n)
                 /\ IF n = 0 THEN r = NULL
                             ELSE r # NULL /\ \E e \in C : e.version = n /\ e.new = r.expected
    BY <1>1 DEF Trail
  <1>3. PICK n2 : /\ n2 \in Nat /\ Numbered(evs2, p, n2)
                  /\ IF n2 = 0 THEN r2 = NULL
                               ELSE r2 # NULL /\ \E e \in C2 : e.version = n2 /\ e.new = r2.expected
    BY <1>1 DEF Trail
  <1>4. /\ {e.version : e \in C} = 1 .. n /\ {e.version : e \in C2} = 1 .. n2
        /\ \A d, e \in C2 : d.version = e.version => d = e
        /\ \A e \in C2 : e.new \in Figures /\ e.reason \in Reasons /\ e.version \in Nat \ {0}
    BY <1>1, <1>2, <1>3 DEF Numbered
  <1>5. /\ C \subseteq C2 /\ \A d, e \in C2 \ C : d = e
        /\ \A e \in C2 \ C : e.new.status = "calculated"
    BY <1>1 DEF Adds, ChainIn, Chain
  <1>6. CASE C2 = C
    <2>1. n2 = n
      BY <1>2, <1>3, <1>4, <1>6
    <2>2. HistoryIn(evs2, p) = HistoryIn(evs, p)
      BY <1>1, <1>6 DEF HistoryIn, LatestVersion, ChainIn
    <2>3. Seen(p)' = Seen(p)
      BY <1>1, <1>2, <1>3, <1>4, <1>6, <2>1 DEF Seen
    <2> QED
      BY <1>1, <2>2, <2>3
  <1>7. CASE C2 # C
    <2>1. PICK e : e \in C2 /\ e \notin C
      BY <1>5, <1>7
    <2>2. C2 = C \cup {e}
      BY <1>5, <2>1
    <2>3. e.version = n + 1 /\ n2 = n + 1
      <3>1. e.version \in Nat /\ e.version \in 1 .. n2
        BY <1>4, <2>1
      <3>2. e.version \notin 1 .. n
        <4> SUFFICES ASSUME e.version \in 1 .. n PROVE FALSE
          OBVIOUS
        <4>1. PICK d \in C : d.version = e.version
          BY <1>4
        <4> QED
          BY <1>4, <1>5, <2>1, <4>1
      <3>3. 1 .. n2 = (1 .. n) \cup {e.version}
        BY <1>4, <2>2
      <3>4. n < n2
        BY <1>2, <1>3, <3>1, <3>2
      <3>5. n + 1 \in 1 .. n2 /\ n2 \in 1 .. n2
        BY <1>2, <1>3, <3>4
      <3>6. n + 1 \notin 1 .. n /\ n2 \notin 1 .. n
        BY <1>2, <1>3, <3>4
      <3>7. n + 1 = e.version /\ n2 = e.version
        BY <3>3, <3>5, <3>6
      <3> QED
        BY <3>7
    <2>4. HistoryIn(evs2, p) = Append(HistoryIn(evs, p), [figure |-> e.new, reason |-> e.reason])
      <3>1. Numbered(evs2, p, n + 1) /\ ChainIn(evs2, p) = ChainIn(evs, p) \cup {e}
        BY <1>1, <1>3, <2>2, <2>3
      <3>2. n \in Nat /\ Numbered(evs, p, n) /\ e.version = n + 1
        BY <1>2, <2>3
      <3>3. NextIs(evs, evs2, p, n, e)
        BY <3>1, <3>2 DEF NextIs
      <3> QED
        BY <3>3, HistoryGrows
    <2>5. Seen(p)' = e.new
      <3>1. r2 # NULL /\ \E d \in C2 : d.version = n2 /\ d.new = r2.expected
        BY <1>2, <1>3, <2>3
      <3>2. e.new = r2.expected
        BY <1>4, <2>1, <2>3, <3>1
      <3> QED
        BY <1>1, <3>1, <3>2 DEF Seen
    <2>6. Seen(p) # NULL => LegalChange(Seen(p).status, e.new.status, e.reason)
      <3> SUFFICES ASSUME Seen(p) # NULL
                   PROVE  LegalChange(Seen(p).status, e.new.status, e.reason)
        OBVIOUS
      <3>1. PICK f : f = Seen(p) /\ f \in Figures
        <4>1. periods[p] # NULL /\ periods[p] \in Rows
          BY RowOf DEF Seen
        <4> QED
          BY <4>1 DEF Seen, Rows
      <3>2. e.new.status = "calculated"
        BY <1>5, <2>1
      <3> QED
        BY <3>1, <3>2, CalculationIsLegal
    <2>7. e.reason \in Reasons
      BY <1>4, <2>1
    <2>8. PICK reason \in Reasons :
            /\ HistoryIn(evs2, p) =
                 Append(HistoryIn(evs, p), [figure |-> Seen(p)', reason |-> reason])
            /\ Seen(p) # NULL => LegalChange(Seen(p).status, Seen(p)'.status, reason)
      BY <2>4, <2>5, <2>6, <2>7
    <2> QED
      BY <1>1, <2>8
  <1> QED
    BY <1>6, <1>7

\* The transactions add at most one event to each chain.
LEMMA StepAdds == IInv /\ [Next]_vars => Adds
PROOF
  <1> SUFFICES ASSUME IInv, [Next]_vars PROVE Adds
    OBVIOUS
  <1>1. ASSUME UNCHANGED events PROVE Adds
    BY <1>1 DEF Adds
  <1>2. ASSUME NEW rows, NEW added, NEW docs, Commit(rows, added, docs),
               \A d, e \in added : d.parent = e.parent => d = e,
               \A e \in added : e.new.status = "calculated"
        PROVE  Adds
    <2>1. events' = events \/ events' = events \cup added
      BY <1>2 DEF Commit, tables
    <2> QED
      BY <1>2, <2>1 DEF Adds
  <1>3. \A p, spend, v : Calculated(p, spend, v).status = "calculated"
    BY CalculatedIs
  <1>4. ASSUME NEW s \in Sessions, NEW p \in Periods, NEW spend \in Spends,
               RecordPeriod(s, p, spend)
        PROVE  Adds
    <2>1. PICK f : f = Calculated(p, spend, 1) /\ f.status = "calculated"
      BY <1>3
    <2>2. PICK rows, added, docs :
            Commit(rows, added, docs) /\ added = {ExpectedEvent(p, 1, NoFigure, f, "manual_estimate")}
      BY <1>4, <2>1 DEF RecordPeriod
    <2>3. \A e \in added : e.new = f
      BY <2>2 DEF ExpectedEvent, Event
    <2> QED
      BY <1>2, <2>1, <2>2, <2>3
  <1>5. ASSUME NEW s \in Sessions, IngestCommit(s) PROVE Adds
    <2>1. PICK d, l : d = dirty[s] /\ l = loaded[s]
      OBVIOUS
    <2> DEFINE Of(p) == ExpectedEvent(p, d[p].event, l[p].expected, d[p].expected, "recalculation")
    <2>2. PICK rows, added, docs : Commit(rows, added, docs) /\ added = {Of(p) : p \in DOMAIN d}
      BY <1>5, <2>1 DEF IngestCommit
    <2>3. \A p \in DOMAIN d : Of(p).parent = p /\ Of(p).new = d[p].expected
      BY DEF ExpectedEvent, Event
    <2>4. \A p \in DOMAIN d : d[p].expected.status = "calculated"
      BY <1>3, <1>5, <2>1 DEF IInv, InFlight, Calculates, IngestCommit
    <2> HIDE DEF Of
    <2>5. \A x, y \in added : x.parent = y.parent => x = y
      BY <2>2, <2>3
    <2>6. \A x \in added : x.new.status = "calculated"
      BY <2>2, <2>3, <2>4
    <2> QED
      BY <1>2, <2>2, <2>5, <2>6
  <1>6. ASSUME NEW s \in Sessions, NEW new, UpdatePeriod(s, new) PROVE Adds
    <2>1. PICK rows, added, docs : Commit(rows, added, docs) /\ added = {}
      BY <1>6 DEF UpdatePeriod
    <2> QED
      BY <1>2, <2>1
  <1>7. ASSUME NEW s \in Sessions, CloseCommit(s) \/ ReceiptCommit(s) PROVE Adds
    BY <1>6, <1>7 DEF CloseCommit, ReceiptCommit
  <1>8. ASSUME NEW s \in Sessions,
               \/ \E d \in Docs : StartIngest(s, d)
               \/ \E p \in Periods : RequestClose(s, p)
               \/ \E p \in Periods, amount \in Receipts : RequestReceipt(s, p, amount)
               \/ ReadInvoices(s) \/ ReadTransactions(s) \/ WriteExpected(s)
               \/ CloseConflict(s) \/ DeadlockAbort(s) \/ Crash(s)
        PROVE  Adds
    <2>1. UNCHANGED events
      BY <1>8 DEF StartIngest, RequestClose, RequestReceipt, LoadPeriod, ReadInvoices,
                  ReadTransactions, WriteExpected, CloseConflict, DeadlockAbort, Crash, tables
    <2> QED
      BY <1>1, <2>1
  <1>9. CASE Tick \/ UNCHANGED vars
    BY <1>1, <1>9 DEF Tick, vars, tables
  <1> QED
    BY <1>4, <1>5, <1>7, <1>8, <1>9 DEF Next, Ingest, Close

\* Initially every trail is empty or has the event of the migration only.
LEMMA InitRecorded == Init => Log!Init
PROOF
  <1> SUFFICES ASSUME Init PROVE Log!Init
    OBVIOUS
  <1>1. \A e \in events : e.version = 1
    BY DEF Init, ExpectedEvent, Event
  <1>2. IInv /\ TypeInv
    BY InitInvariant, InitType
  <1>3. ASSUME NEW p \in Periods
        PROVE  /\ Len(HistoryIn(events, p)) <= 1
               /\ Seen(p) = IF HistoryIn(events, p) = <<>> THEN NULL
                                                           ELSE HistoryIn(events, p)[1].figure
    <2>1. PICK C, r : C = ChainIn(events, p) /\ r = periods[p]
      OBVIOUS
    <2>2. PICK n : /\ n \in Nat /\ Numbered(events, p, n)
                   /\ IF n = 0 THEN r = NULL
                               ELSE r # NULL /\ \E e \in C : e.version = n /\ e.new = r.expected
      BY <1>2, <2>1, TrailsAre DEF Trail
    <2>3. \A e \in C : e.version = 1
      BY <1>1, <2>1 DEF ChainIn, Chain
    <2>4. PICK H : /\ H = HistoryIn(events, p) /\ H \in Seq(Pairs) /\ Len(H) = n
                   /\ \A e \in C : H[e.version] = [figure |-> e.new, reason |-> e.reason]
      BY <2>1, <2>2, HistoryIs
    <2>5. CASE n = 0
      <3>1. H = <<>>
        BY <2>4, <2>5
      <3> QED
        BY <2>1, <2>2, <2>4, <2>5, <3>1 DEF Seen
    <2>6. CASE n # 0
      <3>1. r # NULL /\ \E e \in C : e.version = n /\ e.new = r.expected
        BY <2>2, <2>6
      <3>2. n = 1
        BY <2>3, <3>1
      <3>3. H[1].figure = r.expected
        <4>1. PICK e \in C : e.version = 1 /\ e.new = r.expected
          BY <3>1, <3>2
        <4>2. H[1] = [figure |-> e.new, reason |-> e.reason]
          BY <2>4, <4>1
        <4> QED
          BY <4>1, <4>2
      <3>4. H # <<>>
        BY <2>4, <3>2
      <3> QED
        BY <2>1, <2>4, <3>1, <3>2, <3>3, <3>4 DEF Seen
    <2> QED
      BY <2>5, <2>6
  <1>4. \A p \in Periods : HistoryOf(p) = HistoryIn(events, p)
    BY DEF HistoryOf, HistoryIn
  <1> QED
    BY <1>3, <1>4 DEF Log!Init, Seen

\* Every step of the periods is a transaction of the log, or leaves it alone.
LEMMA StepRecorded == IInv /\ IInv' /\ TypeInv /\ TypeInv' /\ [Next]_vars => Log!Record
PROOF
  <1> SUFFICES ASSUME IInv, IInv', TypeInv, TypeInv', [Next]_vars PROVE Log!Record
    OBVIOUS
  <1>1. Adds
    BY StepAdds
  <1>2. \A p \in Periods : Trail(p)
    BY TrailsAre
  <1>3. (\A p \in Periods : Trail(p))'
    BY TrailsAre, PTL
  <1>4. ASSUME NEW p \in Periods PROVE Log!Extended(p) \/ Log!Kept(p)
    <2>1. /\ HistoryOf(p) = HistoryIn(events, p)
          /\ HistoryOf(p)' = HistoryIn(events', p)
      BY DEF HistoryOf, HistoryIn
    <2>2. CASE HistoryIn(events', p) = HistoryIn(events, p) /\ Seen(p)' = Seen(p)
      BY <2>1, <2>2 DEF Log!Kept, Seen
    <2>3. ASSUME NEW reason \in Reasons,
                 HistoryIn(events', p) =
                   Append(HistoryIn(events, p), [figure |-> Seen(p)', reason |-> reason]),
                 Seen(p) # NULL => LegalChange(Seen(p).status, Seen(p)'.status, reason)
          PROVE  Log!Extended(p)
      BY <2>1, <2>3
         DEF Seen, Log!Extended, Log!Entry, Log!LegalChange, LegalChange, Log!Tier, Tier,
             Log!Corrective, Corrective, Log!Reasons, Reasons
    <2> QED
      BY <1>1, <1>2, <1>3, <2>2, <2>3, TrailExtends
  <1> QED
    BY <1>4 DEF Log!Record

\* P-03 for rebates: whatever the requests do, the expected amount that readers see of a
\* period changes only by an entry at the end of a history that is never rewritten, and it
\* loses evidence quality only for a corrective reason (migrations 0021 and 0024).
THEOREM EvidenceLogIsImplemented == Spec => ImplementsEvidenceLog
PROOF
  <1>1. IInv /\ IInv' /\ TypeInv /\ TypeInv' /\ [Next]_vars => [Log!Record]_Log!logVars
    BY StepRecorded
  <1> QED
    BY <1>1, Invariant, TypeInvariant, InitRecorded, PTL DEF Spec, ImplementsEvidenceLog, Log!Spec

-----------------------------------------------------------------------------
(* Complete aggregates: of the periods that have a row from the beginning,  *)
(* an ingest finds every open one that its document overlaps.  It works its *)
(* way through all of them before it commits, and what it has summed up for *)
(* one of them stays complete until somebody commits a document that falls  *)
(* into the period: whoever does has written the row as well, after which   *)
(* the chain of events refuses the stale sum.                               *)

\* What the row r of p shows is complete for the documents docs.
Complete(p, r, docs) ==
  /\ r.source = "invoice_aggregation" => r.spend = SpendOf(p, Invoices(docs))
  /\ r.source = "transaction_aggregation" =>
       r.spend = SpendOf(p, Transactions(docs)) /\ ~Dated(p, Invoices(docs))

\* The copy of an open period is not stale.
ReadNow(s, p) == loaded[s][p].event = periods[p].event /\ periods[p].earned = NULL

Busy(s) == pc[s] \in {"aggregate", "no_invoices", "write"}

\* The ingest has found the open periods of its document,
Covers(s) ==
  \A p \in Recorded : p \in Overlapping(request[s].doc) /\ periods[p].earned = NULL => p \in DOMAIN loaded[s]

\* has aggregated each of them or still has it to do,
Queued(s) ==
  \A p \in DOMAIN loaded[s] : p \in DOMAIN dirty[s] \/ \E i \in DOMAIN todo[s] : todo[s][i] = p

\* and a sum on a copy that is not stale is complete.
Summed(s) ==
  \A p \in DOMAIN dirty[s] :
    p \in Recorded /\ ReadNow(s, p) => Complete(p, dirty[s][p], Visible(s))

\* Before it falls back to transactions there is no invoice in the period.
Unbilled(s) ==
  \A p \in Recorded :
    pc[s] = "no_invoices" /\ p = Head(todo[s]) /\ ReadNow(s, p) => ~Dated(p, Invoices(Visible(s)))

Gathering(s) == Busy(s) => Covers(s) /\ Queued(s) /\ Summed(s) /\ Unbilled(s)

\* What OpenAggregatesAreComplete says of one period.
OpenComplete(p) ==
  periods[p] # NULL /\ (periods[p].earned = NULL => Complete(p, periods[p], documents))

GatherInv ==
  /\ \A p \in Recorded : OpenComplete(p)
  /\ \A s \in Sessions : Gathering(s)

\* A document that does not overlap a period has no line in it.
LEMMA OverlappingDated ==
  ASSUME NEW p \in Periods, NEW d \in Docs, p \notin Overlapping(d)
  PROVE  ~Dated(p, {d})
PROOF
  BY DEF Overlapping, Dated

\* A document outside of a period adds nothing to its spend.
LEMMA SpendStays ==
  ASSUME NEW p \in Periods, NEW docs, docs \subseteq Docs, NEW d \in Docs, ~Dated(p, {d})
  PROVE  SpendOf(p, docs \cup {d}) = SpendOf(p, docs)
PROOF
  <1>1. CASE d \in docs
    <2>1. docs \cup {d} = docs
      BY <1>1
    <2> QED
      BY <2>1
  <1>2. CASE d \notin docs
    <2>1. PICK a, b, c : /\ a = Calc!SpendWithin(RowsOf[d], StartOf[p], EndOf[p])
                         /\ b = SpendOf(p, docs) /\ c = SpendOf(p, docs \cup {d})
      OBVIOUS
    <2>2. a = 0
      BY <2>1, SpendOutside
    <2>3. c = a + b
      BY <1>2, <2>1, SpendOfOneMore
    <2>4. b \in Int
      BY <2>1, SpendOfType
    <2>5. c = b
      BY <2>2, <2>3, <2>4
    <2> QED
      BY <2>1, <2>5
  <1> QED
    BY <1>1, <1>2

\* Nor does it make a complete sum incomplete.
LEMMA CompleteStays ==
  ASSUME NEW p \in Periods, NEW r, NEW docs, docs \subseteq Docs, NEW d \in Docs,
         ~Dated(p, {d}), Complete(p, r, docs)
  PROVE  Complete(p, r, docs \cup {d})
PROOF
  <1>1. PICK more : more = docs \cup {d}
    OBVIOUS
  <1>2. PICK i, j, t, u : /\ i = Invoices(docs) /\ j = Invoices(more)
                          /\ t = Transactions(docs) /\ u = Transactions(more)
    OBVIOUS
  <1>3. i \subseteq Docs /\ t \subseteq Docs /\ (j = i \/ j = i \cup {d}) /\ (u = t \/ u = t \cup {d})
    BY <1>1, <1>2 DEF Invoices, Transactions
  <1>4. SpendOf(p, j) = SpendOf(p, i)
    <2>1. SpendOf(p, i \cup {d}) = SpendOf(p, i)
      BY <1>3, SpendStays
    <2> QED
      BY <1>3, <2>1
  <1>5. SpendOf(p, u) = SpendOf(p, t)
    <2>1. SpendOf(p, t \cup {d}) = SpendOf(p, t)
      BY <1>3, SpendStays
    <2> QED
      BY <1>3, <2>1
  <1>6. ~Dated(p, i) => ~Dated(p, j)
    BY <1>3 DEF Dated
  <1>7. Complete(p, r, more)
    BY <1>2, <1>4, <1>5, <1>6 DEF Complete
  <1> QED
    BY <1>1, <1>7

\* Nor a period with an invoice of one without.
LEMMA UnbilledStays ==
  ASSUME NEW p \in Periods, NEW docs, NEW d \in Docs, ~Dated(p, {d}), ~Dated(p, Invoices(docs))
  PROVE  ~Dated(p, Invoices(docs \cup {d}))
PROOF
  BY DEF Invoices, Dated

-----------------------------------------------------------------------------
\* A document is committed only together with the rows of its periods.
Feeds(p) ==
  /\ periods[p].event \in Nat /\ periods'[p].event \in Nat
  /\ periods[p].event <= periods'[p].event
  /\ periods[p].earned # NULL => periods'[p].earned # NULL
  /\ \/ documents' = documents
     \/ \E d \in Docs : /\ documents' = documents \cup {d}
                        /\ \/ ~Dated(p, {d})
                           \/ periods[p].earned # NULL
                           \/ periods'[p].event # periods[p].event

\* A row that is not stale after a step was not stale before it, and no document
\* fell into the period.
LEMMA ReadBefore ==
  ASSUME IInv, NEW t \in Sessions, NEW p \in DOMAIN loaded[t], SameSession(t), Feeds(p),
         ReadNow(t, p)'
  PROVE  /\ ReadNow(t, p) /\ p \in Periods
         /\ \/ documents' = documents
            \/ \E d \in Docs : documents' = documents \cup {d} /\ ~Dated(p, {d})
PROOF
  <1>1. PICK c, r, r2 : c = loaded[t][p] /\ r = periods[p] /\ r2 = periods'[p]
    OBVIOUS
  <1>2. c.event = r2.event /\ r2.earned = NULL
    BY <1>1 DEF ReadNow, SameSession
  <1>3. p \in Periods /\ c.event <= r.event /\ r.event \in Nat /\ c.event \in Nat
    BY <1>1 DEF IInv, InFlight, CopyHolds, IsRow, Feeds
  <1>4. r2.event \in Nat /\ r.event <= r2.event /\ (r.earned # NULL => r2.earned # NULL)
    BY <1>1 DEF Feeds
  <1>5. c.event = r.event /\ r2.event = r.event /\ r.earned = NULL
    BY <1>2, <1>3, <1>4
  <1> QED
    BY <1>1, <1>3, <1>5 DEF ReadNow, Feeds

\* A request that does not move still gathers.
LEMMA GatheringStays ==
  ASSUME IInv, TypeInv, NEW t \in Sessions, Gathering(t), SameSession(t),
         \A p \in Recorded : Feeds(p)
  PROVE  Gathering(t)'
PROOF
  <1> SUFFICES ASSUME Busy(t)' PROVE Covers(t)' /\ Queued(t)' /\ Summed(t)' /\ Unbilled(t)'
    BY DEF Gathering
  <1>1. Busy(t) /\ Covers(t) /\ Queued(t) /\ Summed(t) /\ Unbilled(t)
    BY DEF Gathering, Busy, SameSession
  <1>2. PICK x, l, d, o : /\ x = request[t].doc /\ l = loaded[t] /\ d = dirty[t] /\ o = todo[t]
                          /\ x = request'[t].doc /\ l = loaded'[t] /\ d = dirty'[t] /\ o = todo'[t]
    BY DEF SameSession
  <1>3. x \in Docs /\ documents \subseteq Docs
    BY <1>1, <1>2, TypeParts DEF TypeInv, Ingesting, Busy, TablesOK
  <1>4. DOMAIN d \subseteq DOMAIN l /\ (pc[t] = "no_invoices" => Head(o) \in DOMAIN l)
    <2>1. DOMAIN d \subseteq DOMAIN l /\ o \in Seq(DOMAIN l) /\ (pc[t] = "no_invoices" => o # <<>>)
      BY <1>2 DEF IInv, InFlight
    <2> QED
      BY <2>1, HeadTailProperties
  <1>5. Covers(t)'
    <2> SUFFICES ASSUME NEW p \in Recorded, p \in Overlapping(x), periods'[p].earned = NULL
                 PROVE  p \in DOMAIN l
      BY <1>2 DEF Covers
    <2>1. periods[p].earned = NULL
      BY DEF Feeds
    <2> QED
      BY <1>1, <1>2, <2>1 DEF Covers
  <1>6. Queued(t)'
    BY <1>1, <1>2 DEF Queued
  <1>7. PICK docs, docs2 : docs = documents \cup {x} /\ docs2 = documents' \cup {x} /\ docs \subseteq Docs
    BY <1>3
  <1>8. Visible(t) = docs /\ Visible(t)' = docs2
    BY <1>2, <1>7 DEF Visible
  <1>9. Summed(t)'
    <2> SUFFICES ASSUME NEW p \in DOMAIN d, p \in Recorded, ReadNow(t, p)'
                 PROVE  Complete(p, d[p], docs2)
      BY <1>2, <1>8 DEF Summed
    <2>1. PICK r : r = d[p]
      OBVIOUS
    <2>2. p \in DOMAIN loaded[t]
      BY <1>2, <1>4
    <2>3. /\ ReadNow(t, p) /\ p \in Periods
          /\ \/ documents' = documents
             \/ \E e \in Docs : documents' = documents \cup {e} /\ ~Dated(p, {e})
      BY <2>2, ReadBefore
    <2>4. Complete(p, r, docs)
      BY <1>1, <1>2, <1>8, <2>1, <2>3 DEF Summed
    <2>5. CASE documents' = documents
      BY <1>7, <2>1, <2>4, <2>5
    <2>6. ASSUME NEW e \in Docs, documents' = documents \cup {e}, ~Dated(p, {e})
          PROVE  Complete(p, r, docs2)
      <3>1. docs2 = docs \cup {e}
        BY <1>7, <2>6
      <3> QED
        BY <1>7, <2>3, <2>4, <2>6, <3>1, CompleteStays
    <2> QED
      BY <2>1, <2>3, <2>5, <2>6
  <1>10. Unbilled(t)'
    <2> SUFFICES ASSUME NEW p \in Recorded, pc'[t] = "no_invoices", p = Head(o), ReadNow(t, p)'
                 PROVE  ~Dated(p, Invoices(docs2))
      BY <1>2, <1>8 DEF Unbilled
    <2>1. pc[t] = "no_invoices" /\ p \in DOMAIN loaded[t]
      BY <1>2, <1>4 DEF SameSession
    <2>2. /\ ReadNow(t, p) /\ p \in Periods
          /\ \/ documents' = documents
             \/ \E e \in Docs : documents' = documents \cup {e} /\ ~Dated(p, {e})
      BY <2>1, ReadBefore
    <2>3. ~Dated(p, Invoices(docs))
      BY <1>1, <1>2, <1>8, <2>1, <2>2 DEF Unbilled
    <2>4. CASE documents' = documents
      BY <1>7, <2>3, <2>4
    <2>5. ASSUME NEW e \in Docs, documents' = documents \cup {e}, ~Dated(p, {e})
          PROVE  ~Dated(p, Invoices(docs2))
      <3>1. docs2 = docs \cup {e}
        BY <1>7, <2>5
      <3> QED
        BY <2>2, <2>3, <2>5, <3>1, UnbilledStays
    <2> QED
      BY <2>2, <2>4, <2>5
  <1> QED
    BY <1>5, <1>6, <1>9, <1>10

\* A transaction that is not committed feeds nothing.
LEMMA NothingFeeds ==
  ASSUME TypeInv, \A p \in Recorded : OpenComplete(p), UNCHANGED tables
  PROVE  \A p \in Recorded : Feeds(p) /\ OpenComplete(p)'
PROOF
  <1> SUFFICES ASSUME NEW p \in Recorded PROVE Feeds(p) /\ OpenComplete(p)'
    OBVIOUS
  <1>1. p \in Periods /\ periods[p] # NULL
    BY RebateAssumption DEF OpenComplete
  <1>2. periods[p].event \in Nat
    BY <1>1, RowOf DEF Rows
  <1>3. UNCHANGED <<periods, events, documents>>
    BY DEF tables
  <1> QED
    BY <1>2, <1>3 DEF Feeds, OpenComplete

\* A step of one request.
LEMMA OneGathers ==
  ASSUME IInv, TypeInv, GatherInv, NEW s \in Sessions, \A t \in Sessions \ {s} : SameSession(t),
         \A p \in Recorded : Feeds(p) /\ OpenComplete(p)', Gathering(s)'
  PROVE  GatherInv'
PROOF
  <1>1. \A t \in Sessions \ {s} : Gathering(t)'
    BY GatheringStays DEF GatherInv
  <1> QED
    BY <1>1 DEF GatherInv

\* A request that is answered gathers nothing.
LEMMA EndGathers ==
  ASSUME IInv, TypeInv, GatherInv, NEW s \in Sessions, EndRequest(s),
         \A p \in Recorded : Feeds(p) /\ OpenComplete(p)'
  PROVE  GatherInv'
PROOF
  <1>1. Shapes
    BY DEF IInv
  <1>2. /\ pc' = [pc EXCEPT ![s] = "idle"] /\ request' = [request EXCEPT ![s] = NULL]
        /\ todo' = [todo EXCEPT ![s] = <<>>] /\ loaded' = [loaded EXCEPT ![s] = <<>>]
        /\ dirty' = [dirty EXCEPT ![s] = <<>>]
    BY DEF EndRequest, ClearSession
  <1>3. \A t \in Sessions \ {s} : SameSession(t)
    BY <1>1, <1>2 DEF Shapes, SameSession
  <1>4. pc'[s] = "idle"
    BY <1>1, <1>2 DEF Shapes
  <1>5. Gathering(s)'
    BY <1>4 DEF Gathering, Busy
  <1> QED
    BY <1>3, <1>5, OneGathers

\* A request that ends without a commit.
LEMMA RolledBackGathers ==
  ASSUME IInv, TypeInv, GatherInv, NEW s \in Sessions, EndRequest(s), UNCHANGED tables
  PROVE  GatherInv'
PROOF
  <1>1. \A p \in Recorded : OpenComplete(p)
    BY DEF GatherInv
  <1>2. \A p \in Recorded : Feeds(p) /\ OpenComplete(p)'
    BY <1>1, NothingFeeds
  <1> QED
    BY <1>2, EndGathers

\* A step of one request in which no transaction commits.
LEMMA AloneGathers ==
  ASSUME IInv, TypeInv, GatherInv, NEW s \in Sessions, UNCHANGED tables,
         \A t \in Sessions \ {s} : SameSession(t), Gathering(s)'
  PROVE  GatherInv'
PROOF
  <1>1. \A p \in Recorded : OpenComplete(p)
    BY DEF GatherInv
  <1>2. \A p \in Recorded : Feeds(p) /\ OpenComplete(p)'
    BY <1>1, NothingFeeds
  <1> QED
    BY <1>2, OneGathers

-----------------------------------------------------------------------------
\* The SELECT finds the open periods, and each of them is still to do.
LEMMA StartIngestGathers ==
  ASSUME IInv, TypeInv, GatherInv, NEW s \in Sessions, NEW d \in Docs, StartIngest(s, d)
  PROVE  GatherInv'
PROOF
  <1> DEFINE found == {p \in Overlapping(d) : periods[p] # NULL /\ periods[p].earned = NULL}
  <1>1. PICK order \in [1 .. Cardinality(found) -> found] :
          /\ todo' = [todo EXCEPT ![s] = order]
          /\ \A i, j \in DOMAIN order : order[i] = order[j] => i = j
    BY DEF StartIngest
  <1>2. PICK l, r : l = [p \in found |-> periods[p]] /\ r = [kind |-> "ingest", doc |-> d]
    OBVIOUS
  <1>3. /\ pc' = [pc EXCEPT ![s] = "aggregate"] /\ request' = [request EXCEPT ![s] = r]
        /\ loaded' = [loaded EXCEPT ![s] = l] /\ pc[s] = "idle"
        /\ UNCHANGED <<tables, today, rowLock, dirty>>
    BY <1>2 DEF StartIngest
  <1>4. \A p \in Recorded : p \in Overlapping(d) /\ periods[p].earned = NULL => p \in found
    BY DEF GatherInv, OpenComplete
  <1>5. found \subseteq Periods
    BY DEF Overlapping
  <1> HIDE DEF found
  <1>6. Shapes /\ InFlight(s)
    BY DEF IInv
  <1>7. /\ pc'[s] = "aggregate" /\ request'[s] = r /\ loaded'[s] = l /\ todo'[s] = order
        /\ dirty'[s] = dirty[s] /\ periods' = periods
    BY <1>1, <1>3, <1>6 DEF Shapes, tables
  <1>8. \A t \in Sessions \ {s} : SameSession(t)
    BY <1>1, <1>3, <1>6 DEF Shapes, SameSession
  <1>9. DOMAIN l = found /\ r.doc = d /\ DOMAIN dirty[s] = {}
    BY <1>2, <1>3, <1>6 DEF InFlight
  <1>10. \A p \in found : \E i \in DOMAIN order : order[i] = p
    <2>1. IsFiniteSet(found)
      BY <1>5, FS_Subset, RebateAssumption
    <2>2. PICK n : n = Cardinality(found) /\ n \in Nat
      BY <2>1, FS_CardinalityType
    <2>3. order \in [1 .. n -> found] /\ \A i, j \in 1 .. n : order[i] = order[j] => i = j
      BY <1>1, <2>2
    <2>4. PICK D : D = 1 .. n /\ IsFiniteSet(D) /\ Cardinality(D) = n
      BY <2>2, FS_Interval
    <2>5. order \in Surjection(D, found)
      <3>1. order \in Injection(D, found)
        BY <2>3, <2>4 DEF Injection, IsInjective
      <3> QED
        BY <2>1, <2>2, <2>4, <3>1, FS_Injection
    <2> QED
      BY <1>1, <2>2, <2>4, <2>5 DEF Surjection
  <1>11. Covers(s)'
    BY <1>4, <1>7, <1>9 DEF Covers, Overlapping
  <1>12. Queued(s)'
    BY <1>7, <1>9, <1>10 DEF Queued
  <1>13. Summed(s)' /\ Unbilled(s)'
    BY <1>7, <1>9 DEF Summed, Unbilled
  <1>14. Gathering(s)'
    BY <1>11, <1>12, <1>13 DEF Gathering
  <1>15. UNCHANGED tables
    BY <1>3
  <1> QED
    BY <1>8, <1>14, <1>15, AloneGathers

\* The new copy of p has the spend and the source that the ingest gives it.
LEMMA AggregateGathers ==
  ASSUME IInv, TypeInv, GatherInv, NEW s \in Sessions, NEW source \in Sources, NEW docs,
         pc[s] \in {"aggregate", "no_invoices"}, todo[s] # <<>>,
         Aggregate(s, Head(todo[s]), source, docs),
         UNCHANGED <<tables, today, rowLock, request, todo, loaded>>,
         NEW p, p = Head(todo[s]),
         p \in Recorded /\ ReadNow(s, p) =>
           \A r : r.source = source /\ r.spend = SpendOf(p, docs) => Complete(p, r, Visible(s))
  PROVE  GatherInv'
PROOF
  <1>1. Shapes /\ InFlight(s) /\ Covers(s) /\ Queued(s) /\ Summed(s)
    BY DEF IInv, GatherInv, Gathering, Busy
  <1>2. p \in DOMAIN loaded[s]
    <2>1. todo[s] \in Seq(DOMAIN loaded[s])
      BY <1>1 DEF InFlight
    <2> QED
      BY <2>1, HeadTailProperties
  <1>3. PICK n : n = [loaded[s][p] EXCEPT !.spend = SpendOf(p, docs), !.source = source]
    OBVIOUS
  <1>4. n.source = source /\ n.spend = SpendOf(p, docs)
    <2>1. PICK c, total : c = loaded[s][p] /\ total = SpendOf(p, docs) /\ c \in Rows
      BY <1>2, SessionHas DEF IsIdentityMap
    <2>2. n = [c EXCEPT !.spend = total, !.source = source]
      BY <1>3, <2>1
    <2>3. n.source = source /\ n.spend = total
      BY <2>1, <2>2 DEF Rows
    <2> QED
      BY <2>1, <2>3
  <1>5. PICK d : d = dirty[s]
    OBVIOUS
  <1>6. PICK all : all = [q \in DOMAIN d \cup {p} |-> IF q = p THEN n ELSE d[q]]
    OBVIOUS
  <1>7. dirty' = [dirty EXCEPT ![s] = all] /\ pc' = [pc EXCEPT ![s] = "write"]
    BY <1>3, <1>5, <1>6 DEF Aggregate
  <1>8. /\ pc'[s] = "write" /\ dirty'[s] = all /\ todo'[s] = todo[s] /\ loaded'[s] = loaded[s]
        /\ request'[s] = request[s] /\ UNCHANGED tables /\ UNCHANGED <<periods, events, documents>>
    BY <1>1, <1>7 DEF Shapes, tables
  <1>9. \A t \in Sessions \ {s} : SameSession(t)
    BY <1>1, <1>7 DEF Shapes, SameSession
  <1>10. /\ DOMAIN all = DOMAIN d \cup {p} /\ all[p] = n
         /\ \A q \in DOMAIN d : q # p => all[q] = d[q]
    BY <1>6
  <1>11. \A q \in Periods : ReadNow(s, q)' <=> ReadNow(s, q)
    BY <1>8 DEF ReadNow
  <1>12. Visible(s)' = Visible(s)
    BY <1>8 DEF Visible
  <1>13. Covers(s)'
    BY <1>1, <1>8 DEF Covers
  <1>14. Queued(s)'
    BY <1>1, <1>5, <1>8, <1>10 DEF Queued
  <1>15. Summed(s)'
    <2> SUFFICES ASSUME NEW q \in DOMAIN all, q \in Recorded, ReadNow(s, q)'
                 PROVE  Complete(q, all[q], Visible(s))
      BY <1>8, <1>12 DEF Summed
    <2>1. q \in Periods /\ ReadNow(s, q)
      BY <1>11, RebateAssumption
    <2>2. CASE q = p
      BY <1>4, <1>10, <2>1, <2>2
    <2>3. CASE q # p
      BY <1>1, <1>5, <1>10, <2>1, <2>3 DEF Summed
    <2> QED
      BY <2>2, <2>3
  <1>16. Unbilled(s)'
    BY <1>8 DEF Unbilled
  <1>17. Gathering(s)'
    BY <1>13, <1>14, <1>15, <1>16 DEF Gathering
  <1> QED
    BY <1>8, <1>9, <1>17, AloneGathers

\* With an invoice in sight the invoices decide; without one there is none in the period.
LEMMA ReadInvoicesGathers ==
  ASSUME IInv, TypeInv, GatherInv, NEW s \in Sessions, ReadInvoices(s)
  PROVE  GatherInv'
PROOF
  <1>1. PICK p, docs : p = Head(todo[s]) /\ docs = Invoices(Visible(s))
    OBVIOUS
  <1>2. /\ pc[s] = "aggregate" /\ todo[s] # <<>>
        /\ UNCHANGED <<tables, today, rowLock, request, todo, loaded>>
    BY DEF ReadInvoices
  <1>3. CASE loaded[s][p].source = "invoice_aggregation" \/ docs # {}
    <2>1. PICK source : source = "invoice_aggregation" /\ source \in Sources
      BY DEF Sources
    <2>2. Aggregate(s, Head(todo[s]), source, docs)
      BY <1>1, <1>3, <2>1 DEF ReadInvoices
    <2>3. \A r : r.source = source /\ r.spend = SpendOf(p, docs) => Complete(p, r, Visible(s))
      BY <1>1, <2>1 DEF Complete
    <2> QED
      BY <1>1, <1>2, <2>1, <2>2, <2>3, AggregateGathers
  <1>4. CASE ~ (loaded[s][p].source = "invoice_aggregation" \/ docs # {})
    <2>1. pc' = [pc EXCEPT ![s] = "no_invoices"] /\ UNCHANGED dirty
      BY <1>1, <1>4 DEF ReadInvoices
    <2>2. Shapes /\ Covers(s) /\ Queued(s) /\ Summed(s)
      BY <1>2 DEF IInv, GatherInv, Gathering, Busy
    <2>3. /\ pc'[s] = "no_invoices" /\ dirty'[s] = dirty[s] /\ todo'[s] = todo[s]
          /\ loaded'[s] = loaded[s] /\ request'[s] = request[s] /\ UNCHANGED tables
          /\ UNCHANGED <<periods, events, documents>>
      BY <1>2, <2>1, <2>2 DEF Shapes, tables
    <2>4. \A t \in Sessions \ {s} : SameSession(t)
      BY <1>2, <2>1, <2>2 DEF Shapes, SameSession
    <2>5. Visible(s)' = Visible(s)
      BY <2>3 DEF Visible
    <2>6. Covers(s)' /\ Queued(s)'
      BY <2>2, <2>3 DEF Covers, Queued
    <2>7. Summed(s)'
      BY <2>2, <2>3, <2>5 DEF Summed, ReadNow
    <2>8. Unbilled(s)'
      <3>1. \A q : ~Dated(q, docs)
        BY <1>4 DEF Dated
      <3> QED
        BY <1>1, <2>5, <3>1 DEF Unbilled
    <2>9. Gathering(s)'
      BY <2>6, <2>7, <2>8 DEF Gathering
    <2> QED
      BY <2>3, <2>4, <2>9, AloneGathers
  <1> QED
    BY <1>3, <1>4

\* The transactions decide where there is still no invoice in the period.
LEMMA ReadTransactionsGathers ==
  ASSUME IInv, TypeInv, GatherInv, NEW s \in Sessions, ReadTransactions(s)
  PROVE  GatherInv'
PROOF
  <1>1. PICK p, docs, source :
          /\ p = Head(todo[s]) /\ docs = Transactions(Visible(s))
          /\ source = "transaction_aggregation"
    OBVIOUS
  <1>2. /\ pc[s] = "no_invoices" /\ Aggregate(s, Head(todo[s]), source, docs)
        /\ UNCHANGED <<tables, today, rowLock, request, todo, loaded>>
    BY <1>1 DEF ReadTransactions
  <1>3. todo[s] # <<>> /\ Unbilled(s) /\ source \in Sources
    BY <1>1, <1>2 DEF IInv, InFlight, GatherInv, Gathering, Busy, Sources
  <1>4. ASSUME p \in Recorded, ReadNow(s, p), NEW r, r.source = source, r.spend = SpendOf(p, docs)
        PROVE  Complete(p, r, Visible(s))
    <2>1. ~Dated(p, Invoices(Visible(s)))
      BY <1>1, <1>2, <1>3, <1>4 DEF Unbilled
    <2> QED
      BY <1>1, <1>4, <2>1 DEF Complete
  <1> QED
    BY <1>1, <1>2, <1>3, <1>4, AggregateGathers

\* The amount is calculated, and the period is done.
LEMMA WriteExpectedGathers ==
  ASSUME IInv, TypeInv, GatherInv, NEW s \in Sessions, WriteExpected(s)
  PROVE  GatherInv'
PROOF
  <1>1. PICK p, v : p = Head(todo[s]) /\ v = LatestVersion(events, p, "expected_amount") + 1
    OBVIOUS
  <1>2. /\ Shapes /\ InFlight(s) /\ pc[s] = "write"
        /\ Covers(s) /\ Queued(s) /\ Summed(s)
    BY DEF IInv, WriteExpected, GatherInv, Gathering, Busy
  <1>3. p \in DOMAIN dirty[s] /\ todo[s] # <<>> /\ todo[s] \in Seq(DOMAIN loaded[s])
    BY <1>1, <1>2 DEF InFlight
  <1>4. PICK d, n, amount : /\ d = dirty[s] /\ n = d[p] /\ n \in Rows
                            /\ amount = Calculated(p, n.spend, v)
    BY <1>3, SessionHas DEF IsIdentityMap
  <1> DEFINE f1 == [n EXCEPT !.expected = amount]
             f2 == [f1 EXCEPT !.event = v]
             all == [d EXCEPT ![p] = f2]
  <1>5. dirty' = [dirty EXCEPT ![s][p].expected = Calculated(p, dirty[s][p].spend, v),
                               ![s][p].event = v]
        /\ todo' = [todo EXCEPT ![s] = Tail(@)] /\ pc' = [pc EXCEPT ![s] = "aggregate"]
        /\ UNCHANGED <<tables, today, request, loaded>>
    BY <1>1 DEF WriteExpected
  <1>6. dirty' = [dirty EXCEPT ![s] = all]
    BY <1>2, <1>3, <1>4, <1>5 DEF Shapes
  <1>7. f2.source = n.source /\ f2.spend = n.spend
    <2>1. f1.source = n.source /\ f1.spend = n.spend
          /\ f1 = [spend |-> n.spend, source |-> n.source, expected |-> amount, event |-> n.event,
                   earned |-> n.earned, received |-> n.received, status |-> n.status]
      BY <1>4 DEF Rows
    <2> HIDE DEF f1
    <2> QED
      BY <2>1
  <1>8. /\ DOMAIN all = DOMAIN d /\ all[p] = f2 /\ \A q \in DOMAIN d : q # p => all[q] = d[q]
    BY <1>3, <1>4
  <1> HIDE DEF f1, f2, all
  <1>9. /\ pc'[s] = "aggregate" /\ dirty'[s] = all /\ todo'[s] = Tail(todo[s])
        /\ loaded'[s] = loaded[s] /\ request'[s] = request[s] /\ UNCHANGED tables
        /\ UNCHANGED <<periods, events, documents>>
    BY <1>2, <1>5, <1>6 DEF Shapes, tables
  <1>10. \A t \in Sessions \ {s} : SameSession(t)
    BY <1>2, <1>5, <1>6 DEF Shapes, SameSession
  <1>11. Visible(s)' = Visible(s)
    BY <1>9 DEF Visible
  <1>12. Covers(s)'
    BY <1>2, <1>9 DEF Covers
  <1>13. Queued(s)'
    <2>1. PICK o : o = todo[s]
      OBVIOUS
    <2>2. o # <<>> /\ o \in Seq(DOMAIN loaded[s]) /\ p = o[1]
      BY <1>1, <1>3, <2>1
    <2>3. /\ Len(Tail(o)) = Len(o) - 1 /\ Tail(o) \in Seq(DOMAIN loaded[s])
          /\ \A i \in 1 .. Len(Tail(o)) : Tail(o)[i] = o[i + 1]
      BY <2>2, HeadTailProperties
    <2>4. ASSUME NEW i \in DOMAIN o, o[i] # p
          PROVE  \E j \in DOMAIN Tail(o) : Tail(o)[j] = o[i]
      <3>1. i \in 1 .. Len(o) /\ i # 1 /\ Len(o) \in Nat
        BY <2>2, <2>4
      <3>2. i - 1 \in 1 .. Len(Tail(o)) /\ (i - 1) + 1 = i
        BY <2>3, <3>1
      <3>3. Tail(o)[i - 1] = o[i]
        BY <2>3, <3>2
      <3>4. i - 1 \in DOMAIN Tail(o)
        BY <2>3, <3>2
      <3> QED
        BY <3>3, <3>4
    <2> SUFFICES ASSUME NEW q \in DOMAIN loaded[s], q \notin DOMAIN d
                 PROVE  \E j \in DOMAIN Tail(o) : Tail(o)[j] = q
      BY <1>8, <1>9, <2>1 DEF Queued
    <2>5. PICK i \in DOMAIN o : o[i] = q
      BY <1>2, <1>4, <2>1 DEF Queued
    <2>6. q # p
      BY <1>3, <1>4
    <2> QED
      BY <2>4, <2>5, <2>6
  <1>14. Summed(s)'
    <2> SUFFICES ASSUME NEW q \in DOMAIN d, q \in Recorded, ReadNow(s, q)'
                 PROVE  Complete(q, all[q], Visible(s))
      BY <1>8, <1>9, <1>11 DEF Summed
    <2>1. ReadNow(s, q)
      BY <1>9 DEF ReadNow
    <2>2. Complete(q, d[q], Visible(s))
      BY <1>2, <1>4, <2>1 DEF Summed
    <2>3. CASE q = p
      BY <1>4, <1>7, <1>8, <2>2, <2>3 DEF Complete
    <2>4. CASE q # p
      BY <1>8, <2>2, <2>4
    <2> QED
      BY <2>3, <2>4
  <1>15. Unbilled(s)'
    BY <1>9 DEF Unbilled
  <1>16. Gathering(s)'
    BY <1>12, <1>13, <1>14, <1>15 DEF Gathering
  <1> QED
    BY <1>9, <1>10, <1>16, AloneGathers

-----------------------------------------------------------------------------
\* The row of p keeps what its aggregates are.
Retains(p) ==
  /\ periods'[p].spend = periods[p].spend /\ periods'[p].source = periods[p].source
  /\ periods'[p].event = periods[p].event

\* A commit without a document, which leaves the aggregates.
LEMMA RetainsGathers ==
  ASSUME IInv, TypeInv, GatherInv, NEW s \in Sessions, EndRequest(s), documents' = documents,
         TypeInv', \A p \in Periods : Carries(p),
         \A p \in Recorded : periods'[p] # NULL /\ Retains(p)
  PROVE  GatherInv'
PROOF
  <1> SUFFICES ASSUME NEW p \in Recorded PROVE Feeds(p) /\ OpenComplete(p)'
    BY EndGathers
  <1>1. PICK r, r2 : r = periods[p] /\ r2 = periods'[p]
    OBVIOUS
  <1>2. p \in Periods /\ OpenComplete(p)
    BY RebateAssumption DEF GatherInv
  <1>3. r # NULL /\ r2 # NULL /\ r \in Rows
    BY <1>1, <1>2, RowOf DEF OpenComplete
  <1>4. /\ r2.spend = r.spend /\ r2.source = r.source /\ r2.event = r.event /\ r.event \in Nat
        /\ (r.earned # NULL => r2.earned # NULL)
    BY <1>1, <1>2, <1>3 DEF Retains, Carries, Rows
  <1>5. Feeds(p)
    BY <1>1, <1>4 DEF Feeds
  <1>6. r.earned = NULL => Complete(p, r, documents)
    BY <1>1, <1>2 DEF OpenComplete
  <1>7. r2.earned = NULL => Complete(p, r2, documents)
    BY <1>4, <1>6 DEF Complete
  <1> QED
    BY <1>1, <1>3, <1>5, <1>7 DEF OpenComplete

\* Recording a period leaves the periods that have a row.
LEMMA RecordPeriodGathers ==
  ASSUME IInv, TypeInv, TypeInv', GatherInv, NEW s \in Sessions, NEW p \in Periods,
         NEW spend \in Spends, RecordPeriod(s, p, spend)
  PROVE  GatherInv'
PROOF
  <1>1. PICK rows, added, docs : Commit(rows, added, docs) /\ DOMAIN rows = {p} /\ docs = {}
    BY DEF RecordPeriod
  <1>2. EndRequest(s) /\ periods[p] = NULL
    BY DEF RecordPeriod
  <1>3. CASE UNCHANGED tables
    BY <1>2, <1>3, RolledBackGathers
  <1>4. CASE ~ UNCHANGED tables
    <2>1. /\ periods' = [q \in Periods |-> IF q \in DOMAIN rows THEN rows[q] ELSE periods[q]]
          /\ documents' = documents \cup docs
      BY <1>1, <1>4 DEF Commit
    <2>2. documents' = documents
      BY <1>1, <2>1
    <2>3. ASSUME NEW q \in Recorded PROVE periods'[q] = periods[q] /\ periods[q] # NULL /\ q \in Periods
      <3>1. q \in Periods /\ periods[q] # NULL
        BY RebateAssumption DEF GatherInv, OpenComplete
      <3> QED
        BY <1>1, <1>2, <2>1, <3>1
    <2>4. \A q \in Recorded : Feeds(q) /\ OpenComplete(q)'
      <3> SUFFICES ASSUME NEW q \in Recorded PROVE Feeds(q) /\ OpenComplete(q)'
        OBVIOUS
      <3>1. periods[q].event \in Nat
        BY <2>3, RowOf DEF Rows
      <3>2. OpenComplete(q)
        BY DEF GatherInv
      <3> QED
        BY <2>2, <2>3, <3>1, <3>2 DEF Feeds, OpenComplete
    <2> QED
      BY <1>2, <2>4, EndGathers
  <1> QED
    BY <1>3, <1>4

\* A close or a receipt leaves the aggregates.
LEMMA UpdateGathers ==
  ASSUME IInv, TypeInv, TypeInv', GatherInv, NEW s \in Sessions, pc[s] \in {"close", "receipt"},
         NEW new, UpdatePeriod(s, new), NEW copy, copy = loaded[s][request[s].period],
         new.spend = copy.spend, new.source = copy.source, new.event = copy.event,
         periods' = periods \/ \A p \in Periods : Carries(p)
  PROVE  GatherInv'
PROOF
  <1>1. PICK p, row, rows, docs :
          /\ p = request[s].period /\ row = FlushRow(periods[p], copy, new)
          /\ rows = [q \in {p} |-> row] /\ docs = {} /\ Commit(rows, {}, docs)
    BY DEF UpdatePeriod
  <1>2. EndRequest(s)
    BY DEF UpdatePeriod
  <1>3. CASE UNCHANGED tables
    BY <1>2, <1>3, RolledBackGathers
  <1>4. CASE ~ UNCHANGED tables
    <2>1. /\ periods' = [q \in Periods |-> IF q \in DOMAIN rows THEN rows[q] ELSE periods[q]]
          /\ events' = events \cup {} /\ documents' = documents \cup docs
      BY <1>1, <1>4 DEF Commit
    <2>2. documents' = documents /\ events' = events /\ periods' # periods
      BY <1>1, <1>4, <2>1 DEF tables
    <2>3. \A q \in Periods : Carries(q)
      BY <2>2
    <2>4. row.spend = periods[p].spend /\ row.source = periods[p].source
          /\ row.event = periods[p].event
      BY <1>1 DEF FlushRow, Column
    <2>5. ASSUME NEW q \in Recorded PROVE periods'[q] # NULL /\ Retains(q)
      <3>1. q \in Periods /\ periods[q] # NULL
        BY RebateAssumption DEF GatherInv, OpenComplete
      <3>2. Retains(q)
        BY <1>1, <2>1, <2>4, <3>1 DEF Retains
      <3>3. ChainOf(q)' # {}
        BY <2>2, <3>1 DEF IInv, Trails, ChainOf
      <3>4. periods'[q] # NULL
        BY <3>1, <3>3 DEF TypeInv, Present
      <3> QED
        BY <3>2, <3>4
    <2> QED
      BY <1>2, <2>2, <2>3, <2>5, RetainsGathers
  <1> QED
    BY <1>3, <1>4

\* What closing and a receipt write besides.
LEMMA CloseCommitGathers ==
  ASSUME IInv, TypeInv, TypeInv', GatherInv, NEW s \in Sessions, CloseCommit(s),
         periods' = periods \/ \A p \in Periods : Carries(p)
  PROVE  GatherInv'
PROOF
  <1>1. pc[s] = "close"
    BY DEF CloseCommit
  <1>2. PICK c : c = loaded[s][request[s].period] /\ c \in Rows
    BY <1>1, CopyType
  <1>3. PICK x, status : x = c.expected.amount /\ status = RefreshedStatus(c, TRUE)
    OBVIOUS
  <1>4. PICK n : n = [c EXCEPT !.earned = x, !.status = status] /\ UpdatePeriod(s, n)
    BY <1>2, <1>3 DEF CloseCommit
  <1>5. n.spend = c.spend /\ n.source = c.source /\ n.event = c.event
    <2>1. n = [c EXCEPT !.earned = x, !.status = status]
      BY <1>4
    <2>2. DOMAIN c = DOMAIN n /\ {"spend", "source", "event"} \subseteq DOMAIN c
      BY ONLY <1>2, <2>1 DEF Rows
    <2> QED
      BY ONLY <2>1, <2>2
  <1>6. /\ pc[s] \in {"close", "receipt"} /\ UpdatePeriod(s, n)
        /\ c = loaded[s][request[s].period]
    BY <1>1, <1>2, <1>4
  <1> QED
    BY <1>5, <1>6, UpdateGathers

\* What closing and a receipt write besides.
LEMMA ReceiptCommitGathers ==
  ASSUME IInv, TypeInv, TypeInv', GatherInv, NEW s \in Sessions, ReceiptCommit(s),
         periods' = periods \/ \A p \in Periods : Carries(p)
  PROVE  GatherInv'
PROOF
  <1>1. pc[s] = "receipt"
    BY DEF ReceiptCommit
  <1>2. PICK c : c = loaded[s][request[s].period] /\ c \in Rows
    BY <1>1, CopyType
  <1>3. PICK paid : paid = [c EXCEPT !.received = request[s].amount]
    OBVIOUS
  <1>4. PICK status : status = RefreshedStatus(paid, c.earned # NULL)
    OBVIOUS
  <1>5. PICK n : n = [paid EXCEPT !.status = status] /\ UpdatePeriod(s, n)
    BY <1>2, <1>3, <1>4 DEF ReceiptCommit
  <1>6. /\ paid.spend = c.spend /\ paid.source = c.source /\ paid.event = c.event
        /\ n.spend = paid.spend /\ n.source = paid.source /\ n.event = paid.event
    BY <1>2, <1>3, <1>5 DEF Rows
  <1>7. n.spend = c.spend /\ n.source = c.source /\ n.event = c.event
    BY <1>6
  <1>8. /\ pc[s] \in {"close", "receipt"} /\ UpdatePeriod(s, n)
        /\ c = loaded[s][request[s].period]
    BY <1>1, <1>2, <1>5
  <1> QED
    BY <1>7, <1>8, UpdateGathers

-----------------------------------------------------------------------------
\* What an ingest has committed of a period: its sum, on the row that it had read.
Wrote(s, p) ==
  /\ loaded[s][p].event = periods[p].event
  /\ periods[p].event \in Nat /\ periods'[p].event = periods[p].event + 1
  /\ periods'[p].spend = dirty[s][p].spend /\ periods'[p].source = dirty[s][p].source
  /\ periods'[p].earned = periods[p].earned /\ periods'[p] # NULL

\* An ingest that is not rolled back.
LEMMA IngestWrites ==
  ASSUME IInv, TypeInv, TypeInv', NEW s \in Sessions, IngestCommit(s), ~ UNCHANGED tables
  PROVE  /\ documents' = documents \cup {request[s].doc}
         /\ \A p \in DOMAIN dirty[s] : Wrote(s, p)
         /\ \A p \in Periods : p \notin DOMAIN dirty[s] => periods'[p] = periods[p]
PROOF
  <1> DEFINE EventOf(p) == ExpectedEvent(p, dirty[s][p].event, loaded[s][p].expected,
                                         dirty[s][p].expected, "recalculation")
  <1>1. PICK added, rows : added = {EventOf(p) : p \in DOMAIN dirty[s]} /\ rows = Flushed(s)
    OBVIOUS
  <1>2. /\ Accepts(events \cup added, added, rows) /\ events' = events \cup added
        /\ periods' = [q \in Periods |-> IF q \in DOMAIN rows THEN rows[q] ELSE periods[q]]
        /\ documents' = documents \cup {request[s].doc}
    BY <1>1 DEF IngestCommit, Commit
  <1>3. DOMAIN rows = DOMAIN dirty[s] /\ pc[s] = "aggregate" /\ InFlight(s)
    BY <1>1 DEF Flushed, IngestCommit, IInv
  <1>4. ASSUME NEW p \in DOMAIN dirty[s] PROVE Wrote(s, p)
    <2>1. PICK old, new, e : old = loaded[s][p] /\ new = dirty[s][p] /\ e = EventOf(p)
      OBVIOUS
    <2>2. /\ e \in added /\ e.parent = p /\ e.new = new.expected
          /\ e = ExpectedEvent(p, new.event, old.expected, new.expected, "recalculation")
      BY <1>1, <2>1 DEF ExpectedEvent, Event
    <2>3. \A d \in added : d.parent = p => d = e
      BY <1>1, <2>1 DEF ExpectedEvent, Event
    <2> HIDE DEF EventOf
    <2>4. EventInsertable(events, e) /\ ChainIntegrity(events \cup added, e)
      BY <1>2, <2>2 DEF Accepts
    <2>5. Announces(s, p, old, new, added, e)
      BY <1>3, <2>1, <2>2, <2>3 DEF Announces
    <2>6. Continues(p, old, new)
      BY <2>4, <2>5, IngestHadReadTheRow, Zenon
    <2>7. /\ Shown(p) /\ ChainOf(p) # {} /\ Aggregated(p, old, new)
          /\ new.event = periods[p].event + 1
          /\ old.spend = periods[p].spend /\ old.source = periods[p].source
          /\ old.event = periods[p].event
      BY <2>6 DEF Continues
    <2>8. PICK row : row = FlushRow(periods[p], old, new) /\ periods'[p] = row
      <3>1. p \in Periods
        BY <1>3 DEF InFlight
      <3>2. rows[p] = FlushRow(periods[p], old, new)
        BY <1>1, <2>1 DEF Flushed
      <3> QED
        BY <1>2, <1>3, <3>1, <3>2
    <2>9. new.earned = old.earned
      BY <2>7 DEF Aggregated
    <2>10. /\ row.spend = new.spend /\ row.source = new.source /\ row.event = new.event
           /\ row.earned = periods[p].earned
      BY <2>7, <2>8, <2>9 DEF FlushRow, Column
    <2>11. periods[p].event \in Nat
      BY <2>7 DEF Shown, IsRow
    <2>12. periods'[p] # NULL
      <3>1. e \in ChainOf(p)'
        BY <1>2, <2>2 DEF ChainOf, Chain, ExpectedEvent, Event
      <3>2. p \in Periods
        BY <1>3 DEF InFlight
      <3> QED
        BY <3>1, <3>2 DEF TypeInv, Present
    <2> QED
      BY <2>1, <2>7, <2>8, <2>10, <2>11, <2>12 DEF Wrote
  <1>5. \A p \in Periods : p \notin DOMAIN dirty[s] => periods'[p] = periods[p]
    BY <1>2, <1>3
  <1> QED
    BY <1>2, <1>4, <1>5

\* The sums of an ingest are complete with its document, and no other period needs it.
LEMMA IngestCommitGathers ==
  ASSUME IInv, TypeInv, TypeInv', GatherInv, NEW s \in Sessions, IngestCommit(s)
  PROVE  GatherInv'
PROOF
  <1>1. /\ EndRequest(s) /\ pc[s] = "aggregate" /\ todo[s] = <<>>
        /\ Covers(s) /\ Queued(s) /\ Summed(s)
    BY DEF IngestCommit, GatherInv, Gathering, Busy
  <1>2. CASE UNCHANGED tables
    BY <1>1, <1>2, RolledBackGathers
  <1>3. CASE ~ UNCHANGED tables
    <2>1. PICK x, docs2 : x = request[s].doc /\ x \in Docs /\ docs2 = documents \cup {x}
      BY <1>1, SessionHas
    <2>2. documents' = docs2 /\ Visible(s) = docs2 /\ documents \subseteq Docs
      BY <1>3, <2>1, IngestWrites, TypeParts DEF Visible, TypeInv, TablesOK
    <2> SUFFICES ASSUME NEW p \in Recorded PROVE Feeds(p) /\ OpenComplete(p)'
      BY <1>1, EndGathers
    <2>3. PICK r, r2 : r = periods[p] /\ r2 = periods'[p]
      OBVIOUS
    <2>4. p \in Periods /\ OpenComplete(p)
      BY RebateAssumption DEF GatherInv
    <2>5. r # NULL /\ r \in Rows /\ r.event \in Nat /\ (r.earned = NULL => Complete(p, r, documents))
      BY <2>3, <2>4, RowOf DEF OpenComplete, Rows
    <2>6. CASE p \in DOMAIN dirty[s]
      <3>1. Wrote(s, p)
        BY <1>3, <2>6, IngestWrites
      <3>2. PICK n : n = dirty[s][p]
        OBVIOUS
      <3>3. /\ loaded[s][p].event = r.event /\ r2.event = r.event + 1 /\ r2.spend = n.spend
            /\ r2.source = n.source /\ r2.earned = r.earned /\ r2 # NULL
        BY <2>3, <3>1, <3>2 DEF Wrote
      <3>4. Feeds(p)
        <4>1. r2.event \in Nat /\ r.event <= r2.event /\ r2.event # r.event
          BY <2>5, <3>3
        <4> QED
          BY <2>1, <2>2, <2>3, <2>5, <3>3, <4>1 DEF Feeds
      <3>5. ASSUME r2.earned = NULL PROVE Complete(p, r2, docs2)
        <4>1. ReadNow(s, p)
          BY <2>3, <3>3, <3>5 DEF ReadNow
        <4>2. Complete(p, n, docs2)
          BY <1>1, <2>2, <2>6, <3>2, <4>1 DEF Summed
        <4> QED
          BY <3>3, <4>2 DEF Complete
      <3> QED
        BY <2>2, <2>3, <3>3, <3>4, <3>5 DEF OpenComplete
    <2>7. CASE p \notin DOMAIN dirty[s]
      <3>1. r2 = r
        BY <1>3, <2>3, <2>4, <2>7, IngestWrites
      <3>2. p \notin DOMAIN loaded[s]
        BY <1>1, <2>7 DEF Queued
      <3>3. r.earned = NULL => ~Dated(p, {x})
        BY <1>1, <2>1, <2>3, <2>4, <3>2, OverlappingDated DEF Covers
      <3>4. Feeds(p)
        <4>1. \E d \in Docs : /\ documents' = documents \cup {d}
                              /\ ~Dated(p, {d}) \/ periods[p].earned # NULL
          BY <2>1, <2>2, <2>3, <3>3, Zenon
        <4>2. periods'[p] = periods[p] /\ periods[p].event \in Nat
          BY <2>3, <2>5, <3>1
        <4>3. /\ periods[p].event \in Nat /\ periods'[p].event \in Nat
              /\ periods[p].event <= periods'[p].event
              /\ periods[p].earned # NULL => periods'[p].earned # NULL
          BY <4>2
        <4>4. \E d \in Docs : /\ documents' = documents \cup {d}
                              /\ \/ ~Dated(p, {d})
                                 \/ periods[p].earned # NULL
                                 \/ periods'[p].event # periods[p].event
          BY <4>1, Zenon
        <4> QED
          BY <4>3, <4>4, Zenon DEF Feeds
      <3>5. r.earned = NULL => Complete(p, r, docs2)
        BY <2>1, <2>2, <2>4, <2>5, <3>3, CompleteStays
      <3> QED
        BY <2>2, <2>3, <2>5, <3>1, <3>4, <3>5 DEF OpenComplete
    <2> QED
      BY <2>6, <2>7
  <1> QED
    BY <1>2, <1>3

-----------------------------------------------------------------------------
\* What migration 0021 finds was entered by hand.
LEMMA InitGathers == Init => GatherInv
PROOF
  <1> SUFFICES ASSUME Init PROVE GatherInv
    OBVIOUS
  <1>1. TypeInv
    BY InitType
  <1>2. ASSUME NEW p \in Recorded PROVE OpenComplete(p)
    <2>1. PICK spend, f : p \in Periods /\ periods[p] = NewRow(spend, f) /\ ChainOf(p) # {}
      <3>1. PICK spend \in [Recorded -> Spends] :
              /\ periods = [q \in Periods |->
                              IF q \in Recorded THEN NewRow(spend[q], Legacy(q, spend[q])) ELSE NULL]
              /\ events = {ExpectedEvent(q, 1, NoFigure, Legacy(q, spend[q]), "initial_backfill") :
                             q \in Recorded}
        BY DEF Init
      <3>2. p \in Periods
        BY RebateAssumption
      <3>3. PICK e : e = ExpectedEvent(p, 1, NoFigure, Legacy(p, spend[p]), "initial_backfill")
        OBVIOUS
      <3>4. e \in events /\ e.parent = p /\ e.measure = "expected_amount"
        BY <3>1, <3>3 DEF ExpectedEvent, Event
      <3>5. e \in ChainOf(p)
        BY <3>4 DEF ChainOf, Chain
      <3>6. periods[p] = NewRow(spend[p], Legacy(p, spend[p]))
        BY <3>1, <3>2
      <3> QED
        BY <3>2, <3>5, <3>6
    <2>2. periods[p].source = "manual"
      BY <2>1 DEF NewRow
    <2>3. periods[p] # NULL
      BY <1>1, <2>1 DEF TypeInv, Present
    <2> QED
      BY <2>2, <2>3 DEF OpenComplete, Complete
  <1>3. \A s \in Sessions : Gathering(s)
    BY DEF Init, Gathering, Busy
  <1> QED
    BY <1>2, <1>3 DEF GatherInv

\* Every step keeps GatherInv.
LEMMA StepGathers ==
  IInv /\ TypeInv /\ TypeInv' /\ GatherInv /\ [Next]_vars => GatherInv'
PROOF
  <1> SUFFICES ASSUME IInv, TypeInv, TypeInv', GatherInv, [Next]_vars PROVE GatherInv'
    OBVIOUS
  <1>0. periods' = periods \/ \A p \in Periods : Carries(p)
    BY StepInvariant
  <1>1. ASSUME UNCHANGED <<tables, session>> PROVE GatherInv'
    <2>1. \A t \in Sessions : SameSession(t)
      BY <1>1 DEF session, SameSession
    <2>2. UNCHANGED tables /\ \A p \in Recorded : OpenComplete(p)
      BY <1>1 DEF GatherInv
    <2>3. \A p \in Recorded : Feeds(p) /\ OpenComplete(p)'
      BY <2>2, NothingFeeds
    <2>4. \A t \in Sessions : Gathering(t)'
      BY <2>1, <2>3, GatheringStays DEF GatherInv
    <2> QED
      BY <2>3, <2>4 DEF GatherInv
  <1>2. CASE Tick \/ UNCHANGED vars
    BY <1>1, <1>2 DEF Tick, vars
  <1>3. ASSUME NEW s \in Sessions, NEW p \in Periods, NEW r, LoadPeriod(s, p, r),
               r.kind \in {"close", "receipt"}
        PROVE  GatherInv'
    <2>1. /\ Shapes /\ UNCHANGED tables /\ UNCHANGED <<todo, dirty>>
          /\ pc' = [pc EXCEPT ![s] = r.kind] /\ request' = [request EXCEPT ![s] = r]
      BY <1>3 DEF LoadPeriod, IInv
    <2>2. PICK l : loaded' = [loaded EXCEPT ![s] = l]
      BY <1>3 DEF LoadPeriod
    <2>3. \A t \in Sessions \ {s} : SameSession(t)
      BY <2>1, <2>2 DEF Shapes, SameSession
    <2>4. pc'[s] \in {"close", "receipt"}
      BY <1>3, <2>1 DEF Shapes
    <2>5. Gathering(s)'
      BY <2>4 DEF Gathering, Busy
    <2> QED
      BY <2>1, <2>3, <2>5, AloneGathers
  <1>4. ASSUME NEW s \in Sessions, NEW p \in Periods, RequestClose(s, p) PROVE GatherInv'
    <2>1. PICK r : r = [kind |-> "close", doc |-> NULL, period |-> p, asOf |-> today]
      OBVIOUS
    <2>2. LoadPeriod(s, p, r) /\ r.kind = "close"
      BY <1>4, <2>1 DEF RequestClose
    <2> QED
      BY <1>3, <2>2
  <1>5. ASSUME NEW s \in Sessions, NEW p \in Periods, NEW amount \in Receipts,
               RequestReceipt(s, p, amount)
        PROVE  GatherInv'
    <2>1. PICK r : r = [kind |-> "receipt", doc |-> NULL, period |-> p, amount |-> amount]
      OBVIOUS
    <2>2. LoadPeriod(s, p, r) /\ r.kind = "receipt"
      BY <1>5, <2>1 DEF RequestReceipt
    <2> QED
      BY <1>3, <2>2
  <1>6. ASSUME NEW s \in Sessions, Ingest(s) PROVE GatherInv'
    BY <1>6, ReadInvoicesGathers, ReadTransactionsGathers, WriteExpectedGathers,
       IngestCommitGathers DEF Ingest
  <1>7. ASSUME NEW s \in Sessions, CloseCommit(s) \/ ReceiptCommit(s) PROVE GatherInv'
    BY <1>0, <1>7, CloseCommitGathers, ReceiptCommitGathers
  <1>8. ASSUME NEW s \in Sessions, CloseConflict(s) \/ DeadlockAbort(s) \/ Crash(s)
        PROVE  GatherInv'
    BY <1>8, RolledBackGathers DEF CloseConflict, DeadlockAbort, Crash
  <1>9. ASSUME NEW s \in Sessions, NEW d \in Docs, StartIngest(s, d) PROVE GatherInv'
    BY <1>9, StartIngestGathers
  <1>10. ASSUME NEW s \in Sessions, NEW p \in Periods, NEW spend \in Spends,
                RecordPeriod(s, p, spend)
         PROVE  GatherInv'
    BY <1>10, RecordPeriodGathers
  <1> QED
    BY <1>2, <1>4, <1>5, <1>6, <1>7, <1>8, <1>9, <1>10 DEF Next, Close

\* GatherInv is an invariant of the rebate periods.
LEMMA Gathers == Spec => []GatherInv
PROOF
  <1>1. IInv /\ TypeInv /\ TypeInv' /\ GatherInv /\ [Next]_vars => GatherInv'
    BY StepGathers
  <1> QED
    BY <1>1, InitGathers, Invariant, TypeInvariant, PTL DEF Spec

\* The spend of an open period that had a row when the ingests began is complete for the
\* source that the row shows, whatever was ingested at the same time
\* (recalculate_affected_periods).  A period that is recorded while a document for it is being
\* ingested misses the document.
THEOREM FoundAggregatesAreComplete ==
  Spec => [](\A p \in Recorded : OpenComplete(p))
PROOF
  <1>1. GatherInv => \A p \in Recorded : OpenComplete(p)
    BY DEF GatherInv
  <1> QED
    BY <1>1, Gathers, PTL

\* The spend of an open period that documents feed counts every committed document of its
\* source in the period, and no better source has a document there, also when documents are
\* ingested at the same time (recalculate_affected_periods), where nobody records a period
\* between the ingests.
THEOREM AggregatesAreComplete ==
  ASSUME Recorded = Periods
  PROVE  Spec => []OpenAggregatesAreComplete
PROOF
  <1>1. TypeInv /\ GatherInv => OpenAggregatesAreComplete
    <2> SUFFICES ASSUME TypeInv, GatherInv, NEW p \in Periods, periods[p].earned = NULL
                 PROVE  CASE periods[p].source = "invoice_aggregation" ->
                               periods[p].spend = SpendOf(p, Invoices(documents))
                          [] periods[p].source = "transaction_aggregation" ->
                               /\ periods[p].spend = SpendOf(p, Transactions(documents))
                               /\ ~Dated(p, Invoices(documents))
                          [] periods[p].source = "manual" -> TRUE
      BY DEF OpenAggregatesAreComplete
    <2>1. PICK r : r = periods[p] /\ Complete(p, r, documents)
      BY DEF GatherInv, OpenComplete
    <2>2. r.source \in Sources
      <3>1. periods[p] # NULL
        BY DEF GatherInv, OpenComplete
      <3> QED
        BY <2>1, <3>1, RowOf DEF Rows
    <2>3. CASE r.source = "manual"
      BY <2>1, <2>3
    <2>4. CASE r.source = "transaction_aggregation"
      BY <2>1, <2>4 DEF Complete
    <2>5. CASE r.source = "invoice_aggregation"
      BY <2>1, <2>5 DEF Complete
    <2> QED
      BY <2>2, <2>3, <2>4, <2>5 DEF Sources
  <1> QED
    BY <1>1, Gathers, TypeInvariant, PTL

=============================================================================
