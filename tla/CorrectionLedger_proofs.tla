------------------------ MODULE CorrectionLedger_proofs ------------------------
(***************************************************************************)
(* Proofs about CorrectionLedger, for any reports, batches and number of   *)
(* ingests.                                                                *)
(*                                                                         *)
(* Rows are only appended and an ingest runs once.  So what an ingest has  *)
(* read stays a description of the rows up to where it looked, and every   *)
(* row can be traced to the answer, the copy and the item that it came     *)
(* from.  Both are needed: without the second a row says nothing about     *)
(* what its ingest knew.                                                   *)
(***************************************************************************)
EXTENDS CorrectionLedger, FiniteSetTheorems, SequenceTheorems, TLAPS

\* The rows that correct nothing, as of the first n of them.
ActiveUpTo(g, n) == {i \in 1 .. n : rows[i].grain = g /\ rows[i].corrects = NULL}

\* What an ingest has read is what was there.
CopyHolds(r) ==
  LET q == request[r]
  IN  /\ q \in Ingests
      /\ q.seen <= Len(rows)
      /\ LedgerOf[q.grain] \in Locked =>
           /\ \A k \in DOMAIN q.existing : q.existing[k] \in ActiveUpTo(q.grain, q.seen)
           /\ \A i \in ActiveUpTo(q.grain, q.seen) : \E k \in DOMAIN q.existing : q.existing[k] = i
           /\ \A k, l \in DOMAIN q.existing : q.existing[k] = q.existing[l] => k = l
      /\ LedgerOf[q.grain] \in Single => Len(q.items) = 1
      /\ LedgerOf[q.grain] \notin Locked => q.target \in (1 .. q.seen) \cup {NULL}

InFlight == \A r \in Requests : pc[r] # "idle" => CopyHolds(r)

\* Where a row comes from.
ComesFrom(j) ==
  LET r == rows[j].by
      q == request[r]
  IN  /\ pc[r] = "answered"
      /\ q.grain = rows[j].grain
      /\ q.seen < j
      /\ ~Ambiguous(q) /\ ~PeriodLocked(q) /\ References(q)
      /\ \E i \in DOMAIN q.items : rows[j].corrects = Corrects(q, i)

Provenance == \A j \in DOMAIN rows : ComesFrom(j)

IInv ==
  /\ TypeOK
  /\ InFlight
  /\ Provenance
  /\ FullReplacementCoversEveryRow

-----------------------------------------------------------------------------
(* Operators                                                                *)

\* The rows of a finite set, in whatever order a SELECT returns them.
LEMMA OrdersAre ==
  ASSUME NEW S, IsFiniteSet(S), NEW s \in Orders(S)
  PROVE  /\ s \in Seq(S)
         /\ \A x \in S : \E k \in DOMAIN s : s[k] = x
         /\ \A k, l \in DOMAIN s : s[k] = s[l] => k = l
PROOF
  <1> DEFINE n == Cardinality(S)
  <1>1. n \in Nat
    BY FS_CardinalityType
  <1>2. s \in Injection(1 .. n, S) /\ s \in Surjection(1 .. n, S)
    BY DEF Orders, Bijection
  <1>3. s \in [1 .. n -> S]
    BY <1>2 DEF Injection
  <1>4. s \in Seq(S)
    BY <1>1, <1>3
  <1>5. \A x \in S : \E k \in 1 .. n : s[k] = x
    BY <1>2 DEF Surjection
  <1>6. \A k, l \in DOMAIN s : s[k] = s[l] => k = l
    BY <1>2 DEF Injection, IsInjective
  <1> QED
    BY <1>3, <1>4, <1>5, <1>6

\* The rows that an ingest may find: all of its report that correct nothing.
LEMMA ActiveIs ==
  ASSUME TypeOK, NEW g
  PROVE  Active(g) = ActiveUpTo(g, Len(rows)) /\ IsFiniteSet(Active(g))
PROOF
  <1>1. Len(rows) \in Nat /\ DOMAIN rows = 1 .. Len(rows)
    BY DEF TypeOK
  <1>2. Active(g) = ActiveUpTo(g, Len(rows))
    BY <1>1 DEF Active, Of, ActiveUpTo
  <1>3. IsFiniteSet(1 .. Len(rows))
    BY <1>1, FS_Interval
  <1>4. Active(g) \subseteq 1 .. Len(rows)
    BY <1>2 DEF ActiveUpTo
  <1> QED
    BY <1>2, <1>3, <1>4, FS_Subset

\* corrects_id of the i-th new row.
LEMMA CorrectsIs ==
  ASSUME NEW q, NEW i
  PROVE  /\ LedgerOf[q.grain] \notin Locked => Corrects(q, i) = q.target
         /\ LedgerOf[q.grain] \in Locked =>
              Corrects(q, i) = IF q.correction /\ i <= Len(q.existing) THEN q.existing[i] ELSE NULL
PROOF
  <1>1. CASE LedgerOf[q.grain] \notin Locked
    BY <1>1 DEF Corrects
  <1>2. CASE LedgerOf[q.grain] \in Locked
    BY <1>2 DEF Corrects
  <1> QED
    BY <1>1, <1>2

-----------------------------------------------------------------------------
(* Steps                                                                    *)

\* Which step there was: an ingest reads, gives up, or inserts.
LEMMA Steps ==
  ASSUME [Next]_vars
  PROVE  \/ UNCHANGED vars
         \/ \E r \in Requests, g \in Grains, items \in Batches \cup {<<NULL>>},
               correction \in BOOLEAN :
              /\ pc[r] = "idle" /\ LedgerOf[g] \in Locked
              /\ LedgerOf[g] \in Single => items = <<NULL>>
              /\ \E order \in Orders(Active(g)) : Begin(r, g, items, correction, order)
         \/ \E r \in Requests, g \in Grains, target \in DOMAIN rows \cup {NULL} :
              pc[r] = "idle" /\ LedgerOf[g] \notin Locked /\ BeginFree(r, g, target)
         \/ \E r \in Requests, how \in {"conflict", "failed"} :
              pc[r] = "read" /\ Answer(r, how) /\ UNCHANGED rows
         \/ \E r \in Requests : Insert(r)
PROOF
  <1>1. CASE UNCHANGED vars
    BY <1>1
  <1>2. ASSUME NEW r \in Requests, NEW g \in Grains, NEW correction \in BOOLEAN,
               BeginWorkingCapital(r, g, correction) \/ BeginAging(r, g, correction)
        PROVE  /\ pc[r] = "idle" /\ LedgerOf[g] \in Locked
               /\ \E order \in Orders(Active(g)) : Begin(r, g, <<NULL>>, correction, order)
    BY <1>2 DEF BeginWorkingCapital, BeginAging, BeginSingle, Locked, Single
  <1>3. ASSUME NEW r \in Requests, NEW g \in Grains, NEW batch \in Batches,
               NEW correction \in BOOLEAN, BeginBatch(r, g, batch, correction)
        PROVE  /\ pc[r] = "idle" /\ LedgerOf[g] \in Locked /\ LedgerOf[g] \notin Single
               /\ \E order \in Orders(Active(g)) : Begin(r, g, batch, correction, order)
    BY <1>3 DEF BeginBatch, Locked, Single
  <1>4. ASSUME NEW r \in Requests, NEW g \in Grains, NEW target,
               BeginFx(r, g, target) \/ BeginRoute(r, g, target)
        PROVE  pc[r] = "idle" /\ LedgerOf[g] \notin Locked /\ BeginFree(r, g, target)
    BY <1>4 DEF BeginFx, BeginRoute, Locked, Single
  <1>5. ASSUME NEW r \in Requests, Conflict(r) \/ Fail(r)
        PROVE  \E how \in {"conflict", "failed"} : pc[r] = "read" /\ Answer(r, how) /\ UNCHANGED rows
    BY <1>5 DEF Conflict, Fail
  <1> QED
    BY <1>1, <1>2, <1>3, <1>4, <1>5 DEF Next

\* Rows are appended, each with what its ingest makes of its copy.
LEMMA InsertAppends ==
  ASSUME TypeOK, InFlight, NEW r \in Requests, Insert(r)
  PROVE  LET q == request[r]
         IN  /\ q \in Ingests /\ CopyHolds(r)
             /\ rows' \in Seq(RowsOfLedgers)
             /\ Len(rows') = Len(rows) + Len(q.items)
             /\ \A j \in 1 .. Len(rows) : rows'[j] = rows[j]
             /\ \A j \in (Len(rows) + 1) .. Len(rows') :
                  /\ rows'[j].grain = q.grain /\ rows'[j].by = r
                  /\ j - Len(rows) \in DOMAIN q.items
                  /\ rows'[j].corrects = Corrects(q, j - Len(rows))
PROOF
  <1> DEFINE q == request[r]
             new == NewRows(r)
  <1>1. CopyHolds(r) /\ q \in Ingests
    BY DEF Insert, InFlight, CopyHolds
  <1>2. q.items \in Seq(Items \cup {NULL}) /\ q.existing \in Seq(Nat) /\ q.grain \in Grains
        /\ q.target \in Nat \cup {NULL}
    BY <1>1 DEF Ingests
  <1>3. \A i \in DOMAIN q.items : Corrects(q, i) \in Nat \cup {NULL}
    <2> SUFFICES ASSUME NEW i \in DOMAIN q.items PROVE Corrects(q, i) \in Nat \cup {NULL}
      OBVIOUS
    <2>1. i \in Nat /\ i >= 1
      BY <1>2
    <2> HIDE DEF q
    <2> QED
      BY <1>2, <2>1, CorrectsIs, Z3
  <1>4. new = [i \in 1 .. Len(q.items) |->
                 [grain |-> q.grain, item |-> q.items[i], corrects |-> Corrects(q, i), by |-> r]]
    BY <1>2 DEF NewRows
  <1> HIDE DEF q, new
  <1>5. \A i \in 1 .. Len(q.items) : new[i] \in RowsOfLedgers
    BY <1>2, <1>3, <1>4 DEF RowsOfLedgers
  <1>6. new \in Seq(RowsOfLedgers) /\ Len(new) = Len(q.items)
    <2>1. Len(q.items) \in Nat
      BY <1>2
    <2>2. new \in [1 .. Len(q.items) -> RowsOfLedgers]
      BY <1>4, <1>5
    <2> QED
      BY <2>1, <2>2
  <1>7. rows' = rows \o new /\ rows \in Seq(RowsOfLedgers)
    BY DEF Insert, new, TypeOK
  <1>8. rows' \in Seq(RowsOfLedgers) /\ Len(rows') = Len(rows) + Len(q.items)
    <2>1. rows \o new \in Seq(RowsOfLedgers) /\ Len(rows \o new) = Len(rows) + Len(new)
      BY <1>6, <1>7, ConcatProperties, Zenon
    <2> QED
      BY <1>6, <1>7, <2>1, Zenon
  <1>9. Len(rows) \in Nat /\ Len(new) \in Nat
    BY <1>6, <1>7
  <1>10. \A j \in 1 .. Len(rows) + Len(new) :
           rows'[j] = IF j <= Len(rows) THEN rows[j] ELSE new[j - Len(rows)]
    BY <1>6, <1>7, ConcatProperties
  <1>11. \A j \in 1 .. Len(rows) : rows'[j] = rows[j]
    BY <1>9, <1>10
  <1>12. ASSUME NEW j \in (Len(rows) + 1) .. Len(rows')
         PROVE  rows'[j] = new[j - Len(rows)] /\ j - Len(rows) \in 1 .. Len(q.items)
    <2>1. j \in Int /\ j > Len(rows) /\ j <= Len(rows) + Len(new)
      BY <1>6, <1>8, <1>9
    <2>2. j \in 1 .. Len(rows) + Len(new) /\ ~(j <= Len(rows))
      BY <1>9, <2>1
    <2>3. rows'[j] = new[j - Len(rows)]
      BY <1>10, <2>2, Zenon
    <2>4. j - Len(rows) \in 1 .. Len(new)
      BY <1>9, <2>1
    <2> QED
      BY <1>6, <2>3, <2>4, Zenon
  <1>13. DOMAIN q.items = 1 .. Len(q.items)
    BY <1>2
  <1>14. ASSUME NEW j \in (Len(rows) + 1) .. Len(rows')
         PROVE  /\ rows'[j].grain = q.grain /\ rows'[j].by = r
                /\ rows'[j].corrects = Corrects(q, j - Len(rows))
    <2>1. new[j - Len(rows)] =
            [grain |-> q.grain, item |-> q.items[j - Len(rows)],
             corrects |-> Corrects(q, j - Len(rows)), by |-> r]
      BY <1>4, <1>12, Zenon
    <2>2. rows'[j] = [grain |-> q.grain, item |-> q.items[j - Len(rows)],
                      corrects |-> Corrects(q, j - Len(rows)), by |-> r]
      BY <1>12, <2>1, Zenon
    <2> QED
      BY <2>2
  <1> QED
    BY <1>1, <1>8, <1>11, <1>12, <1>13, <1>14 DEF q

\* A row that is there stays as it is and where it is.
LEMMA RowsStay ==
  ASSUME TypeOK, InFlight, [Next]_vars
  PROVE  /\ rows' \in Seq(RowsOfLedgers)
         /\ Len(rows) \in Nat /\ Len(rows') \in Nat /\ Len(rows) <= Len(rows')
         /\ DOMAIN rows = 1 .. Len(rows) /\ DOMAIN rows' = 1 .. Len(rows')
         /\ \A j \in 1 .. Len(rows) : rows'[j] = rows[j]
PROOF
  <1>1. rows \in Seq(RowsOfLedgers)
    BY DEF TypeOK
  <1>2. CASE rows' = rows
    BY <1>1, <1>2
  <1>3. ASSUME NEW r \in Requests, Insert(r)
        PROVE  /\ rows' \in Seq(RowsOfLedgers) /\ Len(rows) <= Len(rows')
               /\ \A j \in 1 .. Len(rows) : rows'[j] = rows[j]
    <2>1. request[r].items \in Seq(Items \cup {NULL})
      BY <1>3, InsertAppends DEF Ingests
    <2>2. Len(request[r].items) \in Nat /\ Len(rows) \in Nat
      BY <1>1, <2>1
    <2> QED
      BY <1>3, <2>2, InsertAppends
  <1>4. rows' = rows \/ \E r \in Requests : Insert(r)
    BY Steps DEF vars, Begin, BeginFree
  <1>5. rows' \in Seq(RowsOfLedgers) /\ Len(rows) <= Len(rows')
        /\ \A j \in 1 .. Len(rows) : rows'[j] = rows[j]
    BY <1>1, <1>2, <1>3, <1>4
  <1>6. /\ Len(rows) \in Nat /\ Len(rows') \in Nat
        /\ DOMAIN rows = 1 .. Len(rows) /\ DOMAIN rows' = 1 .. Len(rows')
    BY <1>1, <1>5
  <1> QED
    BY <1>5, <1>6

\* A copy describes the first rows, which stay, so it goes on describing them.
LEMMA CopyStays ==
  ASSUME TypeOK, InFlight, [Next]_vars, NEW r \in Requests, pc[r] # "idle",
         request'[r] = request[r]
  PROVE  CopyHolds(r)'
PROOF
  <1> DEFINE q == request[r]
  <1>1. CopyHolds(r)
    BY DEF InFlight
  <1>2. q \in Ingests /\ q.seen \in Nat /\ q.seen <= Len(rows)
    BY <1>1 DEF CopyHolds, Ingests
  <1>3. q.seen <= Len(rows')
    BY <1>2, RowsStay
  <1>4. \A g : {i \in 1 .. q.seen : rows'[i].grain = g /\ rows'[i].corrects = NULL}
                 = ActiveUpTo(g, q.seen)
    BY <1>2, RowsStay DEF ActiveUpTo
  <1>5. \A g, n : ActiveUpTo(g, n)' = {i \in 1 .. n : rows'[i].grain = g /\ rows'[i].corrects = NULL}
    BY DEF ActiveUpTo
  <1>6. ActiveUpTo(q.grain, q.seen)' = ActiveUpTo(q.grain, q.seen)
    BY <1>4, <1>5
  <1> QED
    BY <1>1, <1>2, <1>3, <1>6 DEF CopyHolds

\* The types, and that what an ingest reads is what is there.
LEMMA BeginLocked ==
  ASSUME TypeOK, InFlight, NEW r \in Requests, NEW g \in Grains,
         NEW items \in Batches \cup {<<NULL>>}, NEW correction \in BOOLEAN,
         LedgerOf[g] \in Locked, LedgerOf[g] \in Single => items = <<NULL>>,
         NEW order \in Orders(Active(g)), Begin(r, g, items, correction, order)
  PROVE  CopyHolds(r)' /\ request'[r] \in Ingests
PROOF
  <1> DEFINE n == Len(rows)
             q == [grain |-> g, items |-> items, correction |-> correction, target |-> NULL,
                   existing |-> order, seen |-> n]
  <1>1. n \in Nat
    BY DEF TypeOK
  <1>2. /\ order \in Seq(Active(g))
        /\ \A x \in Active(g) : \E k \in DOMAIN order : order[k] = x
        /\ \A k, l \in DOMAIN order : order[k] = order[l] => k = l
    BY OrdersAre, ActiveIs
  <1>3. Active(g) = ActiveUpTo(g, n) /\ Active(g) \subseteq Nat
    BY <1>1, ActiveIs DEF ActiveUpTo
  <1>4. order \in Seq(Nat)
    BY <1>2, <1>3, SeqMonotonic
  <1>5. items \in Seq(Items \cup {NULL})
    <2>1. CASE items = <<NULL>>
      BY <2>1
    <2>2. CASE items \in Batches
      <3>1. items \in Seq(Items)
        BY <2>2, LedgerAssumption
      <3> QED
        BY <3>1, SeqMonotonic
    <2> QED
      BY <2>1, <2>2
  <1>6. q \in Ingests
    BY <1>1, <1>4, <1>5 DEF Ingests
  <1>7. request'[r] = q /\ rows' = rows
    BY DEF Begin, TypeOK
  <1>8. \A k \in DOMAIN order : order[k] \in Active(g)
    BY <1>2
  <1>9. ActiveUpTo(g, n)' = ActiveUpTo(g, n)
    BY <1>7 DEF ActiveUpTo
  <1>10. LedgerOf[g] \in Single => Len(items) = 1
    OBVIOUS
  <1>11. q.grain = g /\ q.seen = n /\ q.existing = order /\ q.items = items
    OBVIOUS
  <1> HIDE DEF q
  <1>12. CopyHolds(r)'
    BY <1>1, <1>2, <1>3, <1>6, <1>7, <1>8, <1>9, <1>10, <1>11 DEF CopyHolds
  <1> QED
    BY <1>6, <1>7, <1>12

\* The same of an ingest into a ledger that knows no lock.
LEMMA BeginUnlocked ==
  ASSUME TypeOK, InFlight, NEW r \in Requests, NEW g \in Grains,
         NEW target \in DOMAIN rows \cup {NULL}, LedgerOf[g] \notin Locked, BeginFree(r, g, target)
  PROVE  CopyHolds(r)' /\ request'[r] \in Ingests
PROOF
  <1> DEFINE n == Len(rows)
             q == [grain |-> g, items |-> <<NULL>>, correction |-> target # NULL,
                   target |-> target, existing |-> <<>>, seen |-> n]
  <1>1. n \in Nat /\ DOMAIN rows = 1 .. n
    BY DEF TypeOK
  <1>2. target \in (1 .. n) \cup {NULL} /\ target \in Nat \cup {NULL}
    BY <1>1
  <1>3. <<NULL>> \in Seq(Items \cup {NULL}) /\ <<>> \in Seq(Nat)
    OBVIOUS
  <1>4. q \in Ingests
    BY <1>1, <1>2, <1>3 DEF Ingests
  <1>5. request'[r] = q /\ rows' = rows
    BY DEF BeginFree, TypeOK
  <1>6. LedgerOf[g] \notin Single
    BY DEF Locked
  <1>7. q.grain = g /\ q.seen = n /\ q.target = target
    OBVIOUS
  <1> HIDE DEF q
  <1>8. CopyHolds(r)'
    BY <1>1, <1>2, <1>4, <1>5, <1>6, <1>7 DEF CopyHolds
  <1> QED
    BY <1>4, <1>5, <1>8

\* What an ingest has read stays a description of the first rows.
LEMMA InFlightStep ==
  ASSUME TypeOK, InFlight, [Next]_vars
  PROVE  TypeOK' /\ InFlight'
PROOF
  <1>1. ASSUME NEW r \in Requests, pc'[r] # "idle"
        PROVE  \/ pc[r] # "idle" /\ request'[r] = request[r]
               \/ CopyHolds(r)' /\ request'[r] \in Ingests
    <2>1. CASE UNCHANGED vars
      BY <1>1, <2>1 DEF vars
    <2>3. ASSUME NEW s \in Requests, NEW g \in Grains, NEW items \in Batches \cup {<<NULL>>},
                 NEW correction \in BOOLEAN, LedgerOf[g] \in Locked,
                 LedgerOf[g] \in Single => items = <<NULL>>,
                 NEW order \in Orders(Active(g)), Begin(s, g, items, correction, order)
          PROVE  \/ pc[r] # "idle" /\ request'[r] = request[r]
                 \/ CopyHolds(r)' /\ request'[r] \in Ingests
      <3>1. CASE s = r
        BY <2>3, <3>1, BeginLocked
      <3>2. CASE s # r
        BY <1>1, <2>3, <3>2 DEF Begin, TypeOK
      <3> QED
        BY <3>1, <3>2
    <2>4. ASSUME NEW s \in Requests, NEW g \in Grains, NEW target \in DOMAIN rows \cup {NULL},
                 LedgerOf[g] \notin Locked, BeginFree(s, g, target)
          PROVE  \/ pc[r] # "idle" /\ request'[r] = request[r]
                 \/ CopyHolds(r)' /\ request'[r] \in Ingests
      <3>1. CASE s = r
        BY <2>4, <3>1, BeginUnlocked
      <3>2. CASE s # r
        BY <1>1, <2>4, <3>2 DEF BeginFree, TypeOK
      <3> QED
        BY <3>1, <3>2
    <2>5. ASSUME NEW s \in Requests, NEW how, pc[s] = "read", Answer(s, how)
          PROVE  pc[r] # "idle" /\ request'[r] = request[r]
      BY <1>1, <2>5 DEF Answer, TypeOK
    <2> QED
      BY <2>1, <2>3, <2>4, <2>5, Steps DEF Insert
  <1>2. InFlight'
    BY <1>1, CopyStays DEF InFlight
  <1>3. /\ pc' \in [Requests -> {"idle", "read", "answered", "conflict", "failed"}]
        /\ request' \in [Requests -> Ingests \cup {NULL}]
    <2>1. CASE UNCHANGED vars
      BY <2>1 DEF vars, TypeOK
    <2>2. ASSUME NEW s \in Requests, NEW how \in {"answered", "conflict", "failed"}, Answer(s, how)
          PROVE  /\ pc' \in [Requests -> {"idle", "read", "answered", "conflict", "failed"}]
                 /\ request' \in [Requests -> Ingests \cup {NULL}]
      BY <2>2 DEF Answer, TypeOK
    <2>3. ASSUME NEW s \in Requests, NEW q, request' = [request EXCEPT ![s] = q],
                 pc' = [pc EXCEPT ![s] = "read"], request'[s] \in Ingests
          PROVE  /\ pc' \in [Requests -> {"idle", "read", "answered", "conflict", "failed"}]
                 /\ request' \in [Requests -> Ingests \cup {NULL}]
      BY <2>3 DEF TypeOK
    <2> QED
      BY <2>1, <2>2, <2>3, Steps, BeginLocked, BeginUnlocked, ZenonT(60) DEF Begin, BeginFree, Insert
  <1> QED
    BY <1>2, <1>3, RowsStay DEF TypeOK

\* An answered ingest is over: its copy stays.
LEMMA AnsweredStays ==
  ASSUME TypeOK, [Next]_vars, NEW r \in Requests, pc[r] = "answered"
  PROVE  pc'[r] = "answered" /\ request'[r] = request[r]
PROOF
  <1>1. CASE UNCHANGED vars
    BY <1>1 DEF vars
  <1>2. ASSUME NEW s \in Requests, pc[s] # "answered", NEW q, NEW to,
               request' = [request EXCEPT ![s] = q] \/ request' = request,
               pc' = [pc EXCEPT ![s] = to]
        PROVE  pc'[r] = "answered" /\ request'[r] = request[r]
    BY <1>2 DEF TypeOK
  <1>3. ASSUME NEW s \in Requests, NEW g, NEW items, NEW correction, NEW order,
               pc[s] = "idle", Begin(s, g, items, correction, order)
        PROVE  pc'[r] = "answered" /\ request'[r] = request[r]
    BY <1>2, <1>3 DEF Begin
  <1>4. ASSUME NEW s \in Requests, NEW g, NEW target, pc[s] = "idle", BeginFree(s, g, target)
        PROVE  pc'[r] = "answered" /\ request'[r] = request[r]
    BY <1>2, <1>4 DEF BeginFree
  <1>5. ASSUME NEW s \in Requests, NEW how, pc[s] = "read", Answer(s, how)
        PROVE  pc'[r] = "answered" /\ request'[r] = request[r]
    BY <1>5 DEF Answer, TypeOK
  <1> QED
    BY <1>1, <1>3, <1>4, <1>5, Steps DEF Insert

\* Every row comes from an answered ingest and its copy.
LEMMA ProvenanceStep ==
  ASSUME TypeOK, InFlight, Provenance, [Next]_vars
  PROVE  Provenance'
PROOF
  <1>1. ASSUME NEW j \in 1 .. Len(rows)
        PROVE  ComesFrom(j)'
    <2>1. ComesFrom(j) /\ rows'[j] = rows[j] /\ rows[j].by \in Requests
      <3>1. j \in DOMAIN rows /\ rows'[j] = rows[j]
        BY RowsStay
      <3>2. rows[j] \in RowsOfLedgers
        BY ElementOfSeq DEF TypeOK
      <3> QED
        BY <3>1, <3>2 DEF Provenance, RowsOfLedgers
    <2>2. PICK r : r = rows[j].by /\ r \in Requests
      BY <2>1
    <2>3. pc'[r] = "answered" /\ request'[r] = request[r]
      BY <2>1, <2>2, AnsweredStays DEF ComesFrom
    <2>4. PICK q : q = request[r]
      OBVIOUS
    <2>5. q = request'[r] /\ rows'[j].by = r
      BY <2>1, <2>2, <2>3, <2>4
    <2>6. /\ q.grain = rows[j].grain /\ q.seen < j
          /\ ~Ambiguous(q) /\ ~PeriodLocked(q) /\ References(q)
          /\ \E i \in DOMAIN q.items : rows[j].corrects = Corrects(q, i)
      BY <2>1, <2>2, <2>4 DEF ComesFrom
    <2>7. References(q)'
      BY <2>6, RowsStay DEF References
    <2>8. ~Ambiguous(q)' /\ ~PeriodLocked(q)'
      BY <2>6 DEF Ambiguous, PeriodLocked
    <2>9. \E i \in DOMAIN q.items : (rows[j].corrects = Corrects(q, i))'
      <3>1. PICK i \in DOMAIN q.items : rows[j].corrects = Corrects(q, i)
        BY <2>6
      <3>2. (rows[j].corrects = Corrects(q, i))'
        BY <2>1, <3>1 DEF Corrects
      <3> QED
        BY <3>2
    <2>10. rows'[j].grain = rows[j].grain
      BY <2>1
    <2> QED
      BY <2>3, <2>5, <2>6, <2>7, <2>8, <2>9, <2>10 DEF ComesFrom
  <1>2. ASSUME NEW r \in Requests, Insert(r), NEW j \in (Len(rows) + 1) .. Len(rows')
        PROVE  ComesFrom(j)'
    <2> DEFINE q == request[r]
    <2>1. /\ rows'[j].by = r /\ rows'[j].grain = q.grain
          /\ j - Len(rows) \in DOMAIN q.items /\ rows'[j].corrects = Corrects(q, j - Len(rows))
      BY <1>2, InsertAppends
    <2>2. ~Ambiguous(q) /\ ~PeriodLocked(q) /\ References(q)
      BY <1>2 DEF Insert
    <2>3. pc'[r] = "answered" /\ request' = request
      BY <1>2 DEF Insert, Answer, TypeOK
    <2>4. q.seen < j
      BY <1>2, InsertAppends, RowsStay DEF CopyHolds, Ingests
    <2>5. References(q)'
      BY <2>2, <2>3, RowsStay DEF References
    <2> QED
      BY <2>1, <2>2, <2>3, <2>4, <2>5 DEF ComesFrom, Ambiguous, PeriodLocked, Corrects
  <1>3. Len(rows') = Len(rows) \/ \E r \in Requests : Insert(r)
    BY Steps DEF vars, Begin, BeginFree
  <1> QED
    BY <1>1, <1>2, <1>3, RowsStay, Z3 DEF Provenance

\* The rows of one ingest are inserted at once, and pair with what it has read.
LEMMA ReplacementStep ==
  ASSUME TypeOK, InFlight, Provenance, FullReplacementCoversEveryRow, [Next]_vars
  PROVE  FullReplacementCoversEveryRow'
PROOF
  <1> SUFFICES ASSUME NEW r \in Requests, pc'[r] = "answered",
                      LedgerOf[request'[r].grain] = "inventory", request'[r].correction,
                      Len(request'[r].items) >= Len(request'[r].existing),
                      NEW k \in DOMAIN request'[r].existing
               PROVE  Cardinality({j \in DOMAIN rows' :
                        rows'[j].by = r /\ rows'[j].corrects = request'[r].existing[k]}) = 1
    BY DEF FullReplacementCoversEveryRow
  <1> DEFINE q == request[r]
             Found == {j \in DOMAIN rows : rows[j].by = r /\ rows[j].corrects = q.existing[k]}
             Found1 == {j \in DOMAIN rows' : rows'[j].by = r /\ rows'[j].corrects = q.existing[k]}
  <1>1. request'[r] = request[r] /\ (pc[r] = "answered" \/ Insert(r))
    BY Steps, ZenonT(60) DEF vars, Begin, BeginFree, Insert, Answer, TypeOK
  <1>2. CASE pc[r] = "answered"
    <2>1. ASSUME NEW j \in DOMAIN rows', j \notin DOMAIN rows
          PROVE  rows'[j].by # r
      <3>1. PICK s \in Requests : Insert(s)
        BY <2>1, Steps DEF vars, Begin, BeginFree
      <3>2. j \in (Len(rows) + 1) .. Len(rows')
        BY <2>1, RowsStay
      <3>3. rows'[j].by = s /\ pc[s] = "read"
        BY <3>1, <3>2, InsertAppends DEF Insert
      <3> QED
        BY <1>2, <3>3
    <2>2. Found1 = Found
      BY <2>1, RowsStay
    <2>3. Cardinality(Found) = 1
      BY <1>1, <1>2 DEF FullReplacementCoversEveryRow
    <2> QED
      BY <1>1, <2>2, <2>3
  <1>3. CASE Insert(r)
    <2>1. CopyHolds(r) /\ q \in Ingests
      BY <1>3, InsertAppends
    <2>2. q.existing \in Seq(Nat) /\ q.items \in Seq(Items \cup {NULL})
      BY <2>1 DEF Ingests
    <2>3. k \in 1 .. Len(q.existing) /\ Len(q.existing) \in Nat /\ Len(q.items) \in Nat
          /\ Len(q.items) >= Len(q.existing)
      <3>1. DOMAIN q.existing = 1 .. Len(q.existing) /\ Len(q.existing) \in Nat
        BY <2>2
      <3>2. Len(q.items) \in Nat
        BY <2>2
      <3> QED
        BY <1>1, <3>1, <3>2
    <2>4. q.existing[k] \in Nat /\ q.existing[k] # NULL
      <3>1. q.existing[k] \in Nat
        BY <2>2, <2>3, ElementOfSeq
      <3> QED
        BY <3>1, LedgerAssumption
    <2>5. \A l \in 1 .. Len(q.existing) : q.existing[l] = q.existing[k] => l = k
      BY <1>1, <2>1, <2>2, <2>3 DEF CopyHolds, Locked
    <2>6. \A j \in DOMAIN rows : rows[j].by # r
      BY <1>3 DEF Provenance, ComesFrom, Insert
    <2> DEFINE m == Len(rows) + k
    <2>7. m \in (Len(rows) + 1) .. Len(rows')
      BY <1>3, <2>3, InsertAppends, RowsStay, SMTT(60)
    <2>8. \A j \in (Len(rows) + 1) .. Len(rows') :
            /\ rows'[j].by = r
            /\ rows'[j].corrects = IF j - Len(rows) <= Len(q.existing)
                                     THEN q.existing[j - Len(rows)] ELSE NULL
      <3> TAKE j \in (Len(rows) + 1) .. Len(rows')
      <3>1. rows'[j].by = r /\ rows'[j].corrects = Corrects(q, j - Len(rows))
        BY <1>3, InsertAppends
      <3>2. LedgerOf[q.grain] \in Locked /\ q.correction
        BY <1>1 DEF Locked
      <3> HIDE DEF q
      <3> QED
        BY <3>1, <3>2, CorrectsIs
    <2>9. \A j \in DOMAIN rows' : j \in Found1 <=> j = m
      <3> SUFFICES ASSUME NEW j \in DOMAIN rows' PROVE j \in Found1 <=> j = m
        OBVIOUS
      <3>1. CASE j \in 1 .. Len(rows)
        BY <2>3, <2>6, <3>1, RowsStay
      <3>2. CASE j \in (Len(rows) + 1) .. Len(rows')
        <4>1. j - Len(rows) \in Nat /\ j - Len(rows) >= 1
          BY <3>2, RowsStay
        <4>2. CASE j - Len(rows) <= Len(q.existing)
          <5>1. j - Len(rows) \in 1 .. Len(q.existing)
            BY <2>3, <4>1, <4>2
          <5>2. q.existing[j - Len(rows)] = q.existing[k] <=> j - Len(rows) = k
            BY <2>5, <5>1
          <5>3. rows'[j].by = r /\ rows'[j].corrects = q.existing[j - Len(rows)]
            BY <2>8, <3>2, <4>2
          <5>4. j - Len(rows) = k <=> j = m
            BY <2>3, <3>2, RowsStay, SMTT(60)
          <5> QED
            BY <5>2, <5>3, <5>4
        <4>3. CASE ~(j - Len(rows) <= Len(q.existing))
          <5>1. rows'[j].corrects = NULL
            BY <2>8, <3>2, <4>3
          <5>2. rows'[j].corrects # q.existing[k]
            BY <2>4, <5>1
          <5>3. j # m
            BY <2>3, <4>1, <4>3, RowsStay
          <5> HIDE DEF m
          <5> QED
            BY <5>2, <5>3
        <4> QED
          BY <4>2, <4>3
      <3> QED
        BY <3>1, <3>2, RowsStay
    <2>10. Found1 = {m}
      BY <2>7, <2>9, RowsStay
    <2>11. Cardinality(Found1) = 1
      BY <2>10, FS_Singleton, Zenon
    <2> QED
      BY <1>1, <2>11, Zenon
  <1> QED
    BY <1>1, <1>2, <1>3

-----------------------------------------------------------------------------
(* Theorems                                                                 *)

\* The initial states satisfy the invariant.
LEMMA InitInvariant == Init => IInv
PROOF
  <1> SUFFICES ASSUME Init PROVE IInv
    OBVIOUS
  <1>1. rows \in Seq(RowsOfLedgers) /\ DOMAIN rows = {}
    BY DEF Init
  <1>2. TypeOK
    BY <1>1 DEF Init, TypeOK
  <1> QED
    BY <1>1, <1>2 DEF Init, IInv, InFlight, Provenance, FullReplacementCoversEveryRow

\* Every step keeps the invariant.
LEMMA StepInvariant == IInv /\ [Next]_vars => IInv'
PROOF
  BY InFlightStep, ProvenanceStep, ReplacementStep DEF IInv

\* IInv is an invariant of the ledgers.
LEMMA Invariant == Spec => []IInv
PROOF
  BY InitInvariant, StepInvariant, PTL DEF Spec

\* The ledgers and the copies of the ingests are well typed, corrects_id included.
THEOREM TypeCorrect == Spec => []TypeOK
PROOF
  <1>1. IInv => TypeOK
    BY DEF IInv
  <1> QED
    BY <1>1, Invariant, PTL

\* A correction is of an earlier row of the same table, and in a ledger with a lock
\* of a row of the same report that corrects nothing: there are no chains or cycles
\* to follow (corrects_id of all five ingests).
LEMMA ProvenanceOrdersCorrections == IInv => CorrectionsAreOfEarlierRows
PROOF
  <1> SUFFICES ASSUME IInv, NEW j \in DOMAIN rows, rows[j].corrects # NULL
               PROVE  LET i == rows[j].corrects
                      IN  /\ i < j
                          /\ LedgerOf[rows[i].grain] = LedgerOf[rows[j].grain]
                          /\ LedgerOf[rows[j].grain] \in Locked =>
                               rows[i].grain = rows[j].grain /\ rows[i].corrects = NULL
    BY DEF CorrectionsAreOfEarlierRows
  <1>1. rows \in Seq(RowsOfLedgers) /\ j \in Nat
    BY DEF IInv, TypeOK
  <1>2. rows[j] \in RowsOfLedgers
    BY <1>1
  <1>3. PICK r, q : /\ r \in Requests /\ r = rows[j].by /\ q = request[r]
                    /\ pc[r] = "answered"
                    /\ q.grain = rows[j].grain /\ q.seen < j /\ References(q)
                    /\ \E i \in DOMAIN q.items : rows[j].corrects = Corrects(q, i)
    BY <1>2 DEF IInv, Provenance, ComesFrom, RowsOfLedgers
  <1>4. PICK i \in DOMAIN q.items : rows[j].corrects = Corrects(q, i)
    BY <1>3
  <1>5. CopyHolds(r) /\ q \in Ingests
    BY <1>3 DEF IInv, InFlight, CopyHolds
  <1>6. /\ q.seen \in Nat /\ q.seen <= Len(rows) /\ Len(rows) \in Nat
        /\ q.existing \in Seq(Nat) /\ q.items \in Seq(Items \cup {NULL})
    BY <1>1, <1>3, <1>5 DEF CopyHolds, Ingests
  <1>7. CASE LedgerOf[q.grain] \in Locked
    <2>1. rows[j].corrects = q.existing[i] /\ i <= Len(q.existing)
      BY <1>4, <1>7, CorrectsIs
    <2>2. i \in DOMAIN q.existing
      BY <1>6, <2>1
    <2>3. q.existing[i] \in ActiveUpTo(q.grain, q.seen)
      BY <1>3, <1>5, <1>7, <2>2 DEF CopyHolds
    <2>4. PICK p : p = rows[j].corrects
      OBVIOUS
    <2>5. p \in 1 .. q.seen /\ rows[p].grain = q.grain /\ rows[p].corrects = NULL
      BY <2>1, <2>3, <2>4 DEF ActiveUpTo
    <2>6. p < j
      BY <1>1, <1>3, <1>6, <2>5
    <2> QED
      BY <1>3, <2>4, <2>5, <2>6
  <1>8. CASE LedgerOf[q.grain] \notin Locked
    <2>1. rows[j].corrects = q.target
      BY <1>4, <1>8, CorrectsIs
    <2>2. q.target \in 1 .. q.seen /\ LedgerOf[rows[q.target].grain] = LedgerOf[q.grain]
      BY <1>3, <1>5, <1>8, <2>1 DEF CopyHolds, References
    <2> QED
      BY <1>1, <1>3, <1>6, <1>8, <2>1, <2>2
  <1> QED
    BY <1>7, <1>8

\* Of two reports of one period that both claim to be the first the second did not
\* see the first (PeriodLocked in the ingests of locked ledgers).
LEMMA ProvenanceExplainsDuplicates == IInv => OnlyRacingIngestsDuplicate
PROOF
  <1> SUFFICES ASSUME IInv, NEW i \in DOMAIN rows, NEW j \in DOMAIN rows,
                      i < j, rows[i].by # rows[j].by,
                      rows[i].corrects = NULL, rows[j].corrects = NULL,
                      rows[i].grain = rows[j].grain, LedgerOf[rows[i].grain] \in Locked
               PROVE  \/ request[rows[j].by].seen < i
                      \/ LedgerOf[rows[i].grain] = "inventory" /\ request[rows[j].by].correction
    BY DEF OnlyRacingIngestsDuplicate
  <1>1. rows \in Seq(RowsOfLedgers) /\ i \in Nat /\ i >= 1
    BY DEF IInv, TypeOK
  <1>2. rows[j] \in RowsOfLedgers
    BY <1>1
  <1>3. PICK r, q : /\ r \in Requests /\ r = rows[j].by /\ q = request[r]
                    /\ pc[r] = "answered" /\ q.grain = rows[j].grain
                    /\ ~Ambiguous(q) /\ ~PeriodLocked(q)
                    /\ \E n \in DOMAIN q.items : rows[j].corrects = Corrects(q, n)
    BY <1>2 DEF IInv, Provenance, ComesFrom, RowsOfLedgers
  <1>4. CopyHolds(r) /\ q \in Ingests
    BY <1>3 DEF IInv, InFlight, CopyHolds
  <1>5. q.seen \in Nat /\ q.existing \in Seq(Nat) /\ q.items \in Seq(Items \cup {NULL})
    BY <1>4 DEF Ingests
  <1> SUFFICES ASSUME i <= q.seen
               PROVE  LedgerOf[q.grain] = "inventory" /\ q.correction
    BY <1>1, <1>3, <1>5
  <1>6. \E k \in DOMAIN q.existing : q.existing[k] = i
    <2>1. i \in ActiveUpTo(q.grain, q.seen)
      BY <1>1, <1>3, <1>5 DEF ActiveUpTo
    <2> QED
      BY <1>3, <1>4, <2>1 DEF CopyHolds
  <1>7. Len(q.existing) >= 1 /\ q.existing # <<>> /\ q.existing[1] \in Nat
    <2>1. PICK m : m = q.existing
      OBVIOUS
    <2>2. m \in Seq(Nat) /\ DOMAIN m # {}
      BY <1>5, <1>6, <2>1
    <2>3. Len(m) \in Nat /\ DOMAIN m = 1 .. Len(m) /\ Len(m) >= 1
      BY <2>2
    <2> QED
      BY <2>1, <2>2, <2>3
  <1>8. q.correction
    BY <1>3, <1>7 DEF PeriodLocked
  <1>9. ASSUME LedgerOf[q.grain] \in Single PROVE FALSE
    <2>1. Len(q.items) = 1
      BY <1>3, <1>4, <1>9 DEF CopyHolds
    <2>2. rows[j].corrects = Corrects(q, 1)
      BY <1>3, <1>5, <2>1
    <2>3. Corrects(q, 1) = q.existing[1]
      BY <1>7, <1>8, <1>3, CorrectsIs
    <2> QED
      BY <1>7, <2>2, <2>3, LedgerAssumption
  <1> QED
    BY <1>3, <1>8, <1>9 DEF Locked

\* corrects_id never forms a chain or a cycle and never leaves its table; with a
\* locked period it stays within the report.
THEOREM CorrectionsAreOrdered == Spec => []CorrectionsAreOfEarlierRows
PROOF
  BY Invariant, ProvenanceOrdersCorrections, PTL

\* The lock of a period works for every ingest that can see what is there: two first
\* reports of one period come from ingests that overlapped.
THEOREM DuplicatesOnlyFromRaces == Spec => []OnlyRacingIngestsDuplicate
PROOF
  BY Invariant, ProvenanceExplainsDuplicates, PTL

\* A replacement of an inventory report that is not shorter than what it replaces
\* corrects every row that it saw exactly once (corrects_iter).
THEOREM ReplacementsAreFull == Spec => []FullReplacementCoversEveryRow
PROOF
  <1>1. IInv => FullReplacementCoversEveryRow
    BY DEF IInv
  <1> QED
    BY <1>1, Invariant, PTL

===============================================================================
