----------------------- MODULE ConsolidationFlags_proofs -----------------------
(***************************************************************************)
(* Proofs about ConsolidationFlags, for any suppliers, items, purchases and *)
(* requests, any order of the rows that are read, and whatever the scores   *)
(* of two items are.                                                        *)
(*                                                                         *)
(* Flags are never removed and a request does one thing.  So the copy that  *)
(* a scan keeps of the flags stays a copy of flags that exist, and the scan *)
(* that raised a flag is over: what it was told at its beginning does not   *)
(* change any more.                                                        *)
(***************************************************************************)
EXTENDS ConsolidationFlags, FiniteSetTheorems, TLAPS

Shapes ==
  /\ suppliers \subseteq Suppliers
  /\ bought = [s \in Suppliers |-> [lines |-> bought[s].lines, transactions |-> bought[s].transactions]]
  /\ \A s \in Suppliers : IsFiniteSet(bought[s].lines) /\ IsFiniteSet(bought[s].transactions)
  /\ flags = [f \in DOMAIN flags |-> flags[f]]
  /\ local = [r \in Requests |-> local[r]]
  /\ pc = [r \in Requests |-> pc[r]]

\* What a scan keeps; one of duplicates has read one supplier.
IsScan(l) ==
  /\ l = [kind |-> l.kind, of |-> l.of, sides |-> l.sides, known |-> l.known, before |-> l.before]
  /\ l.kind \in {"duplicate", "consolidation"}
  /\ l.kind = "duplicate" =>
       \E s \in Suppliers : l.of = {s} /\ \A i \in DOMAIN l.sides : l.sides[i].supplier = s

\* The flags that a scan knows exist.
KnownExist(l) ==
  \A t \in l.known : \E f \in DOMAIN flags : /\ f.kind = l.kind /\ Texts(f.sides) = t
                                             /\ l.kind = "duplicate" => SuppliersOf(f) = l.of

\* The flags that existed when a scan began exist, and it knows those of its kind.
BeforeExist(l) == l.before \subseteq DOMAIN flags
BeforeKnown(l) ==
  \A f \in l.before :
    f.kind = l.kind /\ (l.kind = "duplicate" => SuppliersOf(f) = l.of) => Texts(f.sides) \in l.known

\* Every two suspicious items among those that a scan has read are flagged.
Covered(l) ==
  \A i, j \in DOMAIN l.sides :
    i < j /\ Suspicious(l.kind, l.sides[i], l.sides[j]) =>
      IsFlagged(l.kind, l.of, {l.sides[i], l.sides[j]})

\* Each request, where it is.
InFlight(r) ==
  /\ pc[r] \in {"look up", "read items", "flag"} =>
       IsScan(local[r]) /\ KnownExist(local[r]) /\ BeforeExist(local[r])
  /\ pc[r] \in {"read items", "flag"} => BeforeKnown(local[r])
  /\ pc[r] = "read items" => local[r].kind = "consolidation"
  /\ pc[r] \in {"decide", "decide duplicate"} => "sides" \notin DOMAIN local[r]
  /\ pc[r] = "done" /\ local[r] # NULL /\ "sides" \in DOMAIN local[r] => Covered(local[r])

\* The scan that raised a flag is over.
RaisedBy(f) == f.by \in Requests /\ pc[f.by] = "done" /\ BeforeExist(local[f.by])

IInv ==
  /\ Shapes
  /\ \A r \in Requests : InFlight(r)
  /\ \A f \in DOMAIN flags : RaisedBy(f)
  /\ LaterScansNeverRepeat

-----------------------------------------------------------------------------
(* Frames                                                                   *)

\* A request that takes no part in a step is where it was: flags stay on record.
LEMMA OthersStay ==
  ASSUME NEW r \in Requests, InFlight(r), local'[r] = local[r], pc'[r] = pc[r],
         DOMAIN flags \subseteq DOMAIN flags'
  PROVE  InFlight(r)'
PROOF
  <1>1. KnownExist(local[r]) => KnownExist(local[r])'
    BY DEF KnownExist
  <1>2. BeforeExist(local[r]) => BeforeExist(local[r])'
    BY DEF BeforeExist
  <1>3. BeforeKnown(local[r]) => BeforeKnown(local[r])'
    BY DEF BeforeKnown
  <1>4. Covered(local[r]) => Covered(local[r])'
    BY DEF Covered, IsFlagged
  <1>5. IsScan(local[r]) => IsScan(local[r])'
    BY DEF IsScan
  <1> QED
    BY <1>1, <1>2, <1>3, <1>4, <1>5 DEF InFlight

\* A step of one request that raises no flag (Step, SaveStatus).
LEMMA OneRequest ==
  ASSUME IInv, NEW r \in Requests, pc[r] # "done",
         \A t \in Requests \ {r} : local'[t] = local[t] /\ pc'[t] = pc[t],
         DOMAIN flags' = DOMAIN flags, InFlight(r)'
  PROVE  /\ \A t \in Requests : InFlight(t)'
         /\ \A f \in DOMAIN flags' : RaisedBy(f)'
         /\ LaterScansNeverRepeat'
PROOF
  <1>1. \A t \in Requests : InFlight(t)'
    BY OthersStay DEF IInv
  <1>2. \A f \in DOMAIN flags : RaisedBy(f) /\ f.by \in Requests \ {r}
    BY DEF IInv, RaisedBy
  <1>3. \A f \in DOMAIN flags : local'[f.by] = local[f.by] /\ pc'[f.by] = pc[f.by]
    BY <1>2
  <1>4. \A f \in DOMAIN flags' : RaisedBy(f)'
    BY <1>2, <1>3 DEF RaisedBy, BeforeExist
  <1>5. LaterScansNeverRepeat'
    BY <1>3 DEF IInv, LaterScansNeverRepeat
  <1> QED
    BY <1>1, <1>4, <1>5

\* What a read of a request leaves (Step).
LEMMA StepIs ==
  ASSUME Shapes, NEW r \in Requests, NEW l, NEW to, Step(r, l, to)
  PROVE  local'[r] = l /\ pc'[r] = to /\ UNCHANGED flags
PROOF
  BY DEF Shapes, Step, data

\* It disturbs nobody else.
LEMMA ReadStep ==
  ASSUME IInv, NEW r \in Requests, NEW l, NEW to, Step(r, l, to), pc[r] # "done", InFlight(r)'
  PROVE  IInv'
PROOF
  <1>1. /\ local = [t \in Requests |-> local[t]] /\ pc = [t \in Requests |-> pc[t]]
        /\ local' = [local EXCEPT ![r] = l] /\ pc' = [pc EXCEPT ![r] = to]
        /\ UNCHANGED <<suppliers, bought, flags>>
    BY DEF IInv, Shapes, Step, data
  <1>2. \A t \in Requests \ {r} : local'[t] = local[t] /\ pc'[t] = pc[t]
    BY <1>1
  <1>3. Shapes'
    BY <1>1 DEF IInv, Shapes
  <1> QED
    BY <1>1, <1>2, <1>3, OneRequest DEF IInv

-----------------------------------------------------------------------------
(* Purchases                                                                *)

\* A supplier joins, or something is bought: no request and no flag changes.
LEMMA PurchasesKeep ==
  ASSUME IInv, UNCHANGED <<flags, local, pc>>, Shapes'
  PROVE  IInv'
PROOF
  <1>1. \A r \in Requests : InFlight(r)'
    BY OthersStay DEF IInv
  <1>2. \A f \in DOMAIN flags' : RaisedBy(f)'
    BY DEF IInv, RaisedBy, BeforeExist
  <1>3. LaterScansNeverRepeat'
    BY DEF IInv, LaterScansNeverRepeat
  <1> QED
    BY <1>1, <1>2, <1>3 DEF IInv

\* A new supplier has no items yet, and no request has read it.
LEMMA RegisterKeeps ==
  ASSUME IInv, NEW s \in Suppliers, Register(s)
  PROVE  IInv'
PROOF
  <1>1. Shapes'
    BY DEF IInv, Shapes, Register
  <1> QED
    BY <1>1, PurchasesKeep DEF Register

\* A purchase adds items, so that whatever a request read stays a part of them.
LEMMA BuyKeeps ==
  ASSUME IInv, NEW b \in Purchases, Buy(b)
  PROVE  IInv'
PROOF
  <1> DEFINE old == bought[b.supplier]
             new == [old EXCEPT ![b.source] = old[b.source] \cup {b.item}]
  <1>1. /\ b.supplier \in Suppliers
        /\ bought' = [bought EXCEPT ![b.supplier] = new]
    BY DEF IInv, Shapes, Buy
  <1>2. bought = [s \in Suppliers |->
                   [lines |-> bought[s].lines, transactions |-> bought[s].transactions]]
    BY DEF IInv, Shapes
  <1>3. old = [lines |-> old.lines, transactions |-> old.transactions]
    BY <1>1, <1>2
  <1>4. IsFiniteSet(old.lines) /\ IsFiniteSet(old.transactions)
    BY <1>1 DEF IInv, Shapes
  <1>5. /\ new = [lines |-> new.lines, transactions |-> new.transactions]
        /\ new.lines \in {old.lines, old.lines \cup {b.item}}
        /\ new.transactions \in {old.transactions, old.transactions \cup {b.item}}
    <2>1. CASE b.source = "lines"
      <3>1. new = [lines |-> old.lines \cup {b.item}, transactions |-> old.transactions]
        BY <1>3, <2>1, Z3
      <3> QED
        BY <3>1
    <2>2. CASE b.source = "transactions"
      <3>1. new = [lines |-> old.lines, transactions |-> old.transactions \cup {b.item}]
        BY <1>3, <2>2
      <3> QED
        BY <3>1
    <2>3. CASE b.source \notin {"lines", "transactions"}
      <3>1. new = old
        BY <1>3, <2>3
      <3> QED
        BY <1>3, <3>1
    <2> QED
      BY <2>1, <2>2, <2>3
  <1> HIDE DEF new, old
  <1>6. IsFiniteSet(new.lines) /\ IsFiniteSet(new.transactions)
    <2>1. /\ IsFiniteSet(old.lines \cup {b.item})
          /\ IsFiniteSet(old.transactions \cup {b.item})
      BY <1>4, FS_AddElement
    <2> QED
      BY <1>4, <1>5, <2>1
  <1>7. /\ bought'[b.supplier] = new
        /\ \A s \in Suppliers \ {b.supplier} : bought'[s] = bought[s]
        /\ DOMAIN bought' = Suppliers /\ bought' = [s \in Suppliers |-> bought'[s]]
    BY <1>1, <1>2
  <1>8. \A s \in Suppliers : /\ IsFiniteSet(bought'[s].lines) /\ IsFiniteSet(bought'[s].transactions)
                             /\ bought'[s] = [lines |-> bought'[s].lines,
                                               transactions |-> bought'[s].transactions]
    <2> TAKE s \in Suppliers
    <2>1. CASE s = b.supplier
      BY <2>1, <1>5, <1>6, <1>7
    <2>2. CASE s # b.supplier
      <3>1. bought'[s] = bought[s]
        BY <2>2, <1>7
      <3>2. IsFiniteSet(bought[s].lines) /\ IsFiniteSet(bought[s].transactions)
        BY DEF IInv, Shapes
      <3>3. bought[s] = [lines |-> bought[s].lines, transactions |-> bought[s].transactions]
        BY <1>2
      <3> QED
        BY <3>1, <3>2, <3>3
    <2> QED
      BY <2>1, <2>2
  <1>9. bought' = [s \in Suppliers |-> [lines |-> bought'[s].lines,
                                         transactions |-> bought'[s].transactions]]
    BY <1>7, <1>8, Zenon
  <1>10. UNCHANGED <<suppliers, flags, local, pc>>
    BY DEF Buy
  <1>11. Shapes'
    BY <1>8, <1>9, <1>10 DEF IInv, Shapes
  <1> QED
    BY <1>11, PurchasesKeep DEF Buy

-----------------------------------------------------------------------------
(* Scans                                                                    *)

\* The duplicate scan of one supplier starts with the items of that supplier.
LEMMA ScanSupplierKeeps ==
  ASSUME IInv, NEW r \in Requests, NEW s \in Suppliers, ScanSupplier(r, s)
  PROVE  IInv'
PROOF
  <1>0. PICK items \in SetToSeqs(Items(s)) :
          /\ pc[r] = "idle"
          /\ Step(r, [kind |-> "duplicate", of |-> {s}, sides |-> SidesOf(s, items), known |-> {},
                      before |-> DOMAIN flags],
                  IF Cardinality(Items(s)) < 2 THEN "done" ELSE "look up")
    BY DEF ScanSupplier
  <1> DEFINE l == [kind |-> "duplicate", of |-> {s}, sides |-> SidesOf(s, items), known |-> {},
                   before |-> DOMAIN flags]
             to == IF Cardinality(Items(s)) < 2 THEN "done" ELSE "look up"
  <1>1. Step(r, l, to) /\ pc[r] # "done"
    BY <1>0
  <1>2. IsFiniteSet(Items(s)) /\ Cardinality(Items(s)) \in Nat
    BY FS_CardinalityType DEF IInv, Shapes, Items
  <1>3. IsScan(l) /\ KnownExist(l)
    BY DEF IsScan, KnownExist, SidesOf, Side
  <1>4. ASSUME Cardinality(Items(s)) < 2 PROVE Covered(l)
    <2>1. DOMAIN l.sides = 1 .. Cardinality(Items(s))
      BY DEF SidesOf, SetToSeqs
    <2>2. \A i, j \in DOMAIN l.sides : ~(i < j)
      BY <1>2, <1>4, <2>1
    <2> QED
      BY <2>2 DEF Covered
  <1>5. local'[r] = l /\ pc'[r] = to /\ UNCHANGED flags
    BY <1>1, StepIs DEF IInv
  <1>6. l.known = {} /\ l.before = DOMAIN flags
    OBVIOUS
  <1>7. to \in {"done", "look up"} /\ (to = "done" => Covered(l))
    BY <1>2, <1>4
  <1> HIDE DEF l, to
  <1>8. /\ IsScan(local'[r]) /\ KnownExist(local[r])' /\ BeforeExist(local[r])'
        /\ to = "done" => Covered(local[r])'
    <2>1. to = "done" => Covered(local[r])'
      BY <1>5, <1>7 DEF Covered, IsFlagged
    <2> QED
      BY <1>3, <1>5, <1>6, <2>1 DEF KnownExist, BeforeExist
  <1>9. InFlight(r)'
    BY <1>5, <1>7, <1>8 DEF InFlight, IsScan
  <1> QED
    BY <1>1, <1>9, ReadStep

\* The consolidation scan starts with the suppliers whose items it will read.
LEMMA ScanOrganisationKeeps ==
  ASSUME IInv, NEW r \in Requests, ScanOrganisation(r)
  PROVE  IInv'
PROOF
  <1> DEFINE l == [kind |-> "consolidation", of |-> suppliers, sides |-> <<>>, known |-> {},
                   before |-> DOMAIN flags]
             to == IF Cardinality(suppliers) < 2 THEN "done" ELSE "look up"
  <1>1. Step(r, l, to) /\ pc[r] # "done"
    BY DEF ScanOrganisation
  <1>2. local'[r] = l /\ pc'[r] = to /\ UNCHANGED flags
    BY <1>1, StepIs DEF IInv
  <1>3. IsScan(l) /\ l.sides = <<>> /\ l.known = {} /\ l.before = DOMAIN flags
    BY DEF IsScan
  <1> HIDE DEF l
  <1>4. IsScan(local'[r]) /\ KnownExist(local[r])' /\ BeforeExist(local[r])' /\ Covered(local[r])'
    <2>1. DOMAIN l.sides = {}
      BY <1>3
    <2>2. Covered(local[r])'
      BY <1>2, <2>1 DEF Covered
    <2> QED
      BY <1>2, <1>3, <2>2 DEF KnownExist, BeforeExist
  <1>5. InFlight(r)'
    BY <1>2, <1>4 DEF InFlight, IsScan
  <1> QED
    BY <1>1, <1>5, ReadStep

\* already_flagged: the flags of a supplier are those with all sides of it.
LEMMA KnownIs ==
  ASSUME NEW kind, NEW s
  PROVE  /\ \A t \in Known(kind, s) :
              \E f \in DOMAIN flags : /\ f.kind = kind /\ Texts(f.sides) = t
                                      /\ kind = "duplicate" => SuppliersOf(f) = {s}
         /\ \A f \in DOMAIN flags :
              f.kind = kind /\ (kind = "duplicate" => SuppliersOf(f) = {s})
                => Texts(f.sides) \in Known(kind, s)
PROOF
  BY DEF Known

\* What a scan takes for known is on a flag.
LEMMA LookUpKeeps ==
  ASSUME IInv, NEW r \in Requests, LookUp(r)
  PROVE  IInv'
PROOF
  <1> DEFINE l == local[r]
             s == CHOOSE x \in l.of : TRUE
             known == Known(l.kind, s)
             new == [l EXCEPT !.known = known]
             to == IF l.kind = "duplicate" THEN "flag" ELSE "read items"
  <1>1. Step(r, new, to) /\ pc[r] = "look up"
    BY DEF LookUp
  <1>2. IsScan(l) /\ BeforeExist(l)
    BY <1>1 DEF IInv, InFlight
  <1>3. new = [kind |-> l.kind, of |-> l.of, sides |-> l.sides, known |-> known, before |-> l.before]
    BY <1>2 DEF IsScan
  <1>4. l.kind = "duplicate" => l.of = {s}
    BY <1>2 DEF IsScan
  <1>5. local'[r] = new /\ pc'[r] = to /\ UNCHANGED flags
    <2>1. Shapes
      BY DEF IInv
    <2>2. Step(r, new, to)
      BY <1>1
    <2> HIDE DEF new, to
    <2> QED
      BY <2>1, <2>2, StepIs, Zenon
  <1>6. /\ \A t \in known : \E f \in DOMAIN flags : /\ f.kind = l.kind /\ Texts(f.sides) = t
                                                    /\ l.kind = "duplicate" => SuppliersOf(f) = l.of
        /\ \A f \in DOMAIN flags :
             f.kind = l.kind /\ (l.kind = "duplicate" => SuppliersOf(f) = l.of)
               => Texts(f.sides) \in known
    <2>1. PICK k, z : k = l.kind /\ z = s
      OBVIOUS
    <2>2. known = Known(k, z) /\ (k = "duplicate" => l.of = {z})
      BY <1>4, <2>1
    <2> HIDE DEF known, s
    <2>3. /\ \A t \in Known(k, z) :
               \E f \in DOMAIN flags : /\ f.kind = k /\ Texts(f.sides) = t
                                       /\ k = "duplicate" => SuppliersOf(f) = {z}
          /\ \A f \in DOMAIN flags :
               f.kind = k /\ (k = "duplicate" => SuppliersOf(f) = {z}) => Texts(f.sides) \in Known(k, z)
      BY KnownIs
    <2> QED
      BY ONLY <2>1, <2>2, <2>3, Zenon
  <1> HIDE DEF known
  <1>7. IsScan(local'[r])
    BY <1>2, <1>3, <1>5 DEF IsScan
  <1>8. KnownExist(local[r])' /\ BeforeExist(local[r])' /\ BeforeKnown(local[r])'
    <2>1. /\ local'[r].kind = l.kind /\ local'[r].of = l.of
          /\ local'[r].known = known /\ local'[r].before = l.before
      BY <1>3, <1>5
    <2>2. flags' = flags
      BY <1>5
    <2>3. l.before \subseteq DOMAIN flags
      BY <1>2 DEF BeforeExist
    <2> HIDE DEF l
    <2>4. KnownExist(local[r])'
      BY ONLY <2>1, <2>2, <1>6 DEF KnownExist
    <2>5. BeforeExist(local[r])'
      BY ONLY <2>1, <2>2, <2>3 DEF BeforeExist
    <2>6. BeforeKnown(local[r])'
      BY ONLY <2>1, <2>3, <1>6 DEF BeforeKnown
    <2> QED
      BY <2>4, <2>5, <2>6
  <1>9. pc'[r] \in {"flag", "read items"} /\ (pc'[r] = "read items" => local'[r].kind = "consolidation")
    BY <1>2, <1>3, <1>5 DEF IsScan
  <1>10. InFlight(r)'
    BY <1>7, <1>8, <1>9 DEF InFlight, IsScan
  <1> QED
    BY <1>1, <1>10, ReadStep

\* A consolidation scan reads the items of one supplier after another.
LEMMA ReadItemsKeeps ==
  ASSUME IInv, NEW r \in Requests, NEW s \in Suppliers, ReadItems(r, s)
  PROVE  IInv'
PROOF
  <1> DEFINE l == local[r]
             items == SidesOf(s, SetToSeq(Items(s)))
             new == [l EXCEPT !.sides = @ \o items, !.of = @ \ {s}]
             to == IF l.of = {s} THEN "flag" ELSE "read items"
  <1>1. Step(r, new, to) /\ pc[r] = "read items"
    BY DEF ReadItems
  <1>2. IsScan(l) /\ KnownExist(l) /\ BeforeExist(l) /\ BeforeKnown(l) /\ l.kind = "consolidation"
    BY <1>1 DEF IInv, InFlight
  <1>3. new = [kind |-> l.kind, of |-> l.of \ {s}, sides |-> l.sides \o items,
               known |-> l.known, before |-> l.before]
    <2>1. PICK k, o, si, kn, b :
            l = [kind |-> k, of |-> o, sides |-> si, known |-> kn, before |-> b]
      BY <1>2 DEF IsScan
    <2>2. PICK all, left : all = l.sides \o items /\ left = l.of \ {s}
      OBVIOUS
    <2>3. new = [l EXCEPT !.sides = all, !.of = left]
      BY <2>2
    <2> HIDE DEF new, l, items
    <2>4. new = [kind |-> k, of |-> left, sides |-> all, known |-> kn, before |-> b]
      BY <2>1, <2>3
    <2>5. l.kind = k /\ l.known = kn /\ l.before = b
      BY <2>1
    <2> QED
      BY <2>2, <2>4, <2>5
  <1>4. local'[r] = new /\ pc'[r] = to /\ UNCHANGED flags
    BY <1>1, StepIs DEF IInv
  <1>5. IsScan(local'[r])
    BY <1>2, <1>3, <1>4 DEF IsScan
  <1>6. KnownExist(local[r])' /\ BeforeExist(local[r])' /\ BeforeKnown(local[r])'
    BY <1>2, <1>3, <1>4 DEF KnownExist, BeforeExist, BeforeKnown
  <1>7. pc'[r] \in {"flag", "read items"} /\ local'[r].kind = "consolidation"
    BY <1>2, <1>3, <1>4
  <1>8. InFlight(r)'
    BY <1>5, <1>6, <1>7 DEF InFlight, IsScan
  <1> QED
    BY <1>1, <1>8, ReadStep

-----------------------------------------------------------------------------
(* Raising flags                                                            *)

\* The two loops of a scan compare every item with every later one.
LEMMA SuspiciousAreCandidates ==
  ASSUME NEW kind, NEW sides, NEW i \in DOMAIN sides, NEW j \in DOMAIN sides, i < j,
         Suspicious(kind, sides[i], sides[j])
  PROVE  {sides[i], sides[j]} \in Candidates(kind, sides)
PROOF
  <1>1. PICK p \in Pairs(sides) : p[1] = i /\ p[2] = j
    <2>1. <<i, j>> \in Pairs(sides)
      BY DEF Pairs
    <2> QED
      BY <2>1
  <1>2. IF kind = "duplicate" THEN Duplicate(sides[p[1]], sides[p[2]])
        ELSE Overlap(sides[p[1]], sides[p[2]])
    BY <1>1 DEF Suspicious, Duplicate, Overlap, LookAlike
  <1>3. {sides[p[1]], sides[p[2]]} \in Candidates(kind, sides)
    BY <1>2 DEF Candidates
  <1> QED
    BY <1>1, <1>3

\* A candidate is two of the items that the scan has read.
LEMMA CandidatesAre ==
  ASSUME NEW kind, NEW sides, NEW p \in Candidates(kind, sides)
  PROVE  \E i, j \in DOMAIN sides : p = {sides[i], sides[j]}
PROOF
  <1>1. PICK q \in Pairs(sides) : p = {sides[q[1]], sides[q[2]]}
    BY DEF Candidates
  <1>2. q[1] \in DOMAIN sides /\ q[2] \in DOMAIN sides
    BY DEF Pairs
  <1> QED
    BY <1>1, <1>2

\* A scan adds a flag for every candidate that it does not know.
LEMMA RaiseKeeps ==
  ASSUME IInv, NEW r \in Requests, Raise(r)
  PROVE  IInv'
PROOF
  <1> DEFINE l == local[r]
             fresh == {q \in Candidates(l.kind, l.sides) : Texts(q) \notin l.known}
             new == {Flag(l.kind, p, r) : p \in fresh}
  <1>1. /\ pc[r] = "flag"
        /\ flags' = [f \in DOMAIN flags \cup new |->
                       IF f \in DOMAIN flags THEN flags[f] ELSE "flagged"]
        /\ pc' = [pc EXCEPT ![r] = "done"]
        /\ UNCHANGED <<suppliers, bought, local>>
    BY DEF Raise
  <1>2. IsScan(l) /\ KnownExist(l) /\ BeforeExist(l) /\ BeforeKnown(l)
    BY <1>1 DEF IInv, InFlight
  <1>3. \A g \in new : /\ g.kind = l.kind /\ g.by = r /\ g.sides \in Candidates(l.kind, l.sides)
                       /\ Texts(g.sides) \notin l.known
    BY DEF Flag
  <1>4. \A p \in fresh : \E g \in new : g.kind = l.kind /\ g.sides = p
    <2> TAKE p \in fresh
    <2>1. Flag(l.kind, p, r) \in new
      OBVIOUS
    <2>2. Flag(l.kind, p, r).kind = l.kind /\ Flag(l.kind, p, r).sides = p
      BY DEF Flag
    <2> HIDE DEF new
    <2> QED
      BY <2>1, <2>2
  <1>5. DOMAIN flags' = DOMAIN flags \cup new /\ flags' = [f \in DOMAIN flags' |-> flags'[f]]
    BY <1>1
  <1> HIDE DEF new
  <1>6. Shapes'
    BY <1>1, <1>5 DEF IInv, Shapes
  <1>7. pc'[r] = "done" /\ \A t \in Requests \ {r} : pc'[t] = pc[t]
    BY <1>1 DEF IInv, Shapes
  <1>8. \A g : l.kind = "duplicate" /\ g.sides \in Candidates(l.kind, l.sides) => SuppliersOf(g) = l.of
    <2> SUFFICES ASSUME NEW g, l.kind = "duplicate", g.sides \in Candidates(l.kind, l.sides)
                 PROVE  SuppliersOf(g) = l.of
      OBVIOUS
    <2>1. PICK s \in Suppliers : l.of = {s} /\ \A i \in DOMAIN l.sides : l.sides[i].supplier = s
      BY <1>2 DEF IsScan
    <2>2. PICK i \in DOMAIN l.sides, j \in DOMAIN l.sides : g.sides = {l.sides[i], l.sides[j]}
      BY CandidatesAre
    <2> QED
      BY <2>1, <2>2 DEF SuppliersOf
  <1>9. Covered(local[r])'
    <2>1. ASSUME NEW i \in DOMAIN l.sides, NEW j \in DOMAIN l.sides, i < j,
                 Suspicious(l.kind, l.sides[i], l.sides[j])
          PROVE  \E f \in DOMAIN flags' :
                   /\ f.kind = l.kind /\ Texts(f.sides) = Texts({l.sides[i], l.sides[j]})
                   /\ l.kind = "duplicate" => SuppliersOf(f) = l.of
      <3>1. PICK p \in Candidates(l.kind, l.sides) : p = {l.sides[i], l.sides[j]}
        BY <2>1, SuspiciousAreCandidates
      <3>2. CASE Texts(p) \in l.known
        <4>1. PICK f \in DOMAIN flags : /\ f.kind = l.kind /\ Texts(f.sides) = Texts(p)
                                        /\ l.kind = "duplicate" => SuppliersOf(f) = l.of
          <5>1. PICK t \in l.known : t = Texts(p)
            BY <3>2
          <5>2. KnownExist(l)
            BY <1>2
          <5> QED
            BY <5>1, <5>2 DEF KnownExist
        <4>2. f \in DOMAIN flags'
          BY <1>5
        <4> QED
          BY <3>1, <4>1, <4>2
      <3>3. CASE Texts(p) \notin l.known
        <4>1. PICK g \in new : g.kind = l.kind /\ g.sides = p
          BY <3>1, <3>3, <1>4
        <4>2. l.kind = "duplicate" => SuppliersOf(g) = l.of
          BY <3>1, <4>1, <1>8
        <4> QED
          BY <3>1, <4>1, <4>2, <1>5
      <3> QED
        BY <3>2, <3>3
    <2> QED
      BY <2>1, <1>1 DEF Covered, IsFlagged
  <1>10. \A t \in Requests : InFlight(t)'
    <2>1. InFlight(r)'
      BY <1>7, <1>9 DEF InFlight
    <2>2. \A t \in Requests \ {r} : InFlight(t)'
      BY <1>1, <1>5, <1>7, OthersStay DEF IInv
    <2> QED
      BY <2>1, <2>2
  <1>11. \A f \in DOMAIN flags' : RaisedBy(f)'
    <2>1. \A f \in DOMAIN flags : RaisedBy(f)'
      BY <1>1, <1>5, <1>7 DEF IInv, RaisedBy, BeforeExist
    <2>2. \A f \in new : RaisedBy(f)'
      BY <1>1, <1>2, <1>3, <1>5, <1>7 DEF RaisedBy, BeforeExist
    <2> QED
      BY <2>1, <2>2, <1>5
  <1>12. LaterScansNeverRepeat'
    <2> SUFFICES ASSUME NEW f \in DOMAIN flags', NEW g \in DOMAIN flags',
                        f.kind = g.kind, Texts(f.sides) = Texts(g.sides),
                        f.kind = "duplicate" => SuppliersOf(f) = SuppliersOf(g),
                        f \in local[g.by].before
                 PROVE  FALSE
      BY <1>1 DEF LaterScansNeverRepeat
    <2>1. CASE g \in DOMAIN flags
      <3>1. f \in DOMAIN flags
        BY <2>1 DEF IInv, RaisedBy, BeforeExist
      <3> QED
        BY <2>1, <3>1 DEF IInv, LaterScansNeverRepeat
    <2>2. CASE g \in new
      <3>1. /\ g.kind = l.kind /\ g.sides \in Candidates(l.kind, l.sides)
            /\ Texts(g.sides) \notin l.known /\ f \in l.before
        BY <2>2, <1>3
      <3>2. l.kind = "duplicate" => SuppliersOf(g) = l.of
        BY <3>1, <1>8
      <3> QED
        BY <3>1, <3>2, <1>2 DEF BeforeKnown
    <2> QED
      BY <2>1, <2>2, <1>5
  <1> QED
    BY <1>6, <1>10, <1>11, <1>12 DEF IInv

-----------------------------------------------------------------------------
(* Reviews and the graph                                                    *)

\* A request that is not a scan has nothing to cover.
LEMMA OtherReads ==
  ASSUME IInv, NEW r \in Requests, NEW l, NEW to, Step(r, l, to),
         pc[r] \in {"idle", "draw"}, "sides" \notin DOMAIN l,
         to \in {"decide", "decide duplicate", "conflict", "draw", "done", "failed"}
  PROVE  IInv'
PROOF
  <1>1. local'[r] = l /\ pc'[r] = to
    BY StepIs DEF IInv
  <1>2. InFlight(r)'
    BY <1>1 DEF InFlight
  <1> QED
    BY <1>2, ReadStep

\* A review starts with one flag.
LEMMA ReviewKeeps ==
  ASSUME IInv, NEW r \in Requests, NEW f, NEW target,
         ReviewDuplicate(r, f, target) \/ ReviewConsolidation(r, f, target)
  PROVE  IInv'
PROOF
  <1>1. pc[r] = "idle"
    BY DEF ReviewDuplicate, ReviewConsolidation
  <1>2. "sides" \notin DOMAIN Review(f, target)
    BY DEF Review
  <1>3. PICK to \in {"decide", "decide duplicate", "conflict"} : Step(r, Review(f, target), to)
    BY DEF ReviewDuplicate, ReviewConsolidation
  <1> QED
    BY <1>1, <1>2, <1>3, OtherReads

\* Drawing the graph reads the tables and writes nothing.
LEMMA GraphKeeps ==
  ASSUME IInv, NEW r \in Requests, ReadSuppliers(r) \/ DrawGraph(r)
  PROVE  IInv'
PROOF
  <1>1. CASE ReadSuppliers(r)
    <2>1. "sides" \notin DOMAIN [known |-> suppliers]
      OBVIOUS
    <2> QED
      BY <1>1, <2>1, OtherReads DEF ReadSuppliers
  <1>2. CASE DrawGraph(r)
    <2> DEFINE edges == {f \in DOMAIN flags : f.kind = "consolidation"}
               graph == [edges |-> edges, nodes |-> UNION {SuppliersOf(f) : f \in edges}]
    <2>1. PICK to \in {"done", "failed"} : Step(r, graph, to)
      BY <1>2 DEF DrawGraph
    <2>2. "sides" \notin DOMAIN graph
      OBVIOUS
    <2> HIDE DEF graph
    <2>3. pc[r] = "draw"
      BY <1>2 DEF DrawGraph
    <2> QED
      BY <2>1, <2>2, <2>3, OtherReads
  <1> QED
    BY <1>1, <1>2

\* A decision writes the status of a flag, and flags stay what they are.
LEMMA DecideKeeps ==
  ASSUME IInv, NEW r \in Requests, DecideDuplicate(r) \/ DecideConsolidation(r)
  PROVE  IInv'
PROOF
  <1>1. /\ pc[r] \in {"decide", "decide duplicate"} /\ pc' = [pc EXCEPT ![r] = "done"]
        /\ flags' = [flags EXCEPT ![local[r].flag] = local[r].target]
        /\ UNCHANGED <<suppliers, bought, local>>
    BY DEF DecideDuplicate, DecideConsolidation, SaveStatus
  <1>2. pc'[r] = "done" /\ \A t \in Requests \ {r} : pc'[t] = pc[t]
    BY <1>1 DEF IInv, Shapes
  <1>3. DOMAIN flags' = DOMAIN flags /\ flags' = [f \in DOMAIN flags' |-> flags'[f]]
    BY <1>1
  <1>4. Shapes'
    BY <1>1, <1>3 DEF IInv, Shapes
  <1>5. "sides" \notin DOMAIN local'[r]
    BY <1>1 DEF IInv, InFlight
  <1>6. InFlight(r)'
    BY <1>2, <1>5 DEF InFlight
  <1> QED
    BY <1>1, <1>2, <1>3, <1>4, <1>6, OneRequest DEF IInv

-----------------------------------------------------------------------------
(* The specification                                                        *)

\* No flags and no requests.
LEMMA InitInvariant == Init => IInv
PROOF
  <1> SUFFICES ASSUME Init PROVE IInv
    OBVIOUS
  <1>1. Shapes
    <2>1. \A s \in Suppliers : IsFiniteSet(ItemsOf[s]) /\ IsFiniteSet({})
      BY FlagAssumption, FS_EmptySet
    <2> QED
      BY <2>1, FlagAssumption DEF Init, Shapes
  <1>2. \A r \in Requests : InFlight(r)
    BY DEF Init, InFlight
  <1>3. DOMAIN flags = {}
    BY DEF Init
  <1> QED
    BY <1>1, <1>2, <1>3 DEF IInv, LaterScansNeverRepeat

\* Every request and every purchase preserves the invariant.
LEMMA StepInvariant == IInv /\ [Next]_vars => IInv'
PROOF
  <1> SUFFICES ASSUME IInv, [Next]_vars PROVE IInv'
    OBVIOUS
  <1>1. CASE UNCHANGED vars
    <2>1. Shapes' /\ UNCHANGED <<flags, local, pc>>
      BY <1>1 DEF IInv, Shapes, vars
    <2> QED
      BY <2>1, PurchasesKeep
  <1>2. CASE \E s \in Suppliers : Register(s)
    BY <1>2, RegisterKeeps
  <1>3. CASE \E b \in Purchases : Buy(b)
    BY <1>3, BuyKeeps
  <1>4. ASSUME NEW r \in Requests, NEW s \in Suppliers, ScanSupplier(r, s) \/ ReadItems(r, s)
        PROVE  IInv'
    BY <1>4, ScanSupplierKeeps, ReadItemsKeeps
  <1>5. ASSUME NEW r \in Requests, ScanOrganisation(r) \/ LookUp(r) \/ Raise(r)
        PROVE  IInv'
    BY <1>5, ScanOrganisationKeeps, LookUpKeeps, RaiseKeeps
  <1>6. ASSUME NEW r \in Requests, NEW f, NEW target,
               ReviewDuplicate(r, f, target) \/ ReviewConsolidation(r, f, target)
        PROVE  IInv'
    BY <1>6, ReviewKeeps
  <1>7. ASSUME NEW r \in Requests,
               DecideDuplicate(r) \/ DecideConsolidation(r) \/ ReadSuppliers(r) \/ DrawGraph(r)
        PROVE  IInv'
    BY <1>7, DecideKeeps, GraphKeeps
  <1> QED
    BY <1>1, <1>2, <1>3, <1>4, <1>5, <1>6, <1>7 DEF Next

\* The invariant of the flags, their scans and their reviews.
LEMMA Invariant == Spec => []IInv
PROOF
  BY InitInvariant, StepInvariant, PTL DEF Spec

\* A scan never flags again what was flagged before it began, for any number of scans
\* and reviews at once (already_flagged).
THEOREM ScansDoNotRepeat == Spec => []LaterScansNeverRepeat
PROOF
  <1>1. IInv => LaterScansNeverRepeat
    BY DEF IInv
  <1> QED
    BY <1>1, Invariant, PTL

\* Whatever is bought, flagged and decided meanwhile, every suspicious pair that a scan
\* has read is on record when it ends (scan_supplier_for_duplicate_skus,
\* scan_for_supplier_consolidation).
THEOREM ScansAreThorough == Spec => []ScansCoverWhatTheyRead
PROOF
  <1>1. IInv => ScansCoverWhatTheyRead
    BY DEF IInv, InFlight, Covered, ScansCoverWhatTheyRead
  <1> QED
    BY <1>1, Invariant, PTL

===============================================================================
