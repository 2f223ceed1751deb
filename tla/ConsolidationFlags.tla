--------------------------- MODULE ConsolidationFlags ---------------------------
(***************************************************************************)
(* services/duplicate_detection_service: scans that flag items which look   *)
(* alike, within a supplier (duplicate SKUs) or across suppliers            *)
(* (consolidation), the reviews of the flags, and the graph that is drawn   *)
(* of them.  analytics/domain_graph has the transitions of a review.        *)
(*                                                                         *)
(* A scan is several reads and a commit, each of which sees what was        *)
(* committed before it (READ COMMITTED); so is the graph.  No SELECT has an  *)
(* order, and of two items only the one that was read first is scored       *)
(* against the other, which is not the same as the other way round.         *)
(* Nothing in the schema keeps two flags of one pair apart, and a review     *)
(* writes the flag it loaded.                                               *)
(***************************************************************************)
EXTENDS Matching

CONSTANTS
  Suppliers,
  ItemsOf,         \* the items bought of each supplier at the beginning
  Purchases,       \* what else may be bought: a supplier, an item and where it is recorded
  Established,     \* the suppliers at the beginning
  Invoiced,        \* those of them with invoices, the others only have transactions
  Requests

ASSUME FlagAssumption ==
  /\ Established \subseteq Suppliers /\ Invoiced \subseteq Established
  /\ \A s \in Suppliers : IsFiniteSet(ItemsOf[s])

VARIABLES
  suppliers,     \* the suppliers of the organisation
  bought,        \* the items on invoice lines and in transactions, of each supplier
  flags,         \* the flags of both tables and the status of each
  local,         \* what a request was given and has read
  pc

vars == <<suppliers, bought, flags, local, pc>>
data == <<suppliers, bought, flags>>

-----------------------------------------------------------------------------
(* Flags                                                                    *)

\* A side of a flag: an item and the supplier it is bought of.
Side(s, x) == [supplier |-> s, item |-> x]
Texts(sides) == {x.item.text : x \in sides}

Flag(kind, sides, r) == [kind |-> kind, sides |-> sides, by |-> r]

SuppliersOf(f) == {x.supplier : x \in f.sides}

\* Mutant: only what would be matched without a review is flagged.
LookAlike_Certain(x, y) == ScorePair(x, y).score >= AutoMatch

LookAlike(x, y) == ScorePair(x, y).score >= ReviewRecommended

\* scan_supplier_for_duplicate_skus: one item under two codes, x read before y.
Duplicate(x, y) == ~Same(x.item.sku, y.item.sku) /\ LookAlike(x.item, y.item)

\* scan_for_supplier_consolidation: one item of two suppliers, x read before y.
Overlap(x, y) == x.supplier # y.supplier /\ LookAlike(x.item, y.item)

\* The loops of a scan, over sides in the order in which they were read.
Pairs(sides) == {p \in (DOMAIN sides) \X (DOMAIN sides) : p[1] < p[2]}

\* What a scan may flag in the items it has read.
Candidates(kind, sides) ==
  {{sides[p[1]], sides[p[2]]} :
     p \in {q \in Pairs(sides) : IF kind = "duplicate" THEN Duplicate(sides[q[1]], sides[q[2]])
                                ELSE Overlap(sides[q[1]], sides[q[2]])}}

\* Mutant: flags that were decided are not looked up.
Known_Open(kind, s) ==
  {Texts(f.sides) : f \in {g \in DOMAIN flags : g.kind = kind /\ flags[g] = "flagged"
                                               /\ (kind = "duplicate" => SuppliersOf(g) = {s})}}

\* already_flagged: of the supplier or, for a consolidation, of the organisation.
\* The key is the descriptions alone.
Known(kind, s) ==
  {Texts(f.sides) : f \in {g \in DOMAIN flags : g.kind = kind
                                               /\ (kind = "duplicate" => SuppliersOf(g) = {s})}}

-----------------------------------------------------------------------------
(* Purchases                                                                *)

Register(s) ==
  /\ s \notin suppliers
  /\ suppliers' = suppliers \cup {s}
  /\ UNCHANGED <<bought, flags, local, pc>>

Buy(b) ==
  /\ b.supplier \in suppliers /\ b.item \notin bought[b.supplier][b.source]
  /\ bought' = [bought EXCEPT ![b.supplier][b.source] = @ \cup {b.item}]
  /\ UNCHANGED <<suppliers, flags, local, pc>>

\* _distinct_sku_descriptions: invoice lines, or transactions where there are none.
Items(s) == IF bought[s].lines # {} THEN bought[s].lines ELSE bought[s].transactions

-----------------------------------------------------------------------------
(* Scans: the items or suppliers, what is known, the items, the commit      *)

Step(r, l, to) ==
  /\ local' = [local EXCEPT ![r] = l]
  /\ pc' = [pc EXCEPT ![r] = to]
  /\ UNCHANGED data

SidesOf(s, items) == [k \in DOMAIN items |-> Side(s, items[k])]

\* SELECT DISTINCT gives the items in any order.
ScanSupplier(r, s) ==
  /\ pc[r] = "idle"
  /\ s \in suppliers
  /\ \E items \in SetToSeqs(Items(s)) :
       LET l == [kind |-> "duplicate", of |-> {s}, sides |-> SidesOf(s, items), known |-> {},
                 before |-> DOMAIN flags]
       IN  Step(r, l, IF Cardinality(Items(s)) < 2 THEN "done" ELSE "look up")

ScanOrganisation(r) ==
  /\ pc[r] = "idle"
  /\ LET l == [kind |-> "consolidation", of |-> suppliers, sides |-> <<>>, known |-> {},
               before |-> DOMAIN flags]
     IN  Step(r, l, IF Cardinality(suppliers) < 2 THEN "done" ELSE "look up")

LookUp(r) ==
  /\ pc[r] = "look up"
  /\ LET known == Known(local[r].kind, CHOOSE s \in local[r].of : TRUE)
     IN  Step(r, [local[r] EXCEPT !.known = known],
              IF local[r].kind = "duplicate" THEN "flag" ELSE "read items")

\* One supplier after the other, in any order; that of the items of one supplier is of no
\* account, since they are not compared with each other.
ReadItems(r, s) ==
  /\ pc[r] = "read items"
  /\ s \in local[r].of
  /\ Step(r, [local[r] EXCEPT !.sides = @ \o SidesOf(s, SetToSeq(Items(s))), !.of = @ \ {s}],
          IF local[r].of = {s} THEN "flag" ELSE "read items")

Raise(r) ==
  LET l == local[r]
      new == {Flag(l.kind, p, r) : p \in {q \in Candidates(l.kind, l.sides) : Texts(q) \notin l.known}}
  IN  /\ pc[r] = "flag"
      /\ flags' = [f \in DOMAIN flags \cup new |-> IF f \in DOMAIN flags THEN flags[f] ELSE "flagged"]
      /\ pc' = [pc EXCEPT ![r] = "done"]
      /\ UNCHANGED <<suppliers, bought, local>>

-----------------------------------------------------------------------------
(* Reviews and the graph                                                    *)

Review(f, target) == [flag |-> f, target |-> target]

\* review_duplicate_sku_flag asks for no earlier status.
ReviewDuplicate(r, f, target) ==
  /\ pc[r] = "idle"
  /\ f \in DOMAIN flags /\ f.kind = "duplicate"
  /\ target \in {"confirmed_duplicate", "rejected"}
  /\ Step(r, Review(f, target), "decide duplicate")

\* _ALLOWED_TRANSITIONS
AllowedFrom(status) ==
  CASE status = "flagged" -> {"under_review", "consolidation_recommended", "rejected"}
    [] status = "under_review" -> {"consolidation_recommended", "rejected"}
    [] status \in {"consolidation_recommended", "rejected"} -> {}

\* review_consolidation_flag, on the status that was loaded.
ReviewConsolidation(r, f, target) ==
  /\ pc[r] = "idle"
  /\ f \in DOMAIN flags /\ f.kind = "consolidation"
  /\ target \in {"under_review", "consolidation_recommended", "rejected"}
  /\ Step(r, Review(f, target), IF target \in AllowedFrom(flags[f]) THEN "decide" ELSE "conflict")

SaveStatus(r) ==
  /\ flags' = [flags EXCEPT ![local[r].flag] = local[r].target]
  /\ pc' = [pc EXCEPT ![r] = "done"]
  /\ UNCHANGED <<suppliers, bought, local>>

DecideDuplicate(r) == pc[r] = "decide duplicate" /\ SaveStatus(r)
DecideConsolidation(r) == pc[r] = "decide" /\ SaveStatus(r)

\* build_consolidation_graph_payload: the suppliers,
ReadSuppliers(r) ==
  /\ pc[r] = "idle"
  /\ Step(r, [known |-> suppliers], "draw")

\* and in a second statement the flags; a flag of another supplier is an error.
DrawGraph(r) ==
  LET edges == {f \in DOMAIN flags : f.kind = "consolidation"}
  IN  /\ pc[r] = "draw"
      /\ Step(r, [edges |-> edges, nodes |-> UNION {SuppliersOf(f) : f \in edges}],
              IF \A f \in edges : SuppliersOf(f) \subseteq local[r].known THEN "done" ELSE "failed")

-----------------------------------------------------------------------------
Init ==
  /\ suppliers = Established
  /\ bought = [s \in Suppliers |->
                [lines |-> IF s \in Invoiced THEN ItemsOf[s] ELSE {},
                 transactions |-> IF s \in Established \ Invoiced THEN ItemsOf[s] ELSE {}]]
  /\ flags = [f \in {} |-> "flagged"]
  /\ local = [r \in Requests |-> NULL]
  /\ pc = [r \in Requests |-> "idle"]

Next ==
  \/ \E s \in Suppliers : Register(s)
  \/ \E b \in Purchases : Buy(b)
  \/ \E r \in Requests :
       \/ \E s \in Suppliers : ScanSupplier(r, s) \/ ReadItems(r, s)
       \/ ScanOrganisation(r) \/ LookUp(r) \/ Raise(r)
       \/ \E f \in DOMAIN flags :
            \/ \E target \in {"confirmed_duplicate", "rejected"} : ReviewDuplicate(r, f, target)
            \/ \E target \in {"under_review", "consolidation_recommended", "rejected"} :
                 ReviewConsolidation(r, f, target)
       \/ DecideDuplicate(r) \/ DecideConsolidation(r) \/ ReadSuppliers(r) \/ DrawGraph(r)

Spec == Init /\ [][Next]_vars

-----------------------------------------------------------------------------
(* Properties                                                               *)

\* "re-running the scan doesn't create duplicate flags": a pair of descriptions that
\* was flagged before a scan began, and perhaps rejected since, is not flagged by it,
\* however the reads of the scan fall (already_flagged).
LaterScansNeverRepeat ==
  \A f, g \in DOMAIN flags :
    /\ f.kind = g.kind /\ Texts(f.sides) = Texts(g.sides)
    /\ f.kind = "duplicate" => SuppliersOf(f) = SuppliersOf(g)
    => f \notin local[g.by].before

\* Two sides that a person should look at, where x was read before y.
Suspicious(kind, x, y) ==
  /\ IF kind = "duplicate" THEN ~Same(x.item.sku, y.item.sku) ELSE x.supplier # y.supplier
  /\ ScorePair(x.item, y.item).score >= ReviewRecommended

\* A flag of this kind has these sides, or others of the same descriptions; one of
\* duplicates has them of these suppliers.
IsFlagged(kind, of, sides) ==
  \E f \in DOMAIN flags : /\ f.kind = kind /\ Texts(f.sides) = Texts(sides)
                          /\ kind = "duplicate" => SuppliersOf(f) = of

\* A scan leaves no item that looks like one that it read later without a flag of both
\* descriptions, its own or an earlier one, of the same supplier if it scans one,
\* whatever is bought, flagged and decided meanwhile (the two loops of each scan).
ScansCoverWhatTheyRead ==
  \A r \in Requests :
    pc[r] = "done" /\ local[r] # NULL /\ "sides" \in DOMAIN local[r] =>
      LET l == local[r]
      IN  \A i, j \in DOMAIN l.sides :
            i < j /\ Suspicious(l.kind, l.sides[i], l.sides[j]) =>
              IsFlagged(l.kind, l.of, {l.sides[i], l.sides[j]})

=============================================================================
