----------------------------- MODULE PriceReview -----------------------------
(***************************************************************************)
(* A price review (services/price_review_service.py, api/v1/price_reviews): *)
(* price lists are uploaded and mapped, matching makes lines of them, and   *)
(* buyers resolve, quantify and negotiate the lines, several at a time.     *)
(*                                                                         *)
(* A request about a line loads it (LoadLine) and saves what it made of the *)
(* copy (Save); no handler locks.  An item of a price list is a model value *)
(* and Catalog has its columns.  Percentage and risk are functions of the   *)
(* prices behind absolute_change and are written with it, and the yearly    *)
(* margin is written with the margins, so neither is kept apart.            *)
(***************************************************************************)
EXTENDS FinancialEvents, FiniteSets

CONSTANTS
  Sessions,
  Files,          \* price list files, by content
  TypeOf,         \* file -> "previous" or "new"
  RowsOf,         \* file -> the items its valid rows name
  Catalog,        \* item -> [price, norm, unit, pack]
  Quantities, SellingPrices, Targets, Outcomes,  \* what buyers enter
  MaxRuns,        \* bound: how often matching is run
  MaxEdits        \* bound: how many requests about lines are sent

Calc == INSTANCE PriceReviewCalculations

Items == UNION {RowsOf[f] : f \in Files}

\* An item stands for a row of a price list, so that no item is on two of them, and
\* row_validation refuses a negative price.
ASSUME ReviewAssumption ==
  /\ \A f, g \in Files : TypeOf[f] # TypeOf[g] => RowsOf[f] \cap RowsOf[g] = {}
  /\ \A i \in Items : Catalog[i].price \in Nat \cup {NULL} /\ Catalog[i].norm \in Nat \cup {NULL}
  /\ Quantities \cup SellingPrices \cup Targets \cup Outcomes \subseteq Int
  /\ MaxRuns \in Nat /\ MaxEdits \in Nat
  /\ NULL \notin Items \cup Int
  /\ NULL \notin {"normalized", "raw", "unit_mismatch", "decided"}

VARIABLES
  files,          \* file -> NULL, "uploaded" or "validated"
  status,         \* price_reviews.status
  lines,          \* committed price_review_lines: <<run, item>> -> row
  opportunities,  \* opportunities that came from lines
  loaded,         \* session -> the line it has loaded, or NULL
  request,        \* session -> what its client asked for, or NULL
  runs, edits,    \* how many there were, for the bounds
  raced           \* history: lines on which two requests have overlapped

tables  == <<files, status, lines, opportunities>>
session == <<loaded, request>>
history == <<runs, edits, raced>>
vars    == <<tables, session, history>>

-----------------------------------------------------------------------------
(* Lines                                                                    *)

MatchStatuses ==
  {"matched", "review_required", "new_product", "discontinued", "ignored"}

Compared == {"matched", "review_required"}

\* The columns of an item that a line does not have.
NoItem == [price |-> NULL, norm |-> NULL, unit |-> NULL, pack |-> NULL]

Item(i) == IF i = NULL THEN NoItem ELSE Catalog[i]

\* The old_* columns are written once, with the line.  The new_* columns but one
\* are those of the item "new"; new_normalized_base_unit is a column of its own.
Line(old, new, matchStatus, movement) ==
  [old |-> old, new |-> new, unit |-> Item(new).unit, status |-> matchStatus,
   packChanged |-> old # NULL /\ new # NULL /\ Item(old).pack # Item(new).pack,
   movement |-> movement, basis |-> NULL, change |-> NULL,
   quantity |-> NULL, selling |-> NULL, impact |-> NULL, margin |-> NULL,
   decision |-> NULL, target |-> NULL, potential |-> NULL,
   outcome |-> NULL, actual |-> NULL]

BasisOf(r) == Calc!ComparisonBasis(Item(r.old).norm, Item(r.new).norm, Item(r.old).unit, r.unit)

\* The two prices that a basis compares.
OldPrice(r) == IF BasisOf(r) = "normalized" THEN Item(r.old).norm ELSE Item(r.old).price
NewPrice(r) == IF BasisOf(r) = "normalized" THEN Item(r.new).norm ELSE Item(r.new).price

Comparable(r) ==
  BasisOf(r) # "unit_mismatch" /\ OldPrice(r) # NULL /\ NewPrice(r) # NULL

\* calculate_line_movement: calculate_gross_margin refuses a selling price of zero.
MovementRaises(r) == r.status \in Compared /\ Comparable(r) /\ r.selling = 0

Moved(r) ==
  LET change == Calc!PriceChange(OldPrice(r), NewPrice(r))
  IN  [r EXCEPT
         !.basis = BasisOf(r),
         !.change = change,
         !.movement = Calc!MovementType(r.packChanged,
                                        Calc!PercentageChange(OldPrice(r), NewPrice(r))),
         !.impact = IF r.quantity = NULL THEN @ ELSE Calc!AnnualImpact(change, r.quantity),
         !.margin = IF r.selling = NULL THEN @ ELSE <<change, r.selling>>]

\* The line again, with its movement as its prices and its quantity are now.
CalculateLineMovement(r) ==
  CASE r.status \notin Compared -> r
    [] r.status \in Compared /\ BasisOf(r) = "unit_mismatch" ->
         [r EXCEPT !.basis = "unit_mismatch", !.movement = "review_required", !.change = NULL]
    [] r.status \in Compared /\ Comparable(r) -> Moved(r)
    [] OTHER -> [r EXCEPT !.basis = BasisOf(r)]

-----------------------------------------------------------------------------
(* Files and matching                                                       *)

Init ==
  /\ files = [f \in Files |-> NULL]
  /\ status = "draft"
  /\ lines = <<>>
  /\ opportunities = {}
  /\ loaded = [s \in Sessions |-> NULL]
  /\ request = [s \in Sessions |-> NULL]
  /\ runs = 0 /\ edits = 0 /\ raced = {}

\* register_uploaded_file: uq_price_review_file_checksum decides a race of uploads.
Upload(f) ==
  /\ files[f] = NULL
  /\ files' = [files EXCEPT ![f] = "uploaded"]
  /\ UNCHANGED <<status, lines, opportunities, session, history>>

\* confirm_column_mapping stages the valid rows of the file; it may be repeated.
ConfirmMapping(f) ==
  /\ files[f] # NULL
  /\ files' = [files EXCEPT ![f] = "validated"]
  /\ UNCHANGED <<status, lines, opportunities, session, history>>

Uploaded(type) == {f \in Files : files[f] # NULL /\ TypeOf[f] = type}

\* find_best_match of every old row, whatever it finds: a new row, surely or not
\* (requires_human_review), or no candidate.
Matches(olds, news) ==
  [olds -> [new : news, status : Compared] \cup {[new |-> NULL, status |-> "discontinued"]}]

\* Mutant: the new rows without a match are left out.
MatchedLines_DropsRest(olds, news, match) ==
  [i \in olds |-> Line(i, match[i].new, match[i].status,
                       IF match[i].new = NULL THEN "discontinued" ELSE NULL)]

\* run_matching: a line for every old row and one for every new row without match.
MatchedLines(olds, news, match) ==
  LET rest == news \ {match[i].new : i \in olds}
  IN  [i \in olds \cup rest |->
         IF i \in rest THEN Line(NULL, i, "new_product", "new_product")
         ELSE Line(i, match[i].new, match[i].status,
                   IF match[i].new = NULL THEN "discontinued" ELSE NULL)]

\* run_product_matching.  Of several files of a type the last one that the query
\* returns counts, in no given order; lines of an earlier run stay.
RunMatching ==
  \E previous \in Uploaded("previous"), new \in Uploaded("new") :
    /\ runs < MaxRuns
    /\ files[previous] = "validated" /\ files[new] = "validated"
    /\ \E match \in Matches(RowsOf[previous], RowsOf[new]) :
         LET added == MatchedLines(RowsOf[previous], RowsOf[new], match)
         IN  /\ lines' = [l \in DOMAIN lines \cup {<<runs + 1, i>> : i \in DOMAIN added} |->
                            IF l \in DOMAIN lines THEN lines[l] ELSE added[l[2]]]
             /\ status' = IF \E i \in DOMAIN added : added[i].status = "review_required"
                            THEN "review_required" ELSE "analysing"
    /\ runs' = runs + 1
    /\ UNCHANGED <<files, opportunities, session, edits, raced>>

-----------------------------------------------------------------------------
(* Requests about a line: match-decision, quantity, decision,               *)
(* negotiation-target, negotiation-outcome and opportunity.                 *)

Resolutions == {"confirm", "mark_new", "mark_discontinued", "ignore"}

\* "choose_different" brings the item of the candidate line as the handler read it.
LineRequests ==
  [kind : Resolutions]
    \cup [kind : {"choose_different"}, new : {lines[c].new : c \in DOMAIN lines}]
    \cup [kind : {"quantity"}, quantity : Quantities, selling : SellingPrices \cup {NULL}]
    \cup [kind : {"decision"}]
    \cup [kind : {"target"}, price : Targets]
    \cup [kind : {"outcome"}, price : Outcomes]
    \cup [kind : {"opportunity"}]

\* _get_review and _get_line.
LoadLine(s, l) ==
  /\ request[s] = NULL
  /\ edits < MaxEdits
  /\ \E r \in LineRequests : request' = [request EXCEPT ![s] = r]
  /\ loaded' = [loaded EXCEPT ![s] = [id |-> l, row |-> lines[l]]]
  /\ edits' = edits + 1
  /\ raced' = IF \E t \in Sessions : loaded[t] # NULL /\ loaded[t].id = l
                THEN raced \cup {l} ELSE raced
  /\ UNCHANGED <<tables, runs>>

\* resolve_match, up to the recalculation.
Resolved(r, row) ==
  CASE r.kind = "confirm"           -> [row EXCEPT !.status = "matched"]
    [] r.kind = "choose_different"  -> [row EXCEPT !.status = "matched", !.new = r.new]
    [] r.kind = "mark_new"          -> [row EXCEPT !.status = "new_product",
                                                   !.movement = "new_product"]
    [] r.kind = "mark_discontinued" -> [row EXCEPT !.status = "discontinued",
                                                   !.movement = "discontinued"]
    [] r.kind = "ignore"            -> [row EXCEPT !.status = "ignored"]

\* set_manual_quantity, up to the recalculation.
Quantified(r, row) ==
  [row EXCEPT !.quantity = r.quantity,
              !.selling = IF r.selling = NULL THEN @ ELSE r.selling]

Recalculates(r) == r.kind \in Resolutions \cup {"choose_different", "quantity"}

\* The row that calculate_line_movement gets.
Edited(r, row) ==
  IF r.kind = "quantity" THEN Quantified(r, row) ELSE Resolved(r, row)

\* What new_price and the quantity of the copy make of an agreed price.
Avoided(price, row, before) ==
  IF Item(row.new).price = NULL \/ row.quantity = NULL THEN before
  ELSE Calc!CostAvoidance(Item(row.new).price, price, row.quantity)

\* Mutant: the quantity is saved without a recalculation.
After_QuantityOnly(r, row) ==
  CASE r.kind = "quantity" -> Quantified(r, row)
    [] r.kind # "quantity" /\ Recalculates(r) -> CalculateLineMovement(Resolved(r, row))
    [] r.kind = "decision" -> [row EXCEPT !.decision = "decided"]
    [] r.kind = "target"  -> [row EXCEPT !.target = r.price,
                                         !.potential = Avoided(r.price, row, @)]
    [] r.kind = "outcome" -> [row EXCEPT !.outcome = r.price,
                                         !.actual = Avoided(r.price, row, @)]

\* resolve_match, set_manual_quantity, set_buyer_decision, set_negotiation_target
\* and record_negotiation_outcome.
After(r, row) ==
  CASE Recalculates(r) -> CalculateLineMovement(Edited(r, row))
    [] r.kind = "decision" -> [row EXCEPT !.decision = "decided"]
    [] r.kind = "target"  -> [row EXCEPT !.target = r.price,
                                         !.potential = Avoided(r.price, row, @)]
    [] r.kind = "outcome" -> [row EXCEPT !.outcome = r.price,
                                         !.actual = Avoided(r.price, row, @)]

EndRequest(s) ==
  /\ loaded' = [loaded EXCEPT ![s] = NULL]
  /\ request' = [request EXCEPT ![s] = NULL]
  /\ UNCHANGED <<files, status, history>>

\* Mutant: the whole row is written back.
FlushLine_WholeRow(r, c, n) == n

\* Only the columns that differ from the loaded copy are written.
FlushLine(r, c, n) == [col \in DOMAIN n |-> Column(r[col], c[col], n[col])]

Raises(s) == Recalculates(request[s]) /\ MovementRaises(Edited(request[s], loaded[s].row))

\* The handler changes its copy, which is flushed and committed.
Save(s) ==
  /\ request[s] # NULL /\ request[s].kind # "opportunity"
  /\ ~Raises(s)
  /\ LET l == loaded[s].id
         c == loaded[s].row
     IN  lines' = [lines EXCEPT ![l] = FlushLine(@, c, After(request[s], c))]
  /\ UNCHANGED opportunities
  /\ EndRequest(s)

\* ValueError out of calculate_gross_margin: the transaction is rolled back.
SaveRaises(s) ==
  /\ request[s] # NULL /\ Raises(s)
  /\ UNCHANGED <<lines, opportunities>>
  /\ EndRequest(s)

\* create_opportunity_from_line sets the amount alone and writes no event: the
\* status is the default of the column, and the pointer is NULL.
OpportunityAccepted(l, impact) ==
  LET figure == [Unknown EXCEPT !.amount = impact]
  IN  /\ ValidFigure("annual_financial_impact", figure)
      /\ SnapshotMatches({}, l, "annual_financial_impact", figure, NULL)

\* The row is inserted, and refused at once or at COMMIT.
SaveOpportunity(s) ==
  /\ request[s] # NULL /\ request[s].kind = "opportunity"
  /\ LET l == loaded[s].id
         impact == loaded[s].row.impact
     IN  opportunities' = IF OpportunityAccepted(l, impact)
                            THEN opportunities \cup {<<l, impact>>} ELSE opportunities
  /\ UNCHANGED lines
  /\ EndRequest(s)

\* The request dies before its COMMIT.
Crash(s) ==
  /\ request[s] # NULL
  /\ UNCHANGED <<lines, opportunities>>
  /\ EndRequest(s)

Next ==
  \/ \E f \in Files : Upload(f) \/ ConfirmMapping(f)
  \/ RunMatching
  \/ \E s \in Sessions :
       \/ \E l \in DOMAIN lines : LoadLine(s, l)
       \/ Save(s) \/ SaveRaises(s) \/ SaveOpportunity(s) \/ Crash(s)

Spec == Init /\ [][Next]_vars

-----------------------------------------------------------------------------
(* Properties                                                               *)

Movements ==
  {"pack_change", "review_required", "price_increase", "price_decrease", "no_change",
   "new_product", "discontinued"}

OrNull(S) == S \cup {NULL}

Rows ==
  [old : OrNull(Items), new : OrNull(Items), unit : OrNull({Item(i).unit : i \in Items}),
   status : MatchStatuses, packChanged : BOOLEAN, movement : OrNull(Movements),
   basis : OrNull({"normalized", "raw", "unit_mismatch"}), change : OrNull(Int),
   quantity : OrNull(Quantities), selling : OrNull(SellingPrices), impact : OrNull(Int),
   margin : OrNull(Int \X SellingPrices), decision : {NULL, "decided"},
   target : OrNull(Targets), potential : OrNull(Int),
   outcome : OrNull(Outcomes), actual : OrNull(Int)]

Copies == [id : (1 .. MaxRuns) \X Items, row : Rows]

Requests ==
  [kind : Resolutions \cup {"decision", "opportunity"}]
    \cup [kind : {"choose_different"}, new : OrNull(Items)]
    \cup [kind : {"quantity"}, quantity : Quantities, selling : OrNull(SellingPrices)]
    \cup [kind : {"target"}, price : Targets]
    \cup [kind : {"outcome"}, price : Outcomes]

\* A session that has loaded a line has something.
ASSUME CopyAssumption == NULL \notin Copies \cup Requests

\* Every variable has its type.
TypeOK ==
  /\ files \in [Files -> {NULL, "uploaded", "validated"}]
  /\ status \in {"draft", "review_required", "analysing"}
  /\ DOMAIN lines \subseteq (1 .. MaxRuns) \X Items
  /\ lines \in [DOMAIN lines -> Rows]
  /\ opportunities \subseteq (DOMAIN lines) \X OrNull(Int)
  /\ loaded \in [Sessions -> OrNull(Copies)] /\ request \in [Sessions -> OrNull(Requests)]
  /\ \A s \in Sessions : /\ loaded[s] = NULL <=> request[s] = NULL
                         /\ loaded[s] # NULL => loaded[s].id \in DOMAIN lines
  /\ runs \in 0 .. MaxRuns /\ edits \in 0 .. MaxEdits
  /\ raced \subseteq DOMAIN lines

\* Matching drops no row of either list, gives every old row one line and calls a
\* new row a new product only if no old row is matched with it, also when two old
\* rows want the same new one (run_matching).
MatchingLosesNothing ==
  [][LET added == DOMAIN lines' \ DOMAIN lines
     IN  added # {} =>
           \E previous \in Uploaded("previous"), new \in Uploaded("new") :
             /\ \A o \in RowsOf[previous] :
                  Cardinality({l \in added : lines'[l].old = o}) = 1
             /\ \A i \in RowsOf[new] : \E l \in added : lines'[l].new = i
             /\ \A l, k \in added :
                  lines'[l].status = "new_product" /\ lines'[k].new = lines'[l].new => k = l]_lines

\* What a buyer entered is never taken back by a request that read the line before
\* it was entered, whatever that request is about (the column-wise flush).
EntriesSurvive ==
  [][\A l \in DOMAIN lines, col \in {"quantity", "selling", "decision", "target", "outcome"} :
       lines[l][col] # NULL => lines'[l][col] # NULL]_lines

\* After any sequence of requests of which no two overlapped on the line, the
\* movement of a compared line is the difference of the two prices that it shows,
\* its impact is that times the quantity, and incompatible units have no movement
\* (calculate_line_movement, after resolve_match and set_manual_quantity).
MovementFollowsPrices ==
  \A l \in DOMAIN lines \ raced :
    LET r    == lines[l]
        from == IF r.basis = "normalized" THEN Item(r.old).norm ELSE Item(r.old).price
        to   == IF r.basis = "normalized" THEN Item(r.new).norm ELSE Item(r.new).price
    IN  r.status \in Compared =>
          /\ r.basis = "unit_mismatch" => r.change = NULL /\ r.movement = "review_required"
          /\ r.basis \in {"normalized", "raw"} /\ from # NULL /\ to # NULL =>
               /\ r.change = to - from
               /\ r.quantity # NULL => r.impact = (to - from) * r.quantity

=============================================================================
