-------------------------- MODULE PriceReview_proofs --------------------------
(***************************************************************************)
(* Proofs about PriceReview, for any price lists, sessions and requests.    *)
(*                                                                         *)
(* A line on which no two requests overlapped was always saved from a copy  *)
(* that is the line, so that the flush of the changed columns writes what   *)
(* the handler made of the line, and the handlers calculate the movement    *)
(* again whenever the prices, the match or the quantity change.             *)
(***************************************************************************)
EXTENDS PriceReview, FiniteSetTheorems, TLAPS

\* The movement of a compared line is that of the prices it shows.
Follows(r) ==
  LET from == IF r.basis = "normalized" THEN Item(r.old).norm ELSE Item(r.old).price
      to   == IF r.basis = "normalized" THEN Item(r.new).norm ELSE Item(r.new).price
  IN  r.status \in Compared =>
        /\ r.basis = "unit_mismatch" => r.change = NULL /\ r.movement = "review_required"
        /\ r.basis \in {"normalized", "raw"} /\ from # NULL /\ to # NULL =>
             /\ r.change = to - from
             /\ r.quantity # NULL => r.impact = (to - from) * r.quantity

\* Of a line that is not raced there is at most one copy, which is the line.
CopiesHold ==
  /\ \A s \in Sessions : loaded[s] # NULL /\ loaded[s].id \notin raced =>
       loaded[s].row = lines[loaded[s].id]
  /\ \A s, t \in Sessions :
       loaded[s] # NULL /\ loaded[t] # NULL /\ s # t /\ loaded[s].id = loaded[t].id =>
         loaded[s].id \in raced

IInv ==
  /\ TypeOK
  /\ DOMAIN lines \subseteq (1 .. runs) \X Items
  /\ CopiesHold
  /\ MovementFollowsPrices

-----------------------------------------------------------------------------
(* Operators                                                                *)

Entries == {"quantity", "selling", "decision", "target", "outcome"}

\* Rounding gives a number.
LEMMA RoundIs ==
  ASSUME NEW n \in Int, NEW d \in Nat \ {0}
  PROVE  Calc!RoundHalfEven(n, d) \in Int
PROOF
  <1>1. n \div d \in Int
    OBVIOUS
  <1> QED
    BY <1>1 DEF Calc!RoundHalfEven

\* The columns of an item, also when there is none.
LEMMA ItemIs ==
  ASSUME NEW i \in OrNull(Items)
  PROVE  /\ Item(i).price \in OrNull(Nat) /\ Item(i).norm \in OrNull(Nat)
         /\ Item(i).unit \in OrNull({Item(j).unit : j \in Items})
PROOF
  <1>1. CASE i = NULL
    BY <1>1 DEF Item, NoItem, OrNull
  <1>2. CASE i # NULL
    BY <1>2, ReviewAssumption DEF Item, OrNull
  <1> QED
    BY <1>1, <1>2

\* A percentage is a number, unless the old price is null or zero.
LEMMA PercentageIs ==
  ASSUME NEW old \in Nat, NEW new \in Nat
  PROVE  Calc!PercentageChange(old, new) \in OrNull(Int)
PROOF
  <1>1. CASE old = 0
    BY <1>1 DEF Calc!PercentageChange, OrNull
  <1>2. CASE old # 0
    <2>1. (new - old) * 1000000 \in Int
      OBVIOUS
    <2>2. Calc!RoundHalfEven((new - old) * 1000000, old) \in Int
      BY <1>2, <2>1, RoundIs
    <2> QED
      BY <1>2, <2>2 DEF Calc!PercentageChange, Calc!PercentUnit, OrNull
  <1> QED
    BY <1>1, <1>2

\* A movement is one of those that a line may have.
LEMMA MovementTypeIs ==
  ASSUME NEW packChanged \in BOOLEAN, NEW pct \in OrNull(Int)
  PROVE  Calc!MovementType(packChanged, pct) \in Movements
PROOF
  <1>1. CASE packChanged
    BY <1>1 DEF Calc!MovementType, Movements
  <1>2. CASE ~packChanged /\ pct = NULL
    BY <1>2, ReviewAssumption DEF Calc!MovementType, Movements
  <1>3. CASE ~packChanged /\ pct # NULL
    <2>1. pct \in Int
      BY <1>3 DEF OrNull
    <2> QED
      BY <2>1, <1>3 DEF Calc!MovementType, Movements
  <1> QED
    BY <1>1, <1>2, <1>3

\* The prices that are compared are prices, or missing.
LEMMA PricesAre ==
  ASSUME NEW r \in Rows
  PROVE  /\ BasisOf(r) \in {"normalized", "raw", "unit_mismatch"}
         /\ OldPrice(r) \in OrNull(Nat) /\ NewPrice(r) \in OrNull(Nat)
PROOF
  <1>1. r.old \in OrNull(Items) /\ r.new \in OrNull(Items)
    BY DEF Rows
  <1>2. BasisOf(r) \in {"normalized", "raw", "unit_mismatch"}
    BY DEF BasisOf, Calc!ComparisonBasis
  <1> QED
    BY <1>1, <1>2, ItemIs DEF OldPrice, NewPrice

\* What is flushed is a line, in which each column is the session's if it changed it.
LEMMA FlushLineIs ==
  ASSUME NEW r \in Rows, NEW c \in Rows, NEW n \in Rows
  PROVE  /\ FlushLine(r, c, n) \in Rows
         /\ FlushLine(r, r, n) = n
         /\ \A col \in Entries : FlushLine(r, c, n)[col] = Column(r[col], c[col], n[col])
PROOF
  <1>1. FlushLine(r, c, n) \in Rows
    BY DEF Rows, FlushLine, Column
  <1>2. FlushLine(r, r, n) = n
    BY DEF Rows, FlushLine, Column
  <1>3. Entries \subseteq DOMAIN n
    BY DEF Rows, Entries
  <1> QED
    BY <1>1, <1>2, <1>3 DEF FlushLine


\* The movement, the impact and the margins of a line of which the prices can be compared.
LEMMA MovedIs ==
  ASSUME NEW r \in Rows, Comparable(r)
  PROVE  /\ Moved(r) \in Rows /\ Follows(Moved(r))
         /\ \A col \in Entries : Moved(r)[col] = r[col]
PROOF
  <1> DEFINE basis    == BasisOf(r)
             change   == Calc!PriceChange(OldPrice(r), NewPrice(r))
             movement == Calc!MovementType(r.packChanged,
                                           Calc!PercentageChange(OldPrice(r), NewPrice(r)))
             impact   == IF r.quantity = NULL THEN r.impact
                                              ELSE Calc!AnnualImpact(change, r.quantity)
             margin   == IF r.selling = NULL THEN r.margin ELSE <<change, r.selling>>
             n        == [r EXCEPT !.basis = basis, !.change = change, !.movement = movement,
                                   !.impact = impact, !.margin = margin]
  <1>1. Moved(r) = n
    BY DEF Moved
  <1>2. OldPrice(r) \in Nat /\ NewPrice(r) \in Nat
    BY PricesAre DEF Comparable, OrNull
  <1>3. basis \in {"normalized", "raw"}
    BY PricesAre DEF Comparable
  <1>4. change = NewPrice(r) - OldPrice(r) /\ change \in Int
    BY <1>2 DEF Calc!PriceChange
  <1>5. movement \in Movements
    <2>1. r.packChanged \in BOOLEAN
      BY DEF Rows
    <2> QED
      BY <2>1, <1>2, PercentageIs, MovementTypeIs
  <1>6. r.quantity \in OrNull(Quantities) /\ r.selling \in OrNull(SellingPrices)
        /\ r.impact \in OrNull(Int) /\ r.margin \in OrNull(Int \X SellingPrices)
    BY DEF Rows
  <1>7. impact \in OrNull(Int) /\ (r.quantity # NULL => impact = change * r.quantity)
    BY <1>4, <1>6, ReviewAssumption DEF Calc!AnnualImpact, OrNull
  <1>8. margin \in OrNull(Int \X SellingPrices)
    BY <1>4, <1>6 DEF OrNull
  <1>9. /\ basis = "normalized" =>
             OldPrice(r) = Item(r.old).norm /\ NewPrice(r) = Item(r.new).norm
        /\ basis # "normalized" =>
             OldPrice(r) = Item(r.old).price /\ NewPrice(r) = Item(r.new).price
    BY DEF OldPrice, NewPrice
  <1> HIDE DEF basis, change, movement, impact, margin
  <1>10. n \in Rows
    <2> DEFINE f1 == [r EXCEPT !.basis = basis]
               f2 == [f1 EXCEPT !.change = change]
               f3 == [f2 EXCEPT !.movement = movement]
               f4 == [f3 EXCEPT !.impact = impact]
               f5 == [f4 EXCEPT !.margin = margin]
    <2>1. n = f5
      OBVIOUS
    <2>2. f1 \in Rows
      BY <1>3 DEF Rows, OrNull
    <2> HIDE DEF f1
    <2>3. f2 \in Rows
      BY <1>4, <2>2 DEF Rows, OrNull
    <2> HIDE DEF f2
    <2>4. f3 \in Rows
      BY <1>5, <2>3 DEF Rows, OrNull
    <2> HIDE DEF f3
    <2>5. f4 \in Rows
      BY <1>7, <2>4 DEF Rows
    <2> HIDE DEF f4
    <2>6. f5 \in Rows
      BY <1>8, <2>5 DEF Rows
    <2> QED
      BY <2>1, <2>6
  <1>11. /\ n.basis = basis /\ n.change = change /\ n.impact = impact /\ n.quantity = r.quantity
         /\ n.old = r.old /\ n.new = r.new
         /\ \A col \in Entries : n[col] = r[col]
    BY DEF Rows, Entries
  <1> HIDE DEF n
  <1>12. Follows(n)
    BY <1>3, <1>4, <1>7, <1>9, <1>11 DEF Follows
  <1> QED
    BY <1>1, <1>10, <1>11, <1>12

\* calculate_line_movement leaves a row whose figures follow from its prices, and leaves
\* what users have entered alone.
LEMMA MovementIs ==
  ASSUME NEW r \in Rows
  PROVE  /\ CalculateLineMovement(r) \in Rows /\ Follows(CalculateLineMovement(r))
         /\ \A col \in Entries : CalculateLineMovement(r)[col] = r[col]
PROOF
  <1>1. CASE r.status \notin Compared
    BY <1>1 DEF CalculateLineMovement, Follows
  <1>2. CASE r.status \in Compared /\ BasisOf(r) = "unit_mismatch"
    <2> DEFINE n == [r EXCEPT !.basis = "unit_mismatch", !.movement = "review_required",
                              !.change = NULL]
    <2>1. CalculateLineMovement(r) = n
      BY <1>2 DEF CalculateLineMovement, Comparable
    <2>2. n \in Rows
      <3> DEFINE f1 == [r EXCEPT !.basis = "unit_mismatch"]
                 f2 == [f1 EXCEPT !.movement = "review_required"]
                 f3 == [f2 EXCEPT !.change = NULL]
      <3>1. n = f3
        OBVIOUS
      <3>2. f1 \in Rows
        BY DEF Rows, OrNull
      <3> HIDE DEF f1
      <3>3. f2 \in Rows
        BY <3>2 DEF Rows, OrNull, Movements
      <3> HIDE DEF f2
      <3>4. f3 \in Rows
        BY <3>3 DEF Rows, OrNull
      <3> QED
        BY <3>1, <3>4
    <2>3. /\ n.basis = "unit_mismatch" /\ n.movement = "review_required" /\ n.change = NULL
          /\ \A col \in Entries : n[col] = r[col]
      BY DEF Rows, Entries
    <2> HIDE DEF n
    <2> QED
      BY <2>1, <2>2, <2>3 DEF Follows
  <1>3. CASE r.status \in Compared /\ Comparable(r)
    BY <1>3, MovedIs DEF CalculateLineMovement, Comparable
  <1>4. CASE r.status \in Compared /\ BasisOf(r) # "unit_mismatch" /\ ~Comparable(r)
    <2>1. PICK basis : basis = BasisOf(r)
      OBVIOUS
    <2> DEFINE n == [r EXCEPT !.basis = basis]
    <2>2. CalculateLineMovement(r) = n
      BY <1>4, <2>1 DEF CalculateLineMovement
    <2>3. basis \in {"normalized", "raw"} /\ (OldPrice(r) = NULL \/ NewPrice(r) = NULL)
      BY <1>4, <2>1, PricesAre DEF Comparable
    <2>4. /\ basis = "normalized" =>
               OldPrice(r) = Item(r.old).norm /\ NewPrice(r) = Item(r.new).norm
          /\ basis # "normalized" =>
               OldPrice(r) = Item(r.old).price /\ NewPrice(r) = Item(r.new).price
      BY <2>1 DEF OldPrice, NewPrice
    <2>5. n \in Rows
      BY <2>3 DEF Rows, OrNull
    <2>6. /\ n.basis = basis /\ n.old = r.old /\ n.new = r.new
          /\ \A col \in Entries : n[col] = r[col]
      BY DEF Rows, Entries
    <2> HIDE DEF n
    <2>7. Follows(n)
      BY <2>3, <2>4, <2>6 DEF Follows
    <2> QED
      BY <2>2, <2>5, <2>6, <2>7
  <1> QED
    BY <1>1, <1>2, <1>3, <1>4


-----------------------------------------------------------------------------
(* What the handlers make of a line                                         *)

\* What was entered stays, or something else was entered.
Keeps(row, n) == \A col \in Entries : n[col] = row[col] \/ n[col] # NULL

\* What the fields of a request hold.
LEMMA RequestIs ==
  ASSUME NEW r \in Requests
  PROVE  /\ r.kind \in Resolutions \cup {"choose_different", "quantity", "decision", "target",
                                         "outcome", "opportunity"}
         /\ r.kind = "choose_different" => r.new \in OrNull(Items)
         /\ r.kind = "quantity" =>
              r.quantity \in Quantities /\ r.selling \in OrNull(SellingPrices)
         /\ r.kind = "target" => r.price \in Targets
         /\ r.kind = "outcome" => r.price \in Outcomes
PROOF
  <1>1. CASE r \in [kind : Resolutions \cup {"decision", "opportunity"}]
    BY <1>1 DEF Resolutions
  <1>2. CASE r \in [kind : {"choose_different"}, new : OrNull(Items)]
    BY <1>2
  <1>3. CASE r \in [kind : {"quantity"}, quantity : Quantities, selling : OrNull(SellingPrices)]
    BY <1>3
  <1>4. CASE r \in [kind : {"target"}, price : Targets]
    BY <1>4
  <1>5. CASE r \in [kind : {"outcome"}, price : Outcomes]
    BY <1>5
  <1> QED
    BY <1>1, <1>2, <1>3, <1>4, <1>5 DEF Requests

\* Nothing that can be entered is missing.
LEMMA EntriesAreEntered ==
  /\ \A x \in Quantities \cup SellingPrices \cup Targets \cup Outcomes : x # NULL /\ x \in Int
  /\ "decided" # NULL
PROOF
  BY ReviewAssumption

\* resolve_match leaves a row with its entries.
LEMMA ResolvedIs ==
  ASSUME NEW r \in Requests, NEW row \in Rows, r.kind \in Resolutions \cup {"choose_different"}
  PROVE  Resolved(r, row) \in Rows /\ Keeps(row, Resolved(r, row))
PROOF
  <1>1. CASE r.kind = "confirm"
    <2> DEFINE n == [row EXCEPT !.status = "matched"]
    <2>1. Resolved(r, row) = n
      BY <1>1 DEF Resolved
    <2>2. n \in Rows /\ \A col \in Entries : n[col] = row[col]
      BY DEF Rows, MatchStatuses, Entries
    <2> QED
      BY <2>1, <2>2 DEF Keeps
  <1>2. CASE r.kind = "choose_different"
    <2>1. PICK i : i = r.new
      OBVIOUS
    <2> DEFINE f1 == [row EXCEPT !.status = "matched"]
               f2 == [f1 EXCEPT !.new = i]
    <2>2. Resolved(r, row) = f2
      BY <1>2, <2>1 DEF Resolved
    <2>3. i \in OrNull(Items)
      BY <1>2, <2>1, RequestIs
    <2>4. f1 \in Rows /\ \A col \in Entries : f1[col] = row[col]
      BY DEF Rows, MatchStatuses, Entries
    <2> HIDE DEF f1
    <2>5. f2 \in Rows /\ \A col \in Entries : f2[col] = f1[col]
      BY <2>3, <2>4 DEF Rows, Entries
    <2> QED
      BY <2>2, <2>4, <2>5 DEF Keeps
  <1>3. ASSUME NEW settled \in {"new_product", "discontinued"},
               Resolved(r, row) = [row EXCEPT !.status = settled, !.movement = settled]
        PROVE  Resolved(r, row) \in Rows /\ Keeps(row, Resolved(r, row))
    <2> DEFINE f1 == [row EXCEPT !.status = settled]
               f2 == [f1 EXCEPT !.movement = settled]
    <2>1. Resolved(r, row) = f2
      BY <1>3
    <2>2. f1 \in Rows /\ \A col \in Entries : f1[col] = row[col]
      BY DEF Rows, MatchStatuses, Entries
    <2> HIDE DEF f1
    <2>3. f2 \in Rows /\ \A col \in Entries : f2[col] = f1[col]
      BY <2>2 DEF Rows, Entries, Movements, OrNull
    <2> QED
      BY <2>1, <2>2, <2>3 DEF Keeps
  <1>4. CASE r.kind = "mark_new"
    BY <1>3, <1>4 DEF Resolved
  <1>5. CASE r.kind = "mark_discontinued"
    BY <1>3, <1>5 DEF Resolved
  <1>6. CASE r.kind = "ignore"
    <2> DEFINE n == [row EXCEPT !.status = "ignored"]
    <2>1. Resolved(r, row) = n
      BY <1>6 DEF Resolved
    <2>2. n \in Rows /\ \A col \in Entries : n[col] = row[col]
      BY DEF Rows, MatchStatuses, Entries
    <2> QED
      BY <2>1, <2>2 DEF Keeps
  <1> QED
    BY <1>1, <1>2, <1>4, <1>5, <1>6 DEF Resolutions

\* set_manual_quantity leaves a row with its entries.
LEMMA QuantifiedIs ==
  ASSUME NEW r \in Requests, NEW row \in Rows, r.kind = "quantity"
  PROVE  Quantified(r, row) \in Rows /\ Keeps(row, Quantified(r, row))
PROOF
  <1>1. PICK quantity, selling :
          quantity = r.quantity /\ selling = (IF r.selling = NULL THEN row.selling ELSE r.selling)
    OBVIOUS
  <1> DEFINE f1 == [row EXCEPT !.quantity = quantity]
             f2 == [f1 EXCEPT !.selling = selling]
  <1>2. Quantified(r, row) = f2
    BY <1>1 DEF Quantified
  <1>3. quantity \in Quantities /\ selling \in OrNull(SellingPrices)
        /\ (selling = row.selling \/ selling # NULL)
    <2>1. row.selling \in OrNull(SellingPrices)
      BY DEF Rows
    <2>2. r.quantity \in Quantities /\ r.selling \in OrNull(SellingPrices)
      BY RequestIs
    <2> QED
      BY <1>1, <2>1, <2>2
  <1>4. f1 \in Rows /\ f1.quantity = quantity
        /\ \A col \in Entries : col # "quantity" => f1[col] = row[col]
    BY <1>3 DEF Rows, OrNull, Entries
  <1> HIDE DEF f1
  <1>5. f2 \in Rows /\ f2.selling = selling
        /\ \A col \in Entries : col # "selling" => f2[col] = f1[col]
    BY <1>3, <1>4 DEF Rows, Entries
  <1> HIDE DEF f2
  <1>6. quantity # NULL
    BY <1>3, EntriesAreEntered
  <1> QED
    BY <1>2, <1>3, <1>4, <1>5, <1>6 DEF Keeps, Entries


\* The avoided increase is a number or unknown.
LEMMA AvoidedIs ==
  ASSUME NEW price \in Int, NEW row \in Rows, NEW before \in OrNull(Int)
  PROVE  Avoided(price, row, before) \in OrNull(Int)
PROOF
  <1>1. row.new \in OrNull(Items) /\ row.quantity \in OrNull(Quantities)
    BY DEF Rows
  <1>2. CASE Item(row.new).price = NULL \/ row.quantity = NULL
    BY <1>2 DEF Avoided
  <1>3. CASE ~ (Item(row.new).price = NULL \/ row.quantity = NULL)
    <2>1. Item(row.new).price \in Int /\ row.quantity \in Int
      BY <1>1, <1>3, ItemIs, EntriesAreEntered DEF OrNull
    <2>2. (Item(row.new).price - price) * row.quantity \in Int
      BY <2>1
    <2> QED
      BY <1>3, <2>2 DEF Avoided, Calc!CostAvoidance, OrNull
  <1> QED
    BY <1>2, <1>3

\* A line whose match, prices and quantity stay goes on following its prices.
LEMMA FollowsOn ==
  ASSUME NEW r, NEW n, Follows(r),
         n.status = r.status /\ n.basis = r.basis /\ n.old = r.old /\ n.new = r.new
           /\ n.change = r.change /\ n.movement = r.movement /\ n.quantity = r.quantity
           /\ n.impact = r.impact
  PROVE  Follows(n)
PROOF
  BY DEF Follows

\* Every handler leaves a line, whose movement follows its prices if it did, and takes
\* nothing back that was entered.
LEMMA AfterIs ==
  ASSUME NEW r \in Requests, NEW row \in Rows, r.kind # "opportunity"
  PROVE  /\ After(r, row) \in Rows /\ Keeps(row, After(r, row))
         /\ Follows(row) => Follows(After(r, row))
PROOF
  <1>1. CASE Recalculates(r)
    <2>1. After(r, row) = CalculateLineMovement(Edited(r, row))
      <3>1. r.kind \notin {"decision", "target", "outcome"}
        BY <1>1 DEF Recalculates, Resolutions
      <3> QED
        BY <1>1, <3>1 DEF After
    <2>2. Edited(r, row) \in Rows /\ Keeps(row, Edited(r, row))
      <3>1. CASE r.kind = "quantity"
        BY <3>1, QuantifiedIs DEF Edited
      <3>2. CASE r.kind # "quantity"
        <4>1. r.kind \in Resolutions \cup {"choose_different"}
          BY <1>1, <3>2 DEF Recalculates
        <4> QED
          BY <3>2, <4>1, ResolvedIs DEF Edited
      <3> QED
        BY <3>1, <3>2
    <2> QED
      BY <2>1, <2>2, MovementIs DEF Keeps
  <1>2. CASE r.kind = "decision"
    <2> DEFINE n == [row EXCEPT !.decision = "decided"]
    <2>1. After(r, row) = n
      BY <1>2 DEF After, Recalculates, Resolutions
    <2>2. n \in Rows
      BY DEF Rows
    <2>3. /\ n.status = row.status /\ n.basis = row.basis /\ n.old = row.old /\ n.new = row.new
          /\ n.change = row.change /\ n.movement = row.movement /\ n.quantity = row.quantity
          /\ n.impact = row.impact
          /\ \A col \in Entries : n[col] = row[col] \/ n[col] = "decided"
      BY DEF Rows, Entries
    <2> HIDE DEF n
    <2> QED
      BY <2>1, <2>2, <2>3, FollowsOn, EntriesAreEntered DEF Keeps
  <1>3. CASE r.kind = "target"
    <2>1. PICK price, avoided : price = r.price /\ avoided = Avoided(r.price, row, row.potential)
      OBVIOUS
    <2> DEFINE f1 == [row EXCEPT !.target = price]
               f2 == [f1 EXCEPT !.potential = avoided]
    <2>2. After(r, row) = f2
      BY <1>3, <2>1 DEF After, Recalculates, Resolutions
    <2>3. price \in Targets /\ price \in Int /\ price # NULL
      BY <1>3, <2>1, RequestIs, EntriesAreEntered
    <2>4. avoided \in OrNull(Int)
      <3>1. row.potential \in OrNull(Int)
        BY DEF Rows
      <3> QED
        BY <2>1, <2>3, <3>1, AvoidedIs
    <2>5. /\ f1 \in Rows /\ f1.target = price
          /\ f1.status = row.status /\ f1.basis = row.basis /\ f1.old = row.old
          /\ f1.new = row.new /\ f1.change = row.change /\ f1.movement = row.movement
          /\ f1.quantity = row.quantity /\ f1.impact = row.impact
          /\ \A col \in Entries : f1[col] = row[col] \/ f1[col] = price
      BY <2>3 DEF Rows, OrNull, Entries
    <2> HIDE DEF f1
    <2>6. /\ f2 \in Rows
          /\ f2.status = f1.status /\ f2.basis = f1.basis /\ f2.old = f1.old
          /\ f2.new = f1.new /\ f2.change = f1.change /\ f2.movement = f1.movement
          /\ f2.quantity = f1.quantity /\ f2.impact = f1.impact
          /\ \A col \in Entries : f2[col] = f1[col]
      BY <2>4, <2>5 DEF Rows, Entries
    <2> HIDE DEF f2
    <2> QED
      BY <2>2, <2>3, <2>5, <2>6, FollowsOn DEF Keeps
  <1>4. CASE r.kind = "outcome"
    <2>1. PICK price, avoided : price = r.price /\ avoided = Avoided(r.price, row, row.actual)
      OBVIOUS
    <2> DEFINE f1 == [row EXCEPT !.outcome = price]
               f2 == [f1 EXCEPT !.actual = avoided]
    <2>2. After(r, row) = f2
      BY <1>4, <2>1 DEF After, Recalculates, Resolutions
    <2>3. price \in Outcomes /\ price \in Int /\ price # NULL
      BY <1>4, <2>1, RequestIs, EntriesAreEntered
    <2>4. avoided \in OrNull(Int)
      <3>1. row.actual \in OrNull(Int)
        BY DEF Rows
      <3> QED
        BY <2>1, <2>3, <3>1, AvoidedIs
    <2>5. /\ f1 \in Rows /\ f1.outcome = price
          /\ f1.status = row.status /\ f1.basis = row.basis /\ f1.old = row.old
          /\ f1.new = row.new /\ f1.change = row.change /\ f1.movement = row.movement
          /\ f1.quantity = row.quantity /\ f1.impact = row.impact
          /\ \A col \in Entries : f1[col] = row[col] \/ f1[col] = price
      BY <2>3 DEF Rows, OrNull, Entries
    <2> HIDE DEF f1
    <2>6. /\ f2 \in Rows
          /\ f2.status = f1.status /\ f2.basis = f1.basis /\ f2.old = f1.old
          /\ f2.new = f1.new /\ f2.change = f1.change /\ f2.movement = f1.movement
          /\ f2.quantity = f1.quantity /\ f2.impact = f1.impact
          /\ \A col \in Entries : f2[col] = f1[col]
      BY <2>4, <2>5 DEF Rows, Entries
    <2> HIDE DEF f2
    <2> QED
      BY <2>2, <2>3, <2>5, <2>6, FollowsOn DEF Keeps
  <1>5. r.kind \in Resolutions \cup {"choose_different", "quantity", "decision", "target", "outcome"}
    BY RequestIs
  <1> QED
    BY <1>1, <1>2, <1>3, <1>4, <1>5 DEF Recalculates


-----------------------------------------------------------------------------
(* Steps                                                                    *)

\* The end of a request.
LEMMA Ended ==
  ASSUME IInv, NEW s \in Sessions, EndRequest(s)
  PROVE  /\ loaded' \in [Sessions -> OrNull(Copies)] /\ request' \in [Sessions -> OrNull(Requests)]
         /\ loaded'[s] = NULL /\ request'[s] = NULL
         /\ \A t \in Sessions : t # s => loaded'[t] = loaded[t] /\ request'[t] = request[t]
         /\ UNCHANGED <<files, status, runs, edits, raced>>
PROOF
  BY DEF IInv, TypeOK, EndRequest, OrNull, history

\* A request that ends and leaves the lines alone.
LEMMA EndKeeps ==
  ASSUME IInv, NEW s \in Sessions, EndRequest(s), UNCHANGED lines,
         opportunities' \subseteq (DOMAIN lines) \X OrNull(Int)
  PROVE  IInv'
PROOF
  <1>1. /\ loaded' \in [Sessions -> OrNull(Copies)] /\ request' \in [Sessions -> OrNull(Requests)]
        /\ loaded'[s] = NULL /\ request'[s] = NULL
        /\ \A t \in Sessions : t # s => loaded'[t] = loaded[t] /\ request'[t] = request[t]
        /\ UNCHANGED <<files, status, runs, edits, raced>>
    BY Ended
  <1>2. \A t \in Sessions : loaded'[t] # NULL => t # s
    BY <1>1
  <1>3. TypeOK'
    BY <1>1 DEF IInv, TypeOK
  <1>4. CopiesHold'
    BY <1>1, <1>2 DEF IInv, CopiesHold
  <1>5. MovementFollowsPrices'
    BY <1>1 DEF IInv, MovementFollowsPrices
  <1> QED
    BY <1>1, <1>3, <1>4, <1>5 DEF IInv

\* An upload or a validation touches nothing but its file.
LEMMA FilesKeep ==
  ASSUME IInv, UNCHANGED <<status, lines, opportunities, session, history>>,
         files' \in [Files -> {NULL, "uploaded", "validated"}]
  PROVE  IInv'
PROOF
  <1>1. UNCHANGED <<status, lines, opportunities, loaded, request, runs, edits, raced>>
    BY DEF session, history
  <1>2. TypeOK'
    BY <1>1 DEF IInv, TypeOK
  <1>3. CopiesHold' /\ MovementFollowsPrices'
    BY <1>1 DEF IInv, CopiesHold, MovementFollowsPrices
  <1> QED
    BY <1>1, <1>2, <1>3 DEF IInv

\* A request loads a copy of the row.
LEMMA LoadLineKeeps ==
  ASSUME IInv, NEW s \in Sessions, NEW l \in DOMAIN lines, LoadLine(s, l)
  PROVE  IInv'
PROOF
  <1>1. PICK r \in LineRequests : request' = [request EXCEPT ![s] = r]
    BY DEF LoadLine
  <1> DEFINE copy == [id |-> l, row |-> lines[l]]
  <1>2. /\ request[s] = NULL /\ edits < MaxEdits /\ loaded' = [loaded EXCEPT ![s] = copy]
        /\ edits' = edits + 1
        /\ raced' = IF \E t \in Sessions : loaded[t] # NULL /\ loaded[t].id = l
                      THEN raced \cup {l} ELSE raced
        /\ UNCHANGED <<files, status, lines, opportunities, runs>>
    BY DEF LoadLine, tables
  <1>3. TypeOK /\ DOMAIN lines \subseteq (1 .. runs) \X Items /\ CopiesHold
        /\ MovementFollowsPrices
    BY DEF IInv
  <1>4. r \in Requests
    <2>1. \A c \in DOMAIN lines : lines[c].new \in OrNull(Items)
      BY <1>3 DEF TypeOK, Rows
    <2> QED
      BY <2>1 DEF LineRequests, Requests, OrNull
  <1>5. copy \in Copies /\ copy.id = l /\ copy.row = lines[l]
    BY <1>3 DEF TypeOK, Copies
  <1> HIDE DEF copy
  <1>6. copy # NULL /\ r # NULL
    BY <1>4, <1>5, CopyAssumption
  <1>7. /\ loaded' \in [Sessions -> OrNull(Copies)] /\ request' \in [Sessions -> OrNull(Requests)]
        /\ loaded'[s] = copy /\ request'[s] = r /\ loaded[s] = NULL
        /\ \A t \in Sessions : t # s => loaded'[t] = loaded[t] /\ request'[t] = request[t]
    BY <1>1, <1>2, <1>3, <1>4, <1>5 DEF TypeOK, OrNull
  <1>8. raced \subseteq raced' /\ raced' \subseteq DOMAIN lines
        /\ \A t \in Sessions : loaded[t] # NULL /\ loaded[t].id = l => l \in raced'
    BY <1>2, <1>3 DEF TypeOK
  <1>9. edits' \in 0 .. MaxEdits
    BY <1>2, <1>3, ReviewAssumption DEF TypeOK
  <1>10. TypeOK'
    BY <1>2, <1>3, <1>5, <1>6, <1>7, <1>8, <1>9 DEF TypeOK
  <1>11. CopiesHold'
    BY <1>2, <1>3, <1>5, <1>7, <1>8 DEF CopiesHold
  <1>12. MovementFollowsPrices'
    BY <1>2, <1>3, <1>8 DEF MovementFollowsPrices
  <1> QED
    BY <1>2, <1>3, <1>10, <1>11, <1>12 DEF IInv


\* Nothing that was entered in a line is taken back.
Survives ==
  \A l \in DOMAIN lines, col \in Entries : lines[l][col] # NULL => lines'[l][col] # NULL

\* What a request saves is a row that follows from its prices, has the entries of the
\* copy, and no line is lost.
LEMMA SaveKeeps ==
  ASSUME IInv, NEW s \in Sessions, Save(s)
  PROVE  IInv' /\ Survives /\ DOMAIN lines' = DOMAIN lines
PROOF
  <1>1. TypeOK /\ DOMAIN lines \subseteq (1 .. runs) \X Items /\ CopiesHold
        /\ MovementFollowsPrices
    BY DEF IInv
  <1>2. PICK l, c, r : l = loaded[s].id /\ c = loaded[s].row /\ r = request[s]
    OBVIOUS
  <1>3. /\ r # NULL /\ r.kind # "opportunity"
        /\ lines' = [lines EXCEPT ![l] = FlushLine(@, c, After(r, c))]
        /\ UNCHANGED opportunities /\ EndRequest(s)
    BY <1>2 DEF Save
  <1>4. loaded[s] # NULL /\ loaded[s] \in Copies /\ l \in DOMAIN lines /\ c \in Rows
        /\ r \in Requests
    BY <1>1, <1>2, <1>3 DEF TypeOK, OrNull, Copies
  <1>5. /\ loaded' \in [Sessions -> OrNull(Copies)] /\ request' \in [Sessions -> OrNull(Requests)]
        /\ loaded'[s] = NULL /\ request'[s] = NULL
        /\ \A t \in Sessions : t # s => loaded'[t] = loaded[t] /\ request'[t] = request[t]
        /\ UNCHANGED <<files, status, runs, edits, raced>>
    BY <1>3, Ended
  <1>6. PICK n : n = After(r, c)
    OBVIOUS
  <1>7. n \in Rows /\ Keeps(c, n) /\ (Follows(c) => Follows(n))
    BY <1>3, <1>4, <1>6, AfterIs
  <1>8. PICK row : row = lines[l]
    OBVIOUS
  <1>9. row \in Rows
    BY <1>1, <1>4, <1>8 DEF TypeOK
  <1>10. PICK flushed : flushed = FlushLine(row, c, n)
    OBVIOUS
  <1>11. /\ flushed \in Rows /\ (row = c => flushed = n)
         /\ \A col \in Entries : flushed[col] = Column(row[col], c[col], n[col])
    BY <1>4, <1>7, <1>9, <1>10, FlushLineIs
  <1>12. /\ DOMAIN lines' = DOMAIN lines /\ lines' = [k \in DOMAIN lines |-> lines'[k]]
         /\ lines'[l] = flushed
         /\ \A k \in DOMAIN lines : k # l => lines'[k] = lines[k]
    <2>1. lines = [k \in DOMAIN lines |-> lines[k]]
      BY <1>1 DEF TypeOK
    <2>2. lines' = [lines EXCEPT ![l] = flushed]
      BY <1>3, <1>6, <1>8, <1>10
    <2> QED
      BY <1>4, <2>1, <2>2
  <1>13. TypeOK'
    <2>1. lines' \in [DOMAIN lines' -> Rows]
      <3>1. \A k \in DOMAIN lines : lines'[k] \in Rows
        BY <1>1, <1>11, <1>12 DEF TypeOK
      <3> QED
        BY <3>1, <1>12
    <2> QED
      BY <1>1, <1>3, <1>5, <1>12, <2>1 DEF TypeOK
  <1>14. CopiesHold'
    <2>1. \A t \in Sessions : t # s /\ loaded[t] # NULL /\ loaded[t].id = l => l \in raced
      BY <1>1, <1>2, <1>4 DEF CopiesHold
    <2>2. \A t \in Sessions : loaded[t] # NULL => loaded[t].id \in DOMAIN lines
      BY <1>1 DEF TypeOK
    <2> QED
      BY <1>1, <1>5, <1>12, <2>1, <2>2 DEF CopiesHold
  <1>15. MovementFollowsPrices'
    <2>1. \A k \in DOMAIN lines \ raced : Follows(lines[k])
      BY <1>1 DEF MovementFollowsPrices, Follows
    <2>2. l \notin raced => row = c
      BY <1>1, <1>2, <1>4, <1>8 DEF CopiesHold
    <2>3. \A k \in DOMAIN lines \ raced : Follows(lines'[k])
      BY <1>4, <1>7, <1>8, <1>11, <1>12, <2>1, <2>2
    <2> QED
      BY <1>5, <1>12, <2>3 DEF MovementFollowsPrices, Follows
  <1>16. Survives
    <2>1. \A col \in Entries : row[col] # NULL => flushed[col] # NULL
      BY <1>7, <1>11 DEF Keeps, Column
    <2> QED
      BY <1>8, <1>12, <2>1 DEF Survives
  <1> QED
    BY <1>1, <1>5, <1>12, <1>13, <1>14, <1>15, <1>16 DEF IInv


-----------------------------------------------------------------------------
(* Matching                                                                 *)

\* A line of a matching run is a row whose figures follow from its prices.
LEMMA LineIs ==
  ASSUME NEW old \in OrNull(Items), NEW new \in OrNull(Items), NEW st \in MatchStatuses,
         NEW movement \in OrNull(Movements)
  PROVE  /\ Line(old, new, st, movement) \in Rows /\ Follows(Line(old, new, st, movement))
         /\ Line(old, new, st, movement).old = old /\ Line(old, new, st, movement).new = new
         /\ Line(old, new, st, movement).status = st
PROOF
  <1>1. PICK unit, packs : unit = Item(new).unit
                           /\ packs = (old # NULL /\ new # NULL /\ Item(old).pack # Item(new).pack)
    OBVIOUS
  <1>2. unit \in OrNull({Item(j).unit : j \in Items}) /\ packs \in BOOLEAN
    BY <1>1, ItemIs
  <1> DEFINE n == Line(old, new, st, movement)
  <1>3. n = [old |-> old, new |-> new, unit |-> unit, status |-> st,
             packChanged |-> packs, movement |-> movement, basis |-> NULL, change |-> NULL,
             quantity |-> NULL, selling |-> NULL, impact |-> NULL, margin |-> NULL,
             decision |-> NULL, target |-> NULL, potential |-> NULL,
             outcome |-> NULL, actual |-> NULL]
    BY <1>1 DEF Line
  <1> HIDE DEF n
  <1>4. n \in Rows
    BY <1>2, <1>3 DEF Rows, OrNull
  <1>5. n.basis = NULL /\ n.old = old /\ n.new = new /\ n.status = st
    BY <1>3
  <1>6. Follows(n)
    BY <1>5, ReviewAssumption DEF Follows
  <1> QED
    BY <1>4, <1>5, <1>6 DEF n

\* The new items that no old one is matched with.
Rest(olds, news, match) == news \ {match[i].new : i \in olds}

AreMatched(olds, rest, match, added) ==
  /\ DOMAIN added = olds \cup rest
  /\ \A i \in DOMAIN added : added[i] \in Rows /\ Follows(added[i])
  /\ \A i \in rest : added[i].old = NULL /\ added[i].new = i /\ added[i].status = "new_product"
  /\ \A i \in olds : /\ added[i].old = i /\ added[i].new = match[i].new
                     /\ added[i].status # "new_product"

\* What matching makes of two lists that have no item in common.
LEMMA MatchedLinesAre ==
  ASSUME NEW olds \in SUBSET Items, NEW news \in SUBSET Items, olds \cap news = {},
         NEW match \in Matches(olds, news), NEW rest, rest = Rest(olds, news, match),
         NEW added, added = MatchedLines(olds, news, match)
  PROVE  AreMatched(olds, rest, match, added)
PROOF
  <1>1. DOMAIN added = olds \cup rest
    BY DEF MatchedLines, Rest
  <1>2. NULL \notin Items
    BY ReviewAssumption
  <1>3. ASSUME NEW i \in rest
        PROVE  /\ added[i] \in Rows /\ Follows(added[i])
               /\ added[i].old = NULL /\ added[i].new = i /\ added[i].status = "new_product"
    <2>1. added[i] = Line(NULL, i, "new_product", "new_product")
      BY DEF MatchedLines, Rest
    <2>2. NULL \in OrNull(Items) /\ i \in OrNull(Items) /\ "new_product" \in MatchStatuses
          /\ "new_product" \in OrNull(Movements)
      BY DEF Rest, OrNull, MatchStatuses, Movements
    <2> QED
      BY <2>1, <2>2, LineIs
  <1>4. ASSUME NEW i \in olds
        PROVE  /\ added[i] \in Rows /\ Follows(added[i])
               /\ added[i].old = i /\ added[i].new = match[i].new
               /\ added[i].status # "new_product"
    <2>1. PICK new, st, movement :
            /\ new = match[i].new /\ st = match[i].status
            /\ movement = (IF match[i].new = NULL THEN "discontinued" ELSE NULL)
      OBVIOUS
    <2>2. match[i] \in [new : news, status : Compared] \cup {[new |-> NULL, status |-> "discontinued"]}
      BY DEF Matches
    <2>3. new \in OrNull(Items) /\ st \in MatchStatuses /\ st # "new_product"
          /\ movement \in OrNull(Movements)
      BY <2>1, <2>2 DEF OrNull, MatchStatuses, Compared, Movements
    <2>4. i \in OrNull(Items)
      BY DEF OrNull
    <2>5. added[i] = Line(i, new, st, movement)
      BY <2>1 DEF MatchedLines, Rest
    <2> QED
      BY <2>1, <2>3, <2>4, <2>5, LineIs
  <1> QED
    BY <1>1, <1>3, <1>4 DEF AreMatched


\* The property of MatchingLosesNothing, of one step.
LosesNothing ==
  LET added == DOMAIN lines' \ DOMAIN lines
  IN  added # {} =>
        \E previous \in Uploaded("previous"), new \in Uploaded("new") :
          /\ \A o \in RowsOf[previous] :
               Cardinality({l \in added : lines'[l].old = o}) = 1
          /\ \A i \in RowsOf[new] : \E l \in added : lines'[l].new = i
          /\ \A l, k \in added :
               lines'[l].status = "new_product" /\ lines'[k].new = lines'[l].new => k = l

\* run_product_matching adds the lines of a new run, that lose no item, and leaves
\* those of the runs before it alone.
LEMMA RunMatchingKeeps ==
  ASSUME IInv, RunMatching
  PROVE  IInv' /\ Survives /\ LosesNothing
PROOF
  <1>1. TypeOK /\ DOMAIN lines \subseteq (1 .. runs) \X Items /\ CopiesHold
        /\ MovementFollowsPrices
    BY DEF IInv
  <1>0. PICK previous \in Uploaded("previous"), new \in Uploaded("new") :
           \E match \in Matches(RowsOf[previous], RowsOf[new]) :
             LET added == MatchedLines(RowsOf[previous], RowsOf[new], match)
             IN  /\ lines' = [l \in DOMAIN lines \cup {<<runs + 1, i>> : i \in DOMAIN added} |->
                               IF l \in DOMAIN lines THEN lines[l] ELSE added[l[2]]]
                 /\ status' = IF \E i \in DOMAIN added : added[i].status = "review_required"
                                THEN "review_required" ELSE "analysing"
    BY DEF RunMatching
  <1>2. PICK match, added :
          /\ match \in Matches(RowsOf[previous], RowsOf[new])
          /\ added = MatchedLines(RowsOf[previous], RowsOf[new], match)
          /\ lines' = [l \in DOMAIN lines \cup {<<runs + 1, i>> : i \in DOMAIN added} |->
                         IF l \in DOMAIN lines THEN lines[l] ELSE added[l[2]]]
          /\ status' = IF \E i \in DOMAIN added : added[i].status = "review_required"
                         THEN "review_required" ELSE "analysing"
    BY <1>0
  <1>3. runs < MaxRuns /\ runs' = runs + 1
        /\ UNCHANGED <<files, opportunities, loaded, request, edits, raced>>
    BY DEF RunMatching, session
  <1>4. PICK n : n = runs + 1
    OBVIOUS
  <1>5. runs \in Nat /\ n \in 1 .. MaxRuns /\ n \notin 1 .. runs
    BY <1>1, <1>3, <1>4, ReviewAssumption DEF TypeOK
  <1>6. PICK olds, news, rest : /\ olds = RowsOf[previous] /\ news = RowsOf[new]
                                /\ rest = Rest(olds, news, match)
    OBVIOUS
  <1>7. olds \subseteq Items /\ news \subseteq Items /\ olds \cap news = {}
    <2>1. previous \in Files /\ new \in Files /\ TypeOf[previous] # TypeOf[new]
      BY DEF Uploaded
    <2> QED
      BY <2>1, <1>6, ReviewAssumption DEF Items
  <1>8. /\ DOMAIN added = olds \cup rest
        /\ \A i \in DOMAIN added : added[i] \in Rows /\ Follows(added[i])
        /\ \A i \in rest : added[i].old = NULL /\ added[i].new = i
                           /\ added[i].status = "new_product"
        /\ \A i \in olds : added[i].old = i /\ added[i].new = match[i].new
                           /\ added[i].status # "new_product"
    <2>1. olds \in SUBSET Items /\ news \in SUBSET Items /\ match \in Matches(olds, news)
          /\ added = MatchedLines(olds, news, match)
      BY <1>2, <1>6, <1>7
    <2>2. rest = Rest(olds, news, match) /\ olds \cap news = {}
      BY <1>6, <1>7
    <2>3. AreMatched(olds, rest, match, added)
      BY <2>1, <2>2, MatchedLinesAre
    <2> QED
      BY <2>3 DEF AreMatched
  <1>9. rest = news \ {match[i].new : i \in olds} /\ rest \subseteq news
    BY <1>6 DEF Rest
  <1> DEFINE Id(i) == <<n, i>>
             keys  == {Id(i) : i \in DOMAIN added}
  <1>10. /\ \A i : Id(i)[1] = n /\ Id(i)[2] = i
         /\ \A i \in Items : Id(i) \in (1 .. MaxRuns) \X Items /\ Id(i) \in (1 .. n) \X Items
         /\ \A i : Id(i) \notin (1 .. runs) \X Items
    BY <1>5
  <1>11. lines' = [l \in DOMAIN lines \cup keys |->
                     IF l \in DOMAIN lines THEN lines[l] ELSE added[l[2]]]
    BY <1>2, <1>4
  <1> HIDE DEF Id
  <1>12. /\ DOMAIN lines' = DOMAIN lines \cup keys
         /\ lines' = [l \in DOMAIN lines' |-> lines'[l]]
         /\ \A l \in DOMAIN lines : lines'[l] = lines[l]
         /\ \A i \in DOMAIN added : Id(i) \notin DOMAIN lines /\ lines'[Id(i)] = added[i]
    BY <1>1, <1>10, <1>11
  <1>13. \A l \in DOMAIN lines' :
           l \in DOMAIN lines \/ \E i \in DOMAIN added : l = Id(i)
    BY <1>12
  <1>14. TypeOK'
    <2>1. \A l \in DOMAIN lines' : lines'[l] \in Rows
      BY <1>1, <1>8, <1>12, <1>13 DEF TypeOK
    <2>2. lines' \in [DOMAIN lines' -> Rows]
      BY <1>12, <2>1
    <2>3. DOMAIN lines' \subseteq (1 .. MaxRuns) \X Items
      BY <1>1, <1>7, <1>8, <1>9, <1>10, <1>13 DEF TypeOK
    <2>4. DOMAIN lines \subseteq DOMAIN lines'
      BY <1>12
    <2>5. status' \in {"draft", "review_required", "analysing"} /\ runs' \in 0 .. MaxRuns
      BY <1>2, <1>3, <1>4, <1>5
    <2>6. opportunities' \subseteq (DOMAIN lines') \X OrNull(Int) /\ raced' \subseteq DOMAIN lines'
      BY <1>1, <1>3, <2>4 DEF TypeOK
    <2>7. \A s \in Sessions : /\ loaded'[s] = NULL <=> request'[s] = NULL
                              /\ loaded'[s] # NULL => loaded'[s].id \in DOMAIN lines'
      BY <1>1, <1>3, <2>4 DEF TypeOK
    <2> QED
      BY <1>1, <1>3, <2>2, <2>3, <2>5, <2>6, <2>7 DEF TypeOK
  <1>15. DOMAIN lines' \subseteq (1 .. runs') \X Items
    <2>1. \A l \in (1 .. runs) \X Items : l \in (1 .. n) \X Items
      BY <1>4, <1>5
    <2> QED
      BY <1>1, <1>3, <1>4, <1>7, <1>8, <1>9, <1>10, <1>13, <2>1
  <1>16. CopiesHold'
    <2>1. \A s \in Sessions : loaded[s] # NULL => loaded[s].id \in DOMAIN lines
      BY <1>1 DEF TypeOK
    <2> QED
      BY <1>1, <1>3, <1>12, <2>1 DEF CopiesHold
  <1>17. MovementFollowsPrices'
    <2>1. \A k \in DOMAIN lines \ raced : Follows(lines[k])
      BY <1>1 DEF MovementFollowsPrices, Follows
    <2>2. \A k \in DOMAIN lines' \ raced : Follows(lines'[k])
      BY <1>8, <1>12, <1>13, <2>1
    <2> QED
      BY <1>3, <2>2 DEF MovementFollowsPrices, Follows
  <1>18. Survives
    BY <1>12 DEF Survives
  <1>19. LosesNothing
    <2> DEFINE fresh == DOMAIN lines' \ DOMAIN lines
    <2>1. /\ \A l \in fresh : \E i \in DOMAIN added : l = Id(i)
          /\ \A i \in DOMAIN added : Id(i) \in fresh /\ lines'[Id(i)] = added[i]
      BY <1>12, <1>13
    <2> HIDE DEF fresh
    <2>2. NULL \notin Items
      BY ReviewAssumption
    <2>3. \A o \in olds : Cardinality({l \in fresh : lines'[l].old = o}) = 1
      <3> SUFFICES ASSUME NEW o \in olds
                   PROVE  Cardinality({l \in fresh : lines'[l].old = o}) = 1
        OBVIOUS
      <3>1. {l \in fresh : lines'[l].old = o} = {Id(o)}
        BY <1>7, <1>8, <2>1, <2>2
      <3>2. Cardinality({Id(o)}) = 1
        BY FS_Singleton
      <3> QED
        BY <3>1, <3>2, Zenon
    <2>4. \A i \in news : \E l \in fresh : lines'[l].new = i
      <3> SUFFICES ASSUME NEW i \in news PROVE \E l \in fresh : lines'[l].new = i
        OBVIOUS
      <3>1. CASE i \in rest
        BY <3>1, <1>8, <2>1
      <3>2. CASE i \notin rest
        <4>1. PICK o \in olds : i = match[o].new
          BY <3>2, <1>9
        <4> QED
          BY <4>1, <1>8, <2>1
      <3> QED
        BY <3>1, <3>2
    <2>5. \A l, k \in fresh :
            lines'[l].status = "new_product" /\ lines'[k].new = lines'[l].new => k = l
      <3> SUFFICES ASSUME NEW l \in fresh, NEW k \in fresh, lines'[l].status = "new_product",
                          lines'[k].new = lines'[l].new
                   PROVE  k = l
        OBVIOUS
      <3>1. PICK i \in DOMAIN added, j \in DOMAIN added : l = Id(i) /\ k = Id(j)
        BY <2>1
      <3>2. i \in rest
        BY <3>1, <1>8, <2>1
      <3>3. j \in rest
        BY <3>1, <3>2, <1>8, <1>9, <2>1
      <3> QED
        BY <3>1, <3>2, <3>3, <1>8, <2>1
    <2> QED
      BY <1>6, <2>3, <2>4, <2>5 DEF LosesNothing, fresh
  <1> QED
    BY <1>14, <1>15, <1>16, <1>17, <1>18, <1>19 DEF IInv


-----------------------------------------------------------------------------
(* The theorems                                                             *)

\* A review without files, without lines and without requests.
LEMMA InitInvariant == Init => IInv
PROOF
  <1> SUFFICES ASSUME Init PROVE IInv
    OBVIOUS
  <1>1. DOMAIN lines = {} /\ lines = [l \in {} |-> lines[l]]
    BY DEF Init
  <1>2. TypeOK
    BY <1>1, ReviewAssumption DEF Init, TypeOK, OrNull
  <1> QED
    BY <1>1, <1>2 DEF Init, IInv, CopiesHold, MovementFollowsPrices

\* Every step keeps the invariant, takes nothing back and loses no row of a price list.
LEMMA StepInvariant ==
  IInv /\ [Next]_vars => IInv' /\ (lines' = lines \/ (Survives /\ LosesNothing))
PROOF
  <1> SUFFICES ASSUME IInv, [Next]_vars
               PROVE  IInv' /\ (lines' = lines \/ (Survives /\ LosesNothing))
    OBVIOUS
  <1>1. CASE UNCHANGED vars
    <2>1. UNCHANGED <<status, lines, opportunities, session, history, files>>
      BY <1>1 DEF vars, tables
    <2>2. files' \in [Files -> {NULL, "uploaded", "validated"}]
      BY <2>1 DEF IInv, TypeOK
    <2> QED
      BY <2>1, <2>2, FilesKeep
  <1>2. ASSUME NEW f \in Files, Upload(f) \/ ConfirmMapping(f)
        PROVE  IInv' /\ lines' = lines
    <2>1. UNCHANGED <<status, lines, opportunities, session, history>>
          /\ files' \in [Files -> {NULL, "uploaded", "validated"}]
      BY <1>2 DEF Upload, ConfirmMapping, IInv, TypeOK
    <2> QED
      BY <2>1, FilesKeep
  <1>3. CASE RunMatching
    BY <1>3, RunMatchingKeeps
  <1>4. ASSUME NEW s \in Sessions, NEW l \in DOMAIN lines, LoadLine(s, l)
        PROVE  IInv' /\ lines' = lines
    BY <1>4, LoadLineKeeps DEF LoadLine, tables
  <1>5. ASSUME NEW s \in Sessions, Save(s)
        PROVE  IInv' /\ Survives /\ LosesNothing
    BY <1>5, SaveKeeps DEF LosesNothing
  <1>6. ASSUME NEW s \in Sessions, SaveRaises(s) \/ Crash(s)
        PROVE  IInv' /\ lines' = lines
    <2>1. EndRequest(s) /\ UNCHANGED <<lines, opportunities>>
      BY <1>6 DEF SaveRaises, Crash
    <2>2. opportunities' \subseteq (DOMAIN lines) \X OrNull(Int)
      BY <2>1 DEF IInv, TypeOK
    <2> QED
      BY <2>1, <2>2, EndKeeps
  <1>7. ASSUME NEW s \in Sessions, SaveOpportunity(s)
        PROVE  IInv' /\ lines' = lines
    <2>1. PICK l, impact : l = loaded[s].id /\ impact = loaded[s].row.impact
      OBVIOUS
    <2>2. EndRequest(s) /\ UNCHANGED lines /\ request[s] # NULL
          /\ opportunities' \subseteq opportunities \cup {<<l, impact>>}
      BY <1>7, <2>1 DEF SaveOpportunity
    <2>3. l \in DOMAIN lines /\ impact \in OrNull(Int)
      <3>1. loaded[s] \in Copies /\ loaded[s].id \in DOMAIN lines
        BY <2>2 DEF IInv, TypeOK, OrNull
      <3> QED
        BY <2>1, <3>1 DEF Copies, Rows
    <2>4. opportunities' \subseteq (DOMAIN lines) \X OrNull(Int)
      BY <2>2, <2>3 DEF IInv, TypeOK
    <2> QED
      BY <2>2, <2>4, EndKeeps
  <1> QED
    BY <1>1, <1>2, <1>3, <1>4, <1>5, <1>6, <1>7, RunMatchingKeeps DEF Next

\* The invariant of the lines and of the copies of them.
LEMMA Invariant == Spec => []IInv
PROOF
  <1>1. IInv /\ [Next]_vars => IInv'
    BY StepInvariant
  <1> QED
    BY <1>1, InitInvariant, PTL DEF Spec

\* Whatever is uploaded, matched and entered, and whoever races, a line has the columns of
\* its type (run_product_matching and the handlers of a line).
THEOREM TypeCorrect == Spec => []TypeOK
PROOF
  <1>1. IInv => TypeOK
    BY DEF IInv
  <1> QED
    BY <1>1, Invariant, PTL

\* The movement and the impact of a line on which no two requests overlapped are those of
\* the prices it shows (calculate_line_movement, after resolve_match and
\* set_manual_quantity).
THEOREM MovementsFollow == Spec => []MovementFollowsPrices
PROOF
  <1>1. IInv => MovementFollowsPrices
    BY DEF IInv
  <1> QED
    BY <1>1, Invariant, PTL

\* What a buyer entered is never taken back by a request that read the line before (the
\* column-wise flush).
THEOREM EntriesStay == Spec => EntriesSurvive
PROOF
  <1>1. IInv /\ [Next]_vars =>
          [\A l \in DOMAIN lines, col \in {"quantity", "selling", "decision", "target", "outcome"} :
             lines[l][col] # NULL => lines'[l][col] # NULL]_lines
    BY StepInvariant DEF Survives, Entries
  <1> QED
    BY <1>1, Invariant, PTL DEF Spec, EntriesSurvive

\* Matching gives every row of both lists its line, whatever it finds (run_matching).
THEOREM MatchingIsTotal == Spec => MatchingLosesNothing
PROOF
  <1>1. IInv /\ [Next]_vars => [LosesNothing]_lines
    BY StepInvariant
  <1>2. [LosesNothing]_lines <=>
          [LET added == DOMAIN lines' \ DOMAIN lines
           IN  added # {} =>
                 \E previous \in Uploaded("previous"), new \in Uploaded("new") :
                   /\ \A o \in RowsOf[previous] :
                        Cardinality({l \in added : lines'[l].old = o}) = 1
                   /\ \A i \in RowsOf[new] : \E l \in added : lines'[l].new = i
                   /\ \A l, k \in added :
                        lines'[l].status = "new_product" /\ lines'[k].new = lines'[l].new
                          => k = l]_lines
    BY DEF LosesNothing
  <1> QED
    BY <1>1, <1>2, Invariant, PTL DEF Spec, MatchingLosesNothing


===============================================================================
