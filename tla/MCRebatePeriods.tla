--------------------------- MODULE MCRebatePeriods ---------------------------
(***************************************************************************)
(* Two adjacent periods of one supplier: days 1 to 2, under a tiered        *)
(* agreement whose threshold lies between two amounts, and days 3 to 4,    *)
(* under a flat one.                                                       *)
(***************************************************************************)
EXTENDS RebatePeriods, TLC

CONSTANTS p1, p2,      \* periods
          i1, i2, t1, t2  \* documents

MCStartOf == p1 :> 1 @@ p2 :> 3
MCEndOf   == p1 :> 2 @@ p2 :> 4

MCTerms ==
  p1 :> [type |-> "tiered", rate |-> 0, fixed |-> 0,
         bands |-> <<[threshold |-> 19, rate |-> 2000], [threshold |-> 0, rate |-> 1000]>>]
  @@ p2 :> [type |-> "fixed_percentage", rate |-> 5000, bands |-> <<>>, fixed |-> 0]

MCKindOf == [d \in Docs |-> IF d \in {i1, i2} THEN "invoice" ELSE "transaction"]

\* An invoice in each period and two batches over both.
MCRowsOf ==
  i1 :> <<<<2, 20>>>> @@ i2 :> <<<<3, 30>>>>
    @@ t1 :> <<<<1, 10>>, <<4, 40>>>> @@ t2 :> <<<<3, 60>>, <<2, 80>>>>

SessionSymmetry == Permutations(Sessions)

=============================================================================
