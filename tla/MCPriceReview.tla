---------------------------- MODULE MCPriceReview ----------------------------
(***************************************************************************)
(* Price lists with every basis of comparison: a and x have one unit, y has  *)
(* another one, and the packs of b and z cannot be parsed.                  *)
(***************************************************************************)
EXTENDS PriceReview, TLC

CONSTANTS oldList, newList, a, b, x, y, z

MCTypeOf == oldList :> "previous" @@ newList :> "new"

MCCatalog ==
  a :> [price |-> 20, norm |-> 10, unit |-> "kg", pack |-> "2kg"]
    @@ b :> [price |-> 8, norm |-> NULL, unit |-> NULL, pack |-> "tray"]
    @@ x :> [price |-> 24, norm |-> 12, unit |-> "kg", pack |-> "2kg"]
    @@ y :> [price |-> 27, norm |-> 9, unit |-> "L", pack |-> "3L"]
    @@ z :> [price |-> 22, norm |-> NULL, unit |-> NULL, pack |-> "box"]

\* Two old items that compete for two new ones; one with the choice of two units.
MCTwoRows == oldList :> {a, b} @@ newList :> {x, z}
MCOneRow  == oldList :> {a} @@ newList :> {x, y}

SessionSymmetry == Permutations(Sessions)

=============================================================================
