-------------------------- MODULE MCCorrectionLedger --------------------------
(***************************************************************************)
(* Two days of working capital and one report in each of the other ledgers. *)
(***************************************************************************)
EXTENDS CorrectionLedger, TLC

CONSTANTS wc1, wc2, age, inv, fx, route, a, b

MCLedgerOf ==
  wc1 :> "working_capital" @@ wc2 :> "working_capital" @@ age :> "aging"
    @@ inv :> "inventory" @@ fx :> "fx" @@ route :> "route"

MCDayOf == [g \in Grains |-> IF g = wc2 THEN 2 ELSE 1]

MCBatches == {<<a>>, <<b, a>>}

RequestSymmetry == Permutations(Requests)

=============================================================================
