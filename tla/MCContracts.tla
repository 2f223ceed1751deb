------------------------------ MODULE MCContracts ------------------------------
(***************************************************************************)
(* One contract whose notice deadline is the day on which its expiry is     *)
(* soon, or comes before it and renews the contract.                       *)
(***************************************************************************)
EXTENDS Contracts, TLC

CONSTANTS x1, x2, title, payment, other

MCOffered ==
  {[expiry |-> 3, notice |-> 1, autoRenew |-> FALSE],
   [expiry |-> 3, notice |-> 2, autoRenew |-> TRUE]}

MCFieldsOf == x1 :> {title, payment} @@ x2 :> {payment}

MCSelections == {{title}, {title, payment}, {title, other}}

RequestSymmetry == Permutations(Requests)

=============================================================================
