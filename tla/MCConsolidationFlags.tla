-------------------------- MODULE MCConsolidationFlags --------------------------
(***************************************************************************)
(* A supplier with an item under two codes, a supplier whose first invoice   *)
(* hides its transactions, and a third one that begins to deliver.          *)
(***************************************************************************)
EXTENDS ConsolidationFlags, TLC

CONSTANTS sA, sB, sC

Item(sku, text) == [sku |-> sku, barcode |-> NULL, text |-> text]

Cola == <<"cola", "zero", "can">>
ColaTurned == <<"can", "of", "cola", "zero">>
Cheddar == <<"cheddar", "mild">>

\* Letter by letter, turning the words of a description costs it two fifths, and three if
\* it is the other one that was turned.
MCLetterScore(a, b) == IF a = b THEN 100 ELSE IF b = Cola THEN 60 ELSE 40

MCEndsWith(w, v) == w = v
MCStartsWith(w, v) == w = v

MCItemsOf ==
  [s \in Suppliers |->
     IF s = sA THEN {Item("a1", Cola), Item("a2", ColaTurned)}
     ELSE IF s = sB THEN {Item("b1", Cola)}
     ELSE {}]

MCPurchases ==
  {[supplier |-> sB, item |-> Item("b2", Cheddar), source |-> "lines"],
   [supplier |-> sC, item |-> Item(NULL, Cola), source |-> "transactions"]}

RequestSymmetry == Permutations(Requests)

=============================================================================
