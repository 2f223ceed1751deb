----------------------------- MODULE EvidenceLog -----------------------------
(***************************************************************************)
(* What P-03 promises of every money figure, whoever writes it: a figure   *)
(* changes only by an entry appended to its history, which is never        *)
(* rewritten, and it loses evidence quality only for a corrective reason.  *)
(* OpportunityWaterfall and RebatePeriods implement this specification.    *)
(***************************************************************************)
EXTENDS FinancialEvents, Sequences

CONSTANT Keys          \* one per figure: a parent row and a measure

VARIABLES
  history,             \* the entries of each figure, oldest first
  current              \* the figure that readers see, NULL before the first

logVars == <<history, current>>

Entry(figure, reason) == [figure |-> figure, reason |-> reason]

Init ==
  /\ DOMAIN history = Keys
  /\ \A k \in Keys : Len(history[k]) <= 1
  /\ current = [k \in Keys |-> IF history[k] = <<>> THEN NULL
                                                    ELSE history[k][1].figure]

\* The figure of k gets one more entry, which is what readers see from then on.
Extended(k) ==
  \E reason \in Reasons :
    /\ history'[k] = Append(history[k], Entry(current'[k], reason))
    /\ current[k] # NULL => LegalChange(current[k].status, current'[k].status, reason)

Kept(k) == history'[k] = history[k] /\ current'[k] = current[k]

\* One transaction: all its entries or none.
Record ==
  /\ DOMAIN history' = Keys /\ DOMAIN current' = Keys
  /\ \A k \in Keys : Extended(k) \/ Kept(k)

Spec == Init /\ [][Record]_logVars

=============================================================================
