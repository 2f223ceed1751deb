----------------------- MODULE MCOpportunityWaterfall -----------------------
(* Model values and symmetry for the runs of OpportunityWaterfall. *)
EXTENDS OpportunityWaterfall, TLC

SessionSymmetry == Permutations(Sessions)

=============================================================================
