------------------------- MODULE MCDemotingScheduler -------------------------
(* Small instances of DemotingScheduler for TLC. *)
EXTENDS DemotingScheduler, TLC

AssetSymmetry == Permutations(Assets)

=============================================================================
