------------------------ MODULE MCFinalizerMultiplexer ------------------------
(* Small instances of FinalizerMultiplexer for TLC. *)
EXTENDS FinalizerMultiplexer, TLC

AuditSymmetry == Permutations(Audits)

=============================================================================
