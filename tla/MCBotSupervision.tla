--------------------------- MODULE MCBotSupervision ---------------------------
(* Small instances of BotSupervision for TLC. *)
EXTENDS BotSupervision, TLC

ProcessSymmetry == Permutations(Supervisors) \cup Permutations(Workers)

=============================================================================
