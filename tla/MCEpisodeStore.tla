--------------------------- MODULE MCEpisodeStore ---------------------------
(* A small instance of EpisodeStore for TLC: one token. *)
EXTENDS EpisodeStore

OneToken == [k \in Keys |-> "token"]

=============================================================================
