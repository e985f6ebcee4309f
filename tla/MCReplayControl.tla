-------------------------- MODULE MCReplayControl --------------------------
(* TLC instance of ReplayControl: what its constants may be exchanged for. *)
EXTENDS ReplayControl, TLC

Alike == Permutations(Keys) \cup Permutations(Runs) \cup Permutations(Workers)
=============================================================================
