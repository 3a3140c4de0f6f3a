------------------------ MODULE MCRolloutCompression ------------------------
(***************************************************************************)
(* RolloutCompression for TLC: those who open the rollout are alike.       *)
(***************************************************************************)
EXTENDS RolloutCompression, TLC

Symmetry == Permutations(Procs)
=============================================================================
