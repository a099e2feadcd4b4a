------------------------- MODULE MCRuntimeCluster -------------------------
(* Instances of the session runtime for TLC. *)
EXTENDS RuntimeCluster, TLC

\* Nothing in the code orders owner ids or run ids.
RuntimeSymmetry == Permutations(Owners) \cup Permutations(Runs)
=============================================================================
