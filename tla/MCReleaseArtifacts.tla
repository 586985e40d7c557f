------------------------- MODULE MCReleaseArtifacts -------------------------
(***************************************************************************)
(* Two versions, two sources; what a package contains is one of two.       *)
(***************************************************************************)
EXTENDS ReleaseArtifacts, TLC

Symmetry == Permutations(Versions) \cup Permutations(Sources) \cup Permutations(Builds)
=============================================================================
