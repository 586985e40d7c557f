----------------------------- MODULE MCReleaseChain -----------------------------
(***************************************************************************)
(* ReleaseChain with sources that differ in code (1, 2), in documentation  *)
(* that is not bound (1, 3), and in the benchmark inputs (4).              *)
(***************************************************************************)
EXTENDS ReleaseChain, TLC

CONSTANTS synthetic, real

MCFingerprint == [s \in Sources |-> IF s = 3 THEN 1 ELSE s]
MCCorpus == [s \in Sources |-> IF s = 4 THEN 1 ELSE 0]

\* Histories start from the first source and toolchain.
MCInit == Init /\ source = 1 /\ tools = 1
MCSpec == MCInit /\ [][Next]_vars

Symmetry == Permutations(Benchmarks)
=============================================================================
