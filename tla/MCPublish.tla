----------------------------- MODULE MCPublish -----------------------------
(* Small instances of Publish. *)
EXTENDS Publish, TLC

CONSTANTS p1, p2, k1, k2, c1, c2

TwoProcs == {p1, p2}
OnePackage == {k1}
TwoPackages == {k1, k2}
Both == {TRUE, FALSE}
GitOnly == {TRUE}
TwoVersions == {1, 2}
TwoContents == {c1, c2}
Symmetry == Permutations(TwoProcs) \cup Permutations(TwoContents)
FullSymmetry == Symmetry \cup Permutations(TwoPackages)
=============================================================================
