--------------------------- MODULE MCRemoteObjects ---------------------------
(* Small instances of RemoteObjects. *)
EXTENDS RemoteObjects, TLC

CONSTANTS p1, p2, c1, c2

OneClient == {p1}
TwoClients == {p1, p2}
OneContent == {c1}
TwoContents == {c1, c2}
Symmetry == Permutations(TwoClients) \cup Permutations(TwoContents)
=============================================================================
