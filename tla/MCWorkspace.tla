----------------------------- MODULE MCWorkspace -----------------------------
(* Small instances of Workspace: a package "a" that may use "b". *)
EXTENDS Workspace

TwoPackages == {"a", "b"}
OneVersion == {1}
TwoPaths == {1, 2}
At(r, p, v) == [root |-> r, package |-> p, version |-> v]
ThreeLocations == {At(1, "a", 0), At(1, "b", 0), At(2, "b", 0)}
Use(p, range) == [package |-> p, range |-> range]
ThreeTexts == {"plain", "broken", "usesBoth"}
\* Any "b", and a "b" of version 1.
TheUses(t) == IF t = "usesBoth" THEN <<Use("b", {0, 1}), Use("b", {1})>> ELSE <<>>
TheTexts(l) ==
    IF l.package = "a" THEN {"usesBoth"}
    ELSE IF l.root = 1 THEN {"plain"} ELSE {"plain", "broken"}
NoneOrOne == {<<>>, [o \in {[package |-> "b", version |-> 1]} |-> "plain"]}
OneBroken == {"broken"}
Manifested(auto, wanted, listed, b) ==
    [auto |-> auto, packages |-> wanted, files |-> listed,
     published |-> [p \in TwoPackages |-> IF p = "b" THEN b ELSE 0]]
\* All build paths, "b" published as 1, and a patched "b" at that version.
Auto == Manifested(TRUE, <<>>, <<[package |-> "b", version |-> 1, at |-> At(1, "b", 0)]>>, 1)
\* What initialize() writes: the example, from the build path.
New == Manifested(FALSE, <<Use("a", {0, 1})>>, <<>>, 0)
Manifests == {None, Auto, New}
AtA == At(1, "a", 0)
=============================================================================
