---------------------------- MODULE MCPublishGate ----------------------------
(* Small instances of PublishGate. *)
EXTENDS PublishGate

OnePackage == {"a"}
TwoVersions == {1, 2}
ThreeVersions == {1, 2, 3}
OnePrerelease == {2}
TwoSources == {"plain", "featured"}
ThreeSources == {"plain", "featured", "bad"}
OneFeatured == {"featured"}
OneBad == {"bad"}
None == {}
\* A change of source in a new version is a violation.
AnyChange(v, s, w, t) == v # w /\ s # t
=============================================================================
