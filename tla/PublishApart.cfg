CONSTANTS
    p1 = p1
    p2 = p2
    k1 = k1
    k2 = k2
    c1 = c1
    c2 = c2
    NoFile = NoFile
    Partial = Partial
    Bad = Bad
    Proc <- TwoProcs
    Package <- TwoPackages
    Version <- TwoVersions
    Content <- TwoContents
    Tracked <- Both
    Edits = FALSE
    MaxMatches = 2
    MaxStarted = 3
SPECIFICATION ApartSpec
SYMMETRY FullSymmetry
INVARIANTS Ordered Intact AckedHeld
PROPERTIES OnlyForceReplaces RegistrySpec
