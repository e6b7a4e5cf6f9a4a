CONSTANTS
    p1 = p1
    p2 = p2
    k1 = k1
    k2 = k2
    c1 = c1
    c2 = c2
    NoFile = NoFile
    Partial = Partial
    Bad = Bad
    Proc <- TwoProcs
    Package <- OnePackage
    Version <- TwoVersions
    Content <- TwoContents
    Tracked <- GitOnly
    Edits = TRUE
    MaxMatches = 1
    MaxStarted = 3
SPECIFICATION Spec
SYMMETRY Symmetry
INVARIANTS IndexedStored CommittedStored
