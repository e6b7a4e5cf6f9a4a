CONSTANTS
    p1 = p1
    p2 = p2
    c1 = c1
    c2 = c2
    Req <- TwoClients
    Content <- TwoContents
    NoFile = NoFile
    Partial = Partial
    NoReq = NoReq
    MissingTime = 1
    MaxUploads = 2
    MaxFaults = 2
SYMMETRY Symmetry
SPECIFICATION Spec
INVARIANTS CacheAccounted PutStored StoreMatches
PROPERTIES StoredForGood
