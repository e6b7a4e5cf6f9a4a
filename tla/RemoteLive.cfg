CONSTANTS
    p1 = p1
    p2 = p2
    c1 = c1
    c2 = c2
    Req <- OneClient
    Content <- TwoContents
    NoFile = NoFile
    Partial = Partial
    NoReq = NoReq
    MissingTime = 2
    MaxUploads = 2
    MaxFaults = 2
SPECIFICATION FairSpec
INVARIANTS ServedWhole
PROPERTIES EventuallyCached AllAnswered
