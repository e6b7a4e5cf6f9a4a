CONSTANTS
    Offered <- TheOffered
    Argument <- TheArguments
    BasePath <- TheBases
    Percent <- ThePercent
SPECIFICATION ServiceSpec
INVARIANT Reached
CHECK_DEADLOCK FALSE
