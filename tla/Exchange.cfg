CONSTANTS
    Samples <- AllSamples
    Documents <- AllDocuments
    Converted <- TheConverted
    Instant <- Instants
CHECK_DEADLOCK FALSE
SPECIFICATION Spec
INVARIANTS Preserved Described Complete Tolerant Fitting
