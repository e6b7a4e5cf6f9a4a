CONSTANTS
    Samples <- NoSamples
    Documents <- DocumentedDocuments
    Converted <- TheConverted
    Instant <- Instants
CHECK_DEADLOCK FALSE
SPECIFICATION Spec
INVARIANTS Derivable
