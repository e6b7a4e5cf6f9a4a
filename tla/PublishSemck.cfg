CONSTANTS
    Package <- OnePackage
    Version <- TwoVersions
    Source <- TwoSources
    Prerelease <- None
    Featured <- None
    Unloadable <- None
    NoVersion = NoVersion
    Violates <- AnyChange
    MaxMatches = 2
    MaxOthers = 0
SPECIFICATION Spec
INVARIANTS SemckEnforced
