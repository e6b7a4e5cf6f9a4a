CONSTANTS
    Package <- OnePackage
    Version <- TwoVersions
    Source <- ThreeSources
    Prerelease <- OnePrerelease
    Featured <- OneFeatured
    Unloadable <- OneBad
    NoVersion = NoVersion
    Violates <- AnyChange
    MaxMatches = 2
    MaxOthers = 1
SPECIFICATION Spec
INVARIANTS Careful OkPublishes
