CONSTANTS
    MaxNumber = 9
    RangeTexts <- TheRangeTexts
    VersionTexts <- TheVersionTexts
    Loaded <- TheLoaded
    Keyword <- TheKeyword
    VWord <- TheVWord
    Declared <- TheDeclared
    Documents <- TheDocuments
    AnyKey <- TheAnyKey
    Project <- Projects
    ParentOf <- Directories
    MaxEdits = 4
    MaxStarts = 2
    User = {u1, u2}
    Release = {r1, r2}
    NoTree = NoTree
    MaxRuns = 3
    MaxBroken = 1
    Updater = {1, 2}
    Published <- ThePublished
    Installed <- TheInstalled
    NoVersion <- NoneSuch
    MaxUpdates = 3
    MaxCrashes = 1
    Version <- TheVersions
    Schema <- TheSchemas
    MaxReleases = 3
    Offered <- TheOffered
    Argument <- TheArguments
    BasePath <- TheBases
    Percent <- ThePercent
    Layouts <- TheLayouts
    FreshType <- TheFreshTypes
    FreshPrefix <- TheFreshPrefixes
    Underscored = {"k_"}
    MaxRenames = 1
SPECIFICATION Spec
INVARIANTS Selects Distinct Resolved Swept Noticed Updated Linked UpgradesWork FixesMatch Called Navigates
SYMMETRY Interchangeable
CHECK_DEADLOCK FALSE
