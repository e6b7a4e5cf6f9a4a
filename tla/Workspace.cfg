CONSTANTS
    Package <- TwoPackages
    Version <- OneVersion
    Root <- TwoPaths
    Location <- ThreeLocations
    Text <- ThreeTexts

    Uses <- TheUses
    Broken <- OneBroken
    Manifest <- Manifests
    Initial <- New
    ExampleAt <- AtA
    Example = "usesBoth"
    None = None
    Repositories <- NoneOrOne
    TextsAt <- TheTexts
    MaxOpen = 2
    MaxOthers = 1
    MaxQuestions = 2
SPECIFICATION Spec
INVARIANTS AsYouType Complete ReadOnlyKept
PROPERTIES AnswersOverwriteNothing
CHECK_DEADLOCK FALSE
