CONSTANTS
    Source = {s1, s2}
    Required = {ra, rb}
    Package = {a, b}
    NoPackage = NoPackage
    Broken = Broken
    MaxRoots = 2
    MaxUses = 2
SPECIFICATION Spec
INVARIANTS Closed OpenedOnce NothingSilent RefusedForCause
