CONSTANTS
    File = {f1, f2}
    Name <- MCName
    Content = {a, b}
    MaxTime = 2
    MaxEntries = 3
    MaxMishaps = 2
SYMMETRY Symmetry
SPECIFICATION Spec
INVARIANTS
    TypeOK
    Recoverable
    OverwritesAreCovered
PROPERTIES
    RestoresLatest
