CONSTANTS
    Files = {f1}
    BatchSize = 1
    MaxVersion = 2
    MaxId = 2
    UseSnapshot = FALSE
    NoSnapshot = NoSnapshot
    NoIndex = NoIndex
    Corrupt = Corrupt
SPECIFICATION Spec
INVARIANTS
    RestartHealsIndex
