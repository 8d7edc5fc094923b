CONSTANTS
    Files = {f1, f2}
    BatchSize = 2
    MaxVersion = 1
    MaxId = 2
    UseSnapshot = FALSE
    NoSnapshot = NoSnapshot
    NoIndex = NoIndex
    Corrupt = Corrupt
SPECIFICATION Spec
SYMMETRY FileSymmetry
INVARIANTS
    PausedWorkSurvivesRestart
