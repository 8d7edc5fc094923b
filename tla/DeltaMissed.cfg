CONSTANTS
    f1 = f1
    f2 = f2
    Files <- OneFile
    Recorders = {r1, r2}
    MaxVersion <- TwoChanges
    Near <- NoneIsNear
    UseSnapshot = TRUE
    None = None
SPECIFICATION Spec
SYMMETRY RecorderSymmetry
INVARIANTS
    DeltaShowsAllChanges
