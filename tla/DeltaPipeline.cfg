CONSTANTS
    f1 = f1
    f2 = f2
    Files <- TwoFiles
    Recorders = {r1}
    MaxVersion <- TwoChangesOfOne
    Near <- StepsAreNear
    UseSnapshot = TRUE
    None = None
SPECIFICATION Spec
INVARIANTS
    TypeOK
    
    DeltaScanAppliesItsDelta
    DeltasInTurnLoseNothing
