CONSTANTS
    Files = {f1, f2}
    BatchSize = 1
    MaxVersion = 1
    MaxId = 2
    UseSnapshot = TRUE
    NoSnapshot = NoSnapshot
    NoIndex = NoIndex
    Corrupt = Corrupt
SPECIFICATION FairSpec
PROPERTIES
    ScanEnds
    PauseTakesEffect
