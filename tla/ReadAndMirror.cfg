CONSTANTS
    Paths = {p1, p2, p3}
    MaxId = 3
    MaxTime = 1
    Threads = {r1, r2}
    Sides = {s1}
    Cap = 1
    Limit = 1
    K = 1
    Slack = 1
    f1 = f1
    f2 = f2
    t1 = t1
    Files <- TwoFiles
    Frames = {f1}
    Sizes = {0, 1}
    Targets = {t1}
    Presets <- ThreePresets
    Processes = 2
    MaxAge = 1
    None = None
SPECIFICATION EitherSpec
SYMMETRY ReadSymmetry
INVARIANTS
    ThumbShowsItsImage
    PruningRestoresTheCap
    WalkShowsSteadyRows
    SearchFillsItsAnswer
    MirrorKeepsUp
