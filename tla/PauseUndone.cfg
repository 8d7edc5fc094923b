CONSTANTS
    Callers = {c1, c2, c3}
    Threads = {t1, t2}
SPECIFICATION Spec
SYMMETRY ThreadSymmetry
INVARIANTS
    PauseIsNotUndone
