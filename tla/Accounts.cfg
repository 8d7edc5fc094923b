CONSTANTS
    Users = {u1, u2}
    NoUser = NoUser
    MaxTokens = 2
    MaxAttempts = 2
    MaxPassword = 1
    OpenAdmin = FALSE
SPECIFICATION Spec
SYMMETRY UserSymmetry
INVARIANTS
    TypeOK
    SessionsFollowPassword
    SessionsHaveActiveOwners
    LockoutBoundsGuesses
PROPERTIES
    AdminRemains
    SessionsStayEnded
