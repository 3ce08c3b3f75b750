CONSTANTS
    Locators = {L1, L2}
    Admin = Admin
    DebugMode = FALSE
    HandStarts = TRUE
    MaxExecs = 2
    MaxAdds = 2
SPECIFICATION Spec
CHECK_DEADLOCK FALSE
SYMMETRY Symmetry
INVARIANT Supervised
