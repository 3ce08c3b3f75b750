CONSTANTS
    Locators = {L1}
    Admin = Admin
    DebugMode = TRUE
    HandStarts = FALSE
    MaxExecs = 2
    MaxAdds = 2
SPECIFICATION FairSpec
CHECK_DEADLOCK FALSE
PROPERTY
    ReplacementReturns
