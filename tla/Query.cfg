SPECIFICATION FairSpec
CONSTANTS
    MaxCancels = 1
    MaxPushes = 1
    Kinds = {"search", "preview", "activate", "perform_action", "activate_result_action"}
CHECK_DEADLOCK FALSE
PROPERTY QueryOutcome
PROPERTY QueryEnds
