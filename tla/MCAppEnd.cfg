SPECIFICATION FairSpec
CONSTANTS
    EarlyClose = TRUE
    BindMayFail = FALSE
PROPERTIES
    EndsCleanly
CHECK_DEADLOCK FALSE
