SPECIFICATION FairSpec
CONSTANTS
    EarlyClose = TRUE
    BindMayFail = TRUE
INVARIANTS
    TypeOK
    NoUseAfterDestroy
PROPERTIES
    ShutdownCompletes
CHECK_DEADLOCK FALSE
