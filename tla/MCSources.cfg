SPECIFICATION Spec
CONSTANTS
    MaxId = 3
    MaxQueue = 2
    Ids <- FewIds
INVARIANTS
    TypeOK
PROPERTIES
    ImplementsChannel
    UrlTriesAll
    LiveGoesOnUntilStopped
    BotListens
    BotCloses
CHECK_DEADLOCK FALSE
