SPECIFICATION FairSpec
CONSTANTS
    server = server
    window = window
    Adders <- TwoAdders
    Sizes <- SizesAll
    BoxWidth = 3
    BoxHeight = 2
    InitSpeed = 1
    Speeds <- SpeedsTwo
    MaxAdded = 3
    MaxChanges = 1
INVARIANTS
    TypeOK
    OnScreen
    StackBounded
PROPERTIES
    AddReturns
    Drains
