SPECIFICATION SteadySpec
CONSTANTS
    server = server
    window = window
    Adders <- TwoAdders
    Sizes <- SizesTwo
    BoxWidth = 3
    BoxHeight = 2
    InitSpeed = 1
    Speeds <- SpeedsTwo
    MaxAdded = 3
    MaxChanges = 0
INVARIANTS
    NoCover
