SPECIFICATION SteadySpec
CONSTANTS
    server = server
    window = window
    Adders <- OneAdder
    Sizes <- SizesAll
    BoxWidth = 3
    BoxHeight = 2
    InitSpeed = 1
    Speeds <- SpeedsTwo
    MaxAdded = 4
    MaxChanges = 2
INVARIANTS
    NoCover
