SPECIFICATION FairSpec
CONSTANTS
    s1 = s1
    s2 = s2
    s3 = s3
    d1 = d1
    d2 = d2
    Scopes <- MCScopes
    Stoppers <- MCStoppers
INVARIANTS
    TypeOK
    CountMatches
    StopExcludes
PROPERTIES
    ImplementsGate
    NobodySpins
