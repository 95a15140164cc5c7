SPECIFICATION Spec
CONSTANTS
    MaxSent = 26
    Contents <- FewContents
    Pipelined <- FewPipelined
    Limits <- FewLimits
    Plain <- PlainSample
    Samples <- FewSamples
INVARIANTS
    TypeOK
    ContentAsSent
    RequestRoundTrip
    ResponseRoundTrip
PROPERTIES
    MessageEnds
CHECK_DEADLOCK FALSE
