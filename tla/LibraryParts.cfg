CONSTANTS
    MaxAddress = 8
    ListContents = {c1, c2, c3, c4}
    NoElement = NoElement
    Radix = 2
    Packets <- SamplePackets
    MaxPackets = 3
    Lengths <- BoundaryLengths
    Strings <- BoundaryStrings
    MaxTokens = 8
    StackLimit = 3
    maxLargestInt = 63
SPECIFICATION Spec
INVARIANTS
    RecordsSound
    ListIsSequence
    PacketsReassembled
    LengthRoundTrip
    Utf8Exact
    JsonExact
    CommandParsed
\* A part stops when it has read its input.
CHECK_DEADLOCK FALSE
