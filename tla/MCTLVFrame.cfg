\* Types at the edges of the 7-bit field, lengths at the edges of the
\* 9-bit field, and a frame bound that one 511-byte TLV and one 1-byte TLV
\* fill exactly.
CONSTANTS
    Null = Null
    Types = {0, 1, 127}
    Lengths = {0, 1, 511}
    FillBytes = {0, 255}
    MaxFrame = 516
    MaxTlvs = 3
    Candidates <- MCCandidates
SPECIFICATION Spec
INVARIANTS
    WithinBound
    FrameDecodes
    RoundTrip
PROPERTY
    ImplementsAppend
