\* Values one past the 7-bit type field and the 9-bit length field, which
\* the u8 type and u16 length of struct unpacked_tlv can hold.
CONSTANTS
    Null = Null
    Types = {1, 128}
    Lengths = {1, 512}
    FillBytes = {0}
    MaxFrame = 1100
    MaxTlvs = 2
    Candidates <- MCCandidates
SPECIFICATION Spec
INVARIANT RoundTrip
