CONSTANT Uninit <- MCUninit
SPECIFICATION Spec
INVARIANTS
    EncodeMatchesReference
    RoundTrip
    SentinelFirstByte
    HexRoundTrip
    HexParse
    StringPairExact
    SourceDataAdd
