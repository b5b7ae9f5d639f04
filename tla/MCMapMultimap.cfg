CONSTANTS
    Keys <- MCKeys
    Pays <- MCPays
    Ops = {"emplace", "remove", "remove_key"}
    EmplaceFresh = FALSE
SPECIFICATION Spec
CONSTRAINT CallBound
INVARIANTS
    TypeOK
    MultimapOnlyUnderCount
PROPERTY
    PaysKept
