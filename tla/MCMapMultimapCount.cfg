\* Every operation, with no pair emplaced twice.
CONSTANTS
    Keys <- MCKeys
    Pays <- MCPays
    Ops = {"emplace", "remove", "remove_key"}
    EmplaceFresh = TRUE
SPECIFICATION Spec
CONSTRAINT CallBound
INVARIANT
    MapReflectsStored
