\* escape_json over labels holding control characters.
CONSTANT Uninit <- MCUninit
SPECIFICATION Spec
INVARIANT
    EscapeDecodes
