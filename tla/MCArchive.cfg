CONSTANTS
    CharBit = 4
    MaxCalls = 2
    NewBytes = {0, 7, 15}
    Items <- MCItems
    Options <- MCOptions
SPECIFICATION Spec
INVARIANTS
    RoundTrip
    CutRefused
    ReadStaysValid
CHECK_DEADLOCK FALSE
