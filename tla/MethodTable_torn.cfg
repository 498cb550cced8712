\* The rule of visit, when a move of a value may end an add or a remove.
CONSTANTS
    Tables = {1}
    NumAddresses = 3
    Patterns = {p}
    Selects <- MCSelects
    kMinSlots = 2
    MaxUpdates = 6
    MaxThrown = 1
    MaxMethods = 4
SPECIFICATION Spec
INVARIANTS
    KeptMatchesSurviveThrows
\* The bounds may be reached.
CHECK_DEADLOCK FALSE
