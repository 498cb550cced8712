\* Two tables, whose values move without throwing or not, and two addresses.
CONSTANTS
    Tables = {s, t}
    NumAddresses = 2
    Patterns = {p}
    Selects <- MCSelects
    kMinSlots = 2
    MaxUpdates = 3
    MaxThrown = 1
    MaxMethods = 3
SPECIFICATION Spec
SYMMETRY MCSymmetry
INVARIANTS
    WholeAtRest
    KeptMatchesHold
PROPERTIES
    AllOrNothing
\* The bounds may be reached, and a call of a half-done table be undefined.
CHECK_DEADLOCK FALSE
