\* The rule that the first fault wins, for patterns longer than the limit.
CONSTANTS
    wordSize = 2
    firstByteRun = 2
    kMaxPatternLength = 5
    kMaxAddressPartLength = 5
    TextBytes <- MCTextBytes
    MaxRest = 6
    PatternTexts <- MCPatternTexts
    AddressTexts <- MCAddressTexts
SPECIFICATION Spec
INVARIANTS
    FirstFaultWins
\* The scan returns, and then nothing is left to do.
CHECK_DEADLOCK FALSE
