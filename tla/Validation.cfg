\* Words of two bytes, runs of two, four and so on; a pattern is too long from
\* its sixth byte and a part from its sixth.
CONSTANTS
    wordSize = 2
    firstByteRun = 2
    kMaxPatternLength = 5
    kMaxAddressPartLength = 5
    TextBytes <- MCTextBytes
    MaxRest = 6
    PatternTexts <- MCPatternTexts
    AddressTexts <- MCAddressTexts
SPECIFICATION Spec
INVARIANTS
    TypeOK
    PatternFaultAsDefined
    AddressFaultAsDefined
    LiteralAsDefined
PROPERTIES
    Returns
\* The scan returns, and then nothing is left to do.
CHECK_DEADLOCK FALSE
