\* Patterns of up to five bytes over addresses of up to four, in every way;
\* a part of three bytes is too long and two tokens fill the array.
CONSTANTS
    a = a
    b = b
    partSeparator = slash
    anyBytes = star
    PlainBytes = {a, b}
    kMaxAddressPartLength = 2
    maxPreparedParts = 2
    PatternTexts <- MCPatternTexts
    AddressTexts <- MCAddressTexts
SPECIFICATION Spec
INVARIANTS
    TypeOK
    AnswersAsDefined
    LiteralMatchesOnlyItself
PROPERTIES
    ImplementsPartLoop
    Returns
\* The matcher returns, and then nothing is left to do.
CHECK_DEADLOCK FALSE
