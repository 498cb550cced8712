\* Every pattern of up to five tokens over every address of up to four parts.
CONSTANTS
    x = x
    y = y
    onlyX = onlyX
    any = any
    Operator = Operator
    PatternParts = {onlyX, any}
    AddressParts = {x, y}
    Fits <- MCFits
    MaxTokens = 5
    MaxParts = 4
SPECIFICATION Spec
INVARIANTS
    TypeOK
    MatchesAsDefined
    NeverComparesAgain
PROPERTIES
    Returns
\* The matcher returns, and then nothing is left to do.
CHECK_DEADLOCK FALSE
