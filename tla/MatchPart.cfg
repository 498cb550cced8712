\* Every pattern part of up to three tokens over every part of up to four bytes,
\* with words of two bits and the longest part of three bytes.
CONSTANTS
    MaxTokens = 3
    MaxBytes = 4
    Patterns <- MCPatterns
    Parts <- MCParts
    rangeSeparator = 0
    bitsPerWord = 2
    kMaxAddressPartLength = 3
SPECIFICATION Spec
INVARIANTS
    TypeOK
    ReachFits
    ReachIsPrefixMatch
    ResultAsDefined
\* matchPart returns, and then nothing is left to do.
CHECK_DEADLOCK FALSE
