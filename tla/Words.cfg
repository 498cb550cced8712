\* Words of eight bytes, as in the code.
CONSTANTS
    wordSize = 8
SPECIFICATION MCSpec
INVARIANTS
    PatternTestExact
    AddressTestExact
    SeparatorsExact
\* A word is full.
CHECK_DEADLOCK FALSE
