\* Two spaces, copied and moved while a visitor has the source open,
\* and visits of visitors that come back.
CONSTANTS
    star = star
    ends = ends
    last = last
    long = long
    absent = absent
    torn = torn
    oneBucket = oneBucket
    NoText = NoText
    Spaces = {1, 2}
    NumAddresses = 2
    OtherLiterals = {}
    Wildcards = {star}
    Malformed = {}
    Selects <- MCSelects
    Buckets = {oneBucket}
    BucketOf <- MCBucketOf
    Short <- MCShort
    Memo = TRUE
    InlineResults = 2
    MaxMethods = 2
    MaxDepth = 2
    MaxGeneration = 3
SPECIFICATION LiveSpec
INVARIANTS
    MemoCoherent
    ReadersBalanced
    MethodsInOrder
PROPERTIES
    DeliversAsPromised
    EveryVisitReturns
