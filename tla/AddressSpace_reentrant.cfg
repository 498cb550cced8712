\* One space whose visitors visit it again, to a depth of three, with tables
\* and results that outgrow what a bucket can list.
CONSTANTS
    star = star
    ends = ends
    last = last
    long = long
    absent = absent
    torn = torn
    oneBucket = oneBucket
    NoText = NoText
    Spaces = {1}
    NumAddresses = 4
    OtherLiterals = {absent, long}
    Wildcards = {ends, last}
    Malformed = {torn}
    Selects <- MCSelects
    Buckets = {oneBucket}
    BucketOf <- MCBucketOf
    Short <- MCShort
    Memo = TRUE
    InlineResults = 1
    MaxMethods = 2
    MaxDepth = 3
    MaxGeneration = 5
SPECIFICATION Spec
INVARIANTS
    TypeOK
    MemoCoherent
PROPERTIES
    ReadBucketsStay
    DeliversAsPromised
    ReturnsMatchCount
