\* Every order of insertions and erasures, with rebuilds that may fail.
CONSTANTS
    NumAddresses = 5
    Hashes <- MCHashes
    kMaxEntries = 7
    kMinSlots = 4
    MaxHeld = 5
SPECIFICATION Spec
INVARIANTS
    TypeOK
    EraseEnds
    HalfEmpty
    FindsExactlyHeld
