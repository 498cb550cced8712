\* Slots of two bits: one entry more than kMaxEntries.
CONSTANTS
    NumAddresses = 5
    Hashes <- MCHashes
    kMaxEntries = 3
    kMinSlots = 2
    MaxHeld = 5
SPECIFICATION Spec
INVARIANTS
    FindsExactlyHeld
