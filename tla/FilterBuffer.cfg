\* A buffer of up to three records and a half, with odd lengths, pointers that are null,
\* odd, before and behind it, and sums that overflow the address space.
SPECIFICATION FairSpec
CONSTANTS
    RecordSize = 4
    Word = 4
    AddressMax = 17
    MaxNeeded = 15
    MaxAttempts = 2
INVARIANT ReadsInside
INVARIANT ListBounded
PROPERTY QueryEnds
