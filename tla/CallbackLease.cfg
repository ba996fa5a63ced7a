\* Two operations with progress, of one thread or of two, and trampoline calls of
\* which two may be in progress at once and outlive their operation, under fairness
\* of the calls in progress: 0 and 1 are in range and 2 is malformed.
SPECIFICATION FairSpec
CONSTANTS
    Thread = {t1, t2}
    Call = {c1, c2}
    None = None
    MaxPercent = 1
    MaxOps = 2
    MaxReports = 3
INVARIANT PointerValid
INVARIANT DeliveredToOwner
INVARIANT SuccessIsFaithful
PROPERTY OperationsEnd
