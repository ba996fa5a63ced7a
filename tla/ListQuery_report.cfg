\* The real number of attempts, and enough growth to use all of them up.
SPECIFICATION Spec
CONSTANTS
    MaxAttempts = 8
    MaxSize = 9
    MaxVersion = 9
INVARIANT ReportIsSnapshot
INVARIANT DataChangedHonest
