\* Three threads that register, update and give up the one registration, under
\* fairness of the calls in progress.
SPECIFICATION FairSpec
CONSTANTS
    Thread = {t1, t2, t3}
    Options <- SomeOptions
    TooLong = "too long"
    None = None
INVARIANT HeldIsRegistered
INVARIANT NothingLeftBehind
PROPERTY LeaseComesBack
