\* Two sessions of one process over one native table entry, so that an entry freed
\* by one session is taken by the other, and two cancelling threads, two cancel
\* calls each, under fairness of the calls in progress.
SPECIFICATION FairSpec
CONSTANTS
    Session = {s1, s2}
    Thread = {c1, c2}
    Slot = {k1}
    None = None
    MaxTries = 2
INVARIANT NativeCallsOwnSession
INVARIANT LeakOnlyIfDropFailed
PROPERTY CancelStopsOperation
PROPERTY SessionDisposed
