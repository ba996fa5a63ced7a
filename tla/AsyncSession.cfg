\* An async session and a blocking one over a single native number, and a thread of the
\* user interface with a handle of its own.
SPECIFICATION FairSessionSpec
CONSTANTS
    It = it
    Other = {s2}
    Caller = caller
    User = {u1}
    Slot = {k1}
    None = None
    MaxTries = 1
    Roles = {"Primary"}
    MaxCommands = 4
INVARIANT CommandsFindOpenSession
INVARIANT WorkerLeavesNothing
PROPERTY DropReturns
PROPERTY AbandonedSessionRecovered
