\* Both roles, under fairness of the worker; enough commands for a refused
\* shutdown, a shutdown, a refused restart, a restart and an end, with two more of
\* dropped futures among them.
SPECIFICATION FairSpec
CONSTANTS
    Roles <- BothRoles
    MaxCommands = 7
INVARIANT NoFutureForgotten
INVARIANT NeverOutOfSequence
INVARIANT WorkerAgrees
INVARIANT DropNeverCancelsRestart
PROPERTY RecoveryContractHolds
PROPERTY SessionEnds
PROPERTY FuturesResolve
