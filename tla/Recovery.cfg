\* Three sessions that compete for the callback lease, against their invariants,
\* the abstract contract and its liveness.
SPECIFICATION FairSpec
CONSTANTS
    Session = {s1, s2, s3}
    None = None
INVARIANT OutcomesHonest
INVARIANT LeaseScoped
INVARIANT OneRestart
PROPERTY RecoveryContractHolds
PROPERTY RecoveryHappens
