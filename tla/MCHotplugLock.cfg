CONSTANTS
    Chains = {c1, c2, c3}
    NoChain = NoChain
    Events <- MCEvents
    Timeouts <- MCTimeouts
SPECIFICATION LockFairSpec
INVARIANTS
    Serialised
    QuiescentClean
PROPERTIES
    HolderReleases
    EventNotDropped
    LockReturned
