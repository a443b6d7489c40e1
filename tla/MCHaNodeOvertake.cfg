CONSTANTS
    Chains = {c1, c2}
    NoChain = NoChain
    Events <- MCFlap
    Timeouts = {2}
    Roles = {"backup"}
    HotspotMacs = {FALSE}
    SyncedTabs <- MCTabs
SYMMETRY ChainSymmetry
CONSTRAINT Granted
SPECIFICATION Spec
INVARIANTS
    BackupQuietAnyOrder

