CONSTANTS
    Chains = {c1, c2}
    NoChain = NoChain
    Events <- MCAllEvents
    Timeouts = {2}
    Roles = {"primary", "backup"}
    HotspotMacs = {TRUE, FALSE}
    SyncedTabs <- MCTabs
SYMMETRY ChainSymmetry
SPECIFICATION Spec
INVARIANTS
    TypeOK
    SettledMaster
    BackupQuiet
    SettledDown
PROPERTIES
    LockSpec
