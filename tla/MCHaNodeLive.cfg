CONSTANTS
    Chains = {c1, c2}
    NoChain = NoChain
    Events <- MCTransitions
    Timeouts = {2}
    Roles = {"backup"}
    HotspotMacs = {FALSE}
    SyncedTabs <- MCTabs

SPECIFICATION FairSpec

PROPERTIES
    StableMasterServes
