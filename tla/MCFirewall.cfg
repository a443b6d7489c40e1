CONSTANTS
    Guests = {guest}
    WireGuards = {wg1}
    Tunnels = {server1, client1}
    Servers = {server1}
    Rules = {rule1}
    RuleKinds = {"forward", "input"}
    Redirects = {redirect1}
    NoLink = NoLink
    Reach = {wg1}
    MaxForwards = 1
SPECIFICATION Spec
INVARIANTS
    TypeOK
    ForwardingsJoin
    ReflectionsExist
    NothingLeft
PROPERTIES
    OrderKept
    TunnelsStay
CHECK_DEADLOCK FALSE
