SPECIFICATION Spec
CONSTANTS
    i1 = i1
    i2 = i2
    Ifaces = {i1, i2}
    Ports = {eth0}
    Others = {"guest"}
    KindsOf <- MCKindsOf
    NoPort = NoPort
    NoZone = NoZone
    MaxCalls = 2
    MaxMishaps = 1
INVARIANTS
    TypeOK
    DnsEnforced
    WanFiltered
