CONSTANTS
    Conns = {c1, c2}
    MaxConnections = 1
    MaxBytes = 1
    MaxLaunches = 2
    MaxCrashes = 1
    Destinations <- MCDestinations
    Allowed <- MCAllowed
    Denied <- MCDenied
    Ports = {443}
    Addresses = {"public", "loopback"}
    Public = {"public"}
SPECIFICATION FairSpec
INVARIANTS
    NothingOutlivesClose
    EgressPermitted
PROPERTIES
    SlotsReturn
CHECK_DEADLOCK FALSE
