CONSTANTS
    Requests = {q1, q2}
    Workers = {w1}
    Tasks = {q1, q2, w1}
    Ids = {i1, i2}
    Names = {n1, n2}
    Ports = {5554, 5556}
    Offered = {"create", "start", "stop", "delete", "group"}
    None = None
SPECIFICATION FairSpec
INVARIANTS PortsExclusive EmulatorsTracked NoPortLost
PROPERTY TransientResolves
CHECK_DEADLOCK FALSE
