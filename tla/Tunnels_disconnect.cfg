\* The README promises that a pair can be disconnected.
CONSTANTS
    east = east  west = west  w1 = w1  w2 = w2  east1 = east1  east2 = east2  west1 = west1
    Sites = {east, west}
    Workers = {w1, w2}
    Subnets = {east1, east2, west1}
    HomeOf <- Homes
    NoTunnel = NoTunnel
    Registers = 8
    Budget = 3
SYMMETRY Symmetry
SPECIFICATION Spec
INVARIANTS DisconnectedStaysDown
CHECK_DEADLOCK FALSE
