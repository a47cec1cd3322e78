\* Two sites: operations that cross, lost calls and writes, subnets that change.
CONSTANTS
    east = east  west = west  w1 = w1  w2 = w2  east1 = east1  east2 = east2  west1 = west1
    Sites = {east, west}
    Workers = {w1, w2}
    Subnets = {east1, east2, west1}
    HomeOf <- Homes
    NoTunnel = NoTunnel
    Registers = 5
    Budget = 3
SYMMETRY Symmetry
SPECIFICATION Spec
INVARIANTS TypeOK InstalledDecrypts WholeTunnel SerialAgree WanRemembers
CHECK_DEADLOCK FALSE
