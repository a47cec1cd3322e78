\* Two handlers overlapping, the neighbour of the port replaced, one lost write.
CONSTANTS
    t1 = t1  t2 = t2  addr1 = addr1  addr2 = addr2  port1 = port1  port2 = port2  ext = ext
    r1 = r1  r2 = r2  r3 = r3  r4 = r4
    Threads = {t1, t2}
    Addresses = {addr1, addr2}
    Ports = {port1, ext}
    ExternPorts = {ext}
    PortOf <- SharedPort
    Registers = {r1, r2, r3}
    NoRegister = NoRegister  NoAddress = NoAddress  NoEntry = NoEntry
    MaxActive = 2
    MaxCalls = 3
    MaxFailures = 1
SYMMETRY ThreadsAndRegisters
SPECIFICATION Spec
INVARIANTS TypeOK ForcedPortsAreSecured HandlersExcludeEachOther
CHECK_DEADLOCK FALSE
