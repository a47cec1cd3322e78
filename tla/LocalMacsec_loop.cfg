\* The document says a function scheduled with set_timeout is executed.
CONSTANTS
    t1 = t1  t2 = t2  addr1 = addr1  addr2 = addr2  port1 = port1  port2 = port2  ext = ext
    r1 = r1  r2 = r2  r3 = r3  r4 = r4
    Threads = {t1}
    Addresses = {addr1, addr2}
    Ports = {port1, port2}
    ExternPorts = {}
    PortOf <- SeparatePorts
    Registers = {r1, r2, r3, r4}
    NoRegister = NoRegister  NoAddress = NoAddress  NoEntry = NoEntry
    MaxActive = 1
    MaxCalls = 3
    MaxFailures = 0
SYMMETRY ThreadsAndRegisters
SPECIFICATION Spec
INVARIANTS LimitsFire
CHECK_DEADLOCK FALSE
