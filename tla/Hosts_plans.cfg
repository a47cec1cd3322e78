\* Two hosts at an access switch, what the switch learns, and the tunnel of a client.
CONSTANTS
    alice = alice  bob = bob  port1 = port1  port2 = port2  net = net  name1 = name1  name2 = name2
    Hosts = {alice, bob}
    Ports = {port1, port2}
    SwitchMac = SwitchMac  Broadcast = Broadcast
    NoPort = NoPort  NoSession = NoSession  NoRule = NoRule  NoTunnel = NoTunnel
    MaxPackets = 6
    MaxRules = 2
    MaxFaults = 2
    MaxNotices = 2
    Subnets = {net}
    Registers = 7
    Targets = {name1, name2}
    MaxGens = 2
    MaxTunnels = 3
    MaxUpdates = 1
    MaxMishaps = 1
    Plans <- SmallPlans
SPECIFICATION Spec
INVARIANTS TypeOK AccessWhole MacsecAgrees SameTunnel CleanLeave
PROPERTIES GateKept HostsReachable
CHECK_DEADLOCK FALSE
