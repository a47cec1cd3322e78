------------------------------- MODULE MCHosts -------------------------------
\* Instances of Hosts: two hosts that share ports, one that moves, and a client
\* that is started twice.
EXTENDS Hosts, TLC

CONSTANTS alice, bob, port1, port2, net, name1, name2

At(a, b) == (alice :> a) @@ (bob :> b)

Plan(part, hosts, where, open, noPackets, noFaults) ==
    [part |-> part, hosts |-> hosts, at |-> where, extern |-> open,
     packets |-> noPackets, faults |-> noFaults]

\* Both hosts can become clients in the first, and only one in the second, where
\* two things go wrong; a host that moves, and the client outside.
SmallPlans ==
    { Plan("access", {alice, bob}, At(port1, port2), {}, 0, 1),
      Plan("access", {alice, bob}, At(port1, port1), {port2}, 2, 0),
      Plan("learning", {alice}, At(port1, NoPort), {port1, port2}, 0, 0),
      Plan("tunnel", {}, At(NoPort, NoPort), {}, 0, 0) }
=============================================================================
