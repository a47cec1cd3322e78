---------------------------- MODULE MCLocalMacsec --------------------------
\* Instances of LocalMacsec: the neighbours' addresses and the ports they are on.
EXTENDS LocalMacsec, TLC

CONSTANTS t1, t2, addr1, addr2, port1, port2, ext, r1, r2, r3, r4

\* A second neighbour on the port of the first: both addresses name the same port.
SharedPort    == (addr1 :> port1) @@ (addr2 :> port1)
SeparatePorts == (addr1 :> port1) @@ (addr2 :> port2)

ThreadsAndRegisters == Permutations(Threads) \union Permutations(Registers)
=============================================================================
