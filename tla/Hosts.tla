-------------------------------- MODULE Hosts --------------------------------
(***************************************************************************)
(* The hosts of a network: those that are plugged in at a switch of a site *)
(* (PortAccess, Learning) and the client outside of it that has a tunnel   *)
(* to the site (ClientTunnels).                                            *)
(*                                                                         *)
(* What they do is independent of each other, so a behaviour is about one  *)
(* of the parts, the plan's: who authenticates and gets a MACsec rule, how *)
(* the switch learns where hosts are that need not, or the client's        *)
(* tunnel.                                                                 *)
(***************************************************************************)
EXTENDS Learning, ClientTunnels

CONSTANT Plans  \* what a behaviour is about: the part, who is there and
                \* plugged in where, the ports that are open to all, and how
                \* many of the packets and faults are not for it

ASSUME PlansAssumption ==
    Plans \subseteq [part : {"access", "learning", "tunnel"}, hosts : SUBSET Hosts,
                     at : [Hosts -> Ports \union {NoPort}], extern : SUBSET Ports,
                     packets : 0..MaxPackets, faults : 0..MaxFaults]

VARIABLE plan

vars == <<plan, accessVars, learnVars, tunnelVars>>

Init ==
    /\ plan \in Plans
    /\ at = plan.at /\ extern = plan.extern
    /\ packets = plan.packets /\ faults = plan.faults
    /\ AccessInit /\ LearnInit /\ TunnelInit

Accesses == plan.part = "access" /\ AccessNext /\ UNCHANGED <<plan, learnVars, tunnelVars>>

Learning == plan.part = "learning" /\ UNCHANGED <<plan, tunnelVars>>

Learns ==
    \/ Learning /\ LearnNext
    \/ Learning /\ UNCHANGED learnVars /\ \E h \in plan.hosts : Move(h)

Tunnels == plan.part = "tunnel" /\ TunnelNext /\ UNCHANGED <<plan, accessVars, learnVars>>

Next == Accesses \/ Learns \/ Tunnels

\* Hosts go on talking, also when their packets wait behind others; the thread
\* of the stream and the event loop of the switch's controller run.
Fairness ==
    /\ \A h \in Hosts : SF_vars(Learning /\ Talk(h))
    /\ WF_vars(Learning /\ Read) /\ WF_vars(Learning /\ LearnSource)
    /\ WF_vars(Learning /\ RemoveOld)

Spec == Init /\ [][Next]_vars /\ Fairness

-----------------------------------------------------------------------------
\* The variables stay in their types.
TypeOK == plan \in Plans /\ AccessTypeOK /\ LearnTypeOK /\ TunnelTypeOK
=============================================================================
