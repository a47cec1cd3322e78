------------------------------- MODULE PortGate -------------------------------
(***************************************************************************)
(* What 802.1X promises of the ports of a switch: a host may send only on  *)
(* a port where the server approved it, from the moment its decision is    *)
(* handed over or not at all; and no decision about one host opens or      *)
(* closes a port for another.                                              *)
(***************************************************************************)
CONSTANTS Hosts, Ports

VARIABLES
    approved,  \* where the server's last decision about a host was to accept it
    open       \* who may send where

Pairs == Ports \X Hosts

Of(h) == {pair \in Pairs : pair[2] = h}

Init == approved = {} /\ open = {}

\* The server accepts h on p.  The answer may not get through.
Approve(p, h) ==
    /\ approved' = approved \union {<<p, h>>}
    /\ open' \in {open, open \union {<<p, h>>}}

\* It rejects h on p.  h loses what it had, there or where it was before.
Reject(p, h) ==
    /\ approved' = approved \ {<<p, h>>}
    /\ \E lost \in SUBSET Of(h) : open' = open \ lost

\* h logs off.
Leave(h) ==
    /\ UNCHANGED approved
    /\ \E lost \in SUBSET Of(h) : open' = open \ lost

Next == \E h \in Hosts : Leave(h) \/ \E p \in Ports : Approve(p, h) \/ Reject(p, h)

Spec == Init /\ [][Next]_<<approved, open>>
=============================================================================
