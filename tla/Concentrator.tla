---------------------------- MODULE Concentrator ----------------------------
(***************************************************************************)
(* The IPsec manager of a concentrator, the switch where the tunnels of a  *)
(* site end (local_lib/manager/ipsec.py), as operators on its state: what  *)
(* its handlers leave behind, as the set of states they may end in.        *)
(*                                                                         *)
(* A state is a record of the tunnels in _tunnels (installed, by id), the  *)
(* switch's entries for encryption (the tunnel, by the subnet they match)  *)
(* and decryption (by id, which stands for the random SPI), and how many   *)
(* registers are left.  A handler writes one entry after the other and     *)
(* ends at the first that is refused: an INSERT where there is an entry, a *)
(* DELETE where there is none.  The order of a set's subnets is arbitrary. *)
(***************************************************************************)
EXTENDS Naturals

CONSTANTS
    Subnets,
    NoTunnel,
    Registers   \* how many registers the switch has

ASSUME ConcentratorAssumption == Registers \in Nat

Fresh == [installed |-> {}, encrypt |-> [n \in Subnets |-> NoTunnel], decrypt |-> {},
          free |-> Registers]

Entries(c, nets) == {n \in nets : c.encrypt[n] # NoTunnel}

\* c after the entries of nets are set to tunnel.
Encrypt(c, nets, tunnel) ==
    [c EXCEPT !.encrypt = [n \in Subnets |-> IF n \in nets THEN tunnel ELSE c.encrypt[n]]]

-----------------------------------------------------------------------------
\* Wrong on purpose: the tunnel is forgotten although entries are left.
Refused_Forget(c, id) == [c EXCEPT !.installed = @ \ {id}]

\* A delete failed: the tunnel stays in _tunnels.
Refused(c, id) == c

Forget(c, id) == [c EXCEPT !.installed = @ \ {id}, !.decrypt = @ \ {id}]

\* remove, for a tunnel to nets: its entries are looked up by the subnets the
\* tunnel has now.
Remove(c, tunnel, nets) ==
    LET id    == tunnel.id
        there == Entries(c, nets)
    IN  CASE id \notin c.installed -> {c}
          [] id \in c.installed /\ there # nets ->
               {Refused(Encrypt(c, gone, NoTunnel), id) : gone \in SUBSET there}
          [] id \in c.installed /\ there = nets /\ id \notin c.decrypt ->
               {Refused(Encrypt(c, nets, NoTunnel), id)}
          [] OTHER -> {Forget(Encrypt(c, nets, NoTunnel), id)}

\* remove, when the call of one of its deletes is lost, before or after the
\* switch handled it.
RemoveHalf(c, tunnel, nets) ==
    LET id    == tunnel.id
        there == Entries(c, nets)
    IN  IF id \notin c.installed THEN {}
        ELSE {Encrypt(c, gone, NoTunnel) : gone \in SUBSET there}
             \union {[Encrypt(c, nets, NoTunnel) EXCEPT !.decrypt = @ \ {id}] :
                       all \in {nets} \intersect {there}}

-----------------------------------------------------------------------------
\* Wrong on purpose: registers are taken from an empty pool.
Enough_Any(c) == TRUE

\* Two registers are taken for every tunnel and never given back; none are left
\* after a pop that raised.
Enough(c) == c.free >= 2

Taken(c) == [c EXCEPT !.free = @ - 2]
Drained(c) == [c EXCEPT !.free = 0]

\* Wrong on purpose: an INSERT overwrites.
Blocked_Upsert(c, nets) == {}

Blocked(c, nets) == Entries(c, nets)

Install(c, id) == [c EXCEPT !.installed = @ \union {id}, !.decrypt = @ \union {id}]

\* new, for a tunnel to nets.
New(c, tunnel, nets) ==
    LET id      == tunnel.id
        blocked == Blocked(c, nets)
        ready   == Enough(c) /\ id \notin c.installed
    IN  CASE ~Enough(c) -> {Drained(c)}
          [] Enough(c) /\ id \in c.installed -> {Taken(c)}
          [] ready /\ blocked # {} ->
               {Encrypt(Taken(c), done, tunnel) : done \in SUBSET (nets \ blocked)}
          [] ready /\ blocked = {} /\ id \in c.decrypt -> {Encrypt(Taken(c), nets, tunnel)}
          [] OTHER -> {Install(Encrypt(Taken(c), nets, tunnel), id)}

\* new, when the call of one of its writes is lost.
NewHalf(c, tunnel, nets) ==
    LET id      == tunnel.id
        blocked == Blocked(c, nets)
    IN  IF ~Enough(c) \/ id \in c.installed THEN {}
        ELSE {Encrypt(Taken(c), done, tunnel) : done \in SUBSET (nets \ blocked)}
             \union {[Encrypt(Taken(c), nets, tunnel) EXCEPT !.decrypt = @ \union {id}] :
                       none \in {blocked} \intersect {{}}}

-----------------------------------------------------------------------------
\* renew removes the tunnel and installs it, whatever became of the first.
Renew(c, tunnel, nets) == UNION {New(r, tunnel, nets) : r \in Remove(c, tunnel, nets)}

RenewHalf(c, tunnel, nets) ==
    (UNION {New(r, tunnel, nets) : r \in RemoveHalf(c, tunnel, nets)})
    \union (UNION {NewHalf(r, tunnel, nets) : r \in Remove(c, tunnel, nets)})

=============================================================================
