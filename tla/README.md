# P4sec: a verification project

P4sec is a network of P4 switches whose controllers secure it: MACsec between
the switches of a site, IPsec between sites and to clients on the road, port
authorization towards hosts. Four programs take part: one *local controller*
per switch (`local.py`, `local_lib/`), one *global controller* per site
(`global.py`, `global_lib/`), one *WAN controller* (`wan.py`, `wan_lib/`) and
the *client* of a road warrior (`client.py`, `client_lib/`). They call each
other over gRPC; what they share is in `common_lib/`. The data plane is
`p4/` with the externs of `externs/`.

This directory holds TLA+ models of that code, TLC configurations that check
them on small instances, and theorems with proofs for TLAPS.

To run: `tlc -config LocalMacsec_concurrent.cfg MCLocalMacsec.tla`,
`tlapm LocalMacsecProofs.tla`. `PROJECT.json` lists the runs, the source lines
every definition stands for, the hazards, and mutants: bugs put into the models
(the operators commented "Wrong on purpose", which nothing uses) that each
property is known to catch.

## Inventory

| Component | State | Operations | Hard part |
|---|---|---|---|
| Event loop, lock (`common_lib/event`, `common_lib/server/synchronous.py`, REPL and port monitor as users) | reentrant lock, set of tasks, wake-up event, stop flag, context with the peer of the running call | `acquire`, `release`, `force_release`, `set_timeout`, `set_interval`, `run`, `stop`, `synchronize` | threads, a ten second timeout on the lock that forces it open, wake-ups lost between check and sleep, a task that gives the lock away, exceptions between any two steps |
| MACsec manager of a switch (`local_lib/manager/macsec.py`) | rules, registers, key states, time limits; the tables of the switch | `add` (rollback, retry), `remove`, `renew`, soft limits | every table write may be refused or lost; handlers overlap; a rule is four writes and the bookkeeping |
| Port authorizer (`local_lib/manager/port_authorizer.py`) | forced and learnt ports, four tables | `force_authorization`, `authorize`, their inverses | a port must never be opened without MACsec; two ports share entries |
| Keys of an edge (`global_lib/manager/macsec.py`) | none of its own: the rules at both ends | `add`, `remove`, `renew` over two RPCs | the second RPC may fail; renewals cross, since notifications take no lock |
| Topology of a site (`global_lib/manager/lldp.py`, `common_lib/topology`, `local_lib/manager/topology.py`) | edges, at the global controller and at both ends | `add_edge`, `remove_edge`, LLDP send and receive, garbage collection | both ends report the same edge; lock order between controllers |
| Registration of controllers (`common_lib/manager/controller.py`, `common_lib/stub`, the `registration` services) | connected controllers, handlers | `register`, `unregister`, `_check_controllers` | a controller dies and comes back; handlers raise |
| Routing of a site (`global_lib/manager/routing.py`, `local_lib/manager/routing.py`) | subnets, routes computed, routes written | `add_subnet`, `remove_subnet`, `_update_routes` | written routes and remembered routes drift apart when a write fails |
| IPsec, WAN (`wan_lib/manager/network.py`) | sites, their subnets, tunnels | `connect`, `disconnect`, `refresh_tunnel`, client tunnels, subnet updates | a tunnel exists at three controllers; every one may fail |
| IPsec, site (`global_lib/manager/ipsec.py`, `local_lib/manager/ipsec.py`) | tunnels, rules, registers | `new`, `renew`, `remove`, soft limits | `renew` is remove and new; writes are refused |
| Client (`client_lib`) | tunnels by DNS name, xfrm state; MACsec rule and edge | `connect`, `disconnect`, `request_tunnel`, `refresh_tunnel`, `remove_tunnel`; authentication, `request_rule`, `remove_rule` | DNS requests come from a thread of their own, while it connects or leaves; an answer may be lost after the other side did its part |
| Authenticator (`local_lib/manager/authenticator.py`) | 802.1X sessions, RADIUS requests | EAPOL start, response, logoff; RADIUS answers | a late answer is read as the next one's; a request, its answer and the host move independently |
| L2 switching (`local_lib/manager/l2.py`) | mapping of MAC addresses, two tables of the switch | learn, age, flood | two threads write mapping and tables without excluding each other; notifications are stale when read |
| Data plane (`p4/`) | registers per rule: packet number, limits, key in use | protect, validate, IPsec, authorizer, forwarding | packet numbers at their limits; keys change under traffic |
| Externs, REPL, logger, settings, credentials, conversions, examples | - | - | no state that other parts depend on |

**Interactions.** A local controller registers at the global one, sends LLDP
packets and reports edges. The global controller keeps the topology and answers
an edge with one MACsec rule for each end, over the local `macsec` services,
and with new routes. A rule that reaches a soft limit is reported back by the
switch (packets) or by a timer (time), and the global controller renews both
ends. Local subnets travel to the global and from there to the WAN controller,
which on `connect` sends tunnels down the same way to the two concentrators.
All of a controller's threads (gRPC workers, event loop, REPL, port monitor)
share one lock, that of the event system.

### What makes each part correct

* Event loop: the lock is given back, excludes what took it, and no task or
  stop request is lost; calls are answered.
* MACsec at a switch: an open port has its MACsec entries; the entries hold the
  keys the manager believes in; a register counts for one rule; renewal never
  drops the key still in use, and does not stop by itself.
* Keys of an edge: both ends hold the same keys in the same slots, and are
  installed together or not at all.
* Topology, routing: what was written to the switches is what is remembered, and
  both follow the links and subnets there are, without loops; who is removed
  leaves nothing.
* IPsec: both concentrators hold the tunnel the WAN controller remembers; a
  disconnected pair has none; no register is used twice or lost.
* Client: it uses the tunnel its site has, the rule its switch has, and leaves
  nothing behind.
* Ports: only who was accepted may send, and has all the entries it needs; a host
  that sends can be reached.

## Modules

| Module | Models | Extends |
|---|---|---|
| `EventSystem` | `common_lib/event/`, `synchronize`, REPL hooks, port monitor | |
| `LocalMacsec` | MACsec manager of a switch with the port authorizer and the tables | |
| `LinkKeys` | MACsec manager of the global controller with both ends of one edge | |
| `Concentrator` | IPsec manager of one concentrator, as operators on its state | |
| `Tunnels` | network manager of the WAN controller with the concentrators of two sites | `Concentrator` |
| `SiteNetwork` | registration, topology and routing of a site: the global controller with the controllers of its switches | |
| `PortGate` | abstract: what 802.1X promises of ports | |
| `PortAccess` | authenticator, port authorizer and the MACsec rule of a client | instantiates `PortGate` |
| `Learning` | L2 manager with its two tables | `PortAccess` |
| `ClientTunnels` | the client on the road, its tunnels at the WAN controller and at the site | `Concentrator` |
| `Hosts` | the three before, composed | `Learning`, `ClientTunnels` |
| `MC...` | instances for TLC | the module and `TLC` |
| `EventSystemProofs`, `LocalMacsecProofs`, `LinkKeysProofs`, `TunnelsProofs`, `SiteNetworkProofs`, `PortAccessProofs` | theorems | the module and `TLAPS` |
| `HostsProofs` | theorems of `PortAccess` carried over to the composition; types; the client's tunnel | `Hosts`, `PortAccessProofs`, `RecursionLemmas` |
| `RecursionLemmas` | induction and recursion on numbers without operators as parameters | `TLAPS`, `FiniteSetTheorems` |

### EventSystem

Threads are the loop, gRPC workers, and the others that take the lock directly
(REPL, port monitor). `pc` says where a thread is; a step ends where a thread
blocks or where another may change what it has read. `owner` and `depth` are
the `RLock`, `queue` the task set in the order of the tasks' times, with the
first `due` of them past their time, so that clocks need no numbers. `newTask`
is the wake-up `Event`, `context` whether the context names a peer: all callers
authenticate with the same kind of certificate and `peer_identity_key` is the
*name of the certificate field*, so every call compares equal to every other.
A wait of ten seconds that ends is `TimeOut` followed by `ForceRelease`, in
two steps because the lock may become free in between; releasing another
thread's `RLock` raises in Python, which is the second disjunct.

Abstracted: what tasks and methods do, except for the soft time limit
(`NotifyTask`), which releases the lock around an RPC, and methods that
schedule a task. `Task.set_ready`, which moves a pending task, is left to the
models of the managers that call it. Commands of the REPL schedule no tasks.

| Run | Instance | Shows |
|---|---|---|
| `EventSystem_timeouts` | two workers, REPL, an interval and a soft time limit; waits time out, everything raises | no thread keeps the lock when it is through with it (`LockIsGivenBack`), although it is forced, released by others than its owner, and not taken by methods that bypass it |
| `EventSystem_fair` | a worker, the REPL, two tasks, an interval to begin with or nothing at all (as in the client); no timeouts, methods raise | sections that took the lock exclude each other, the loop survives, the interval is never lost, tasks run, `exit` ends the loop, calls are answered |
| `EventSystem_exclusion` | finding | two events run at once |

*Fairness.* Threads are scheduled (weak fairness on the steps of the loop, on
`Push`/`Signal`, on what a worker does after its method). `Acquire` is strongly
fair: `RLock` keeps no order, but the lock is free between any two sections, so
a thread that waits long enough finds it free; without it the REPL alone could
starve the loop. `Return` of a worker is strongly fair because a method may
schedule tasks again and again before it returns. `Elapse` is fair because time
passes. Calls arriving, `Exit`, exceptions and timeouts are never fair.

*Bounds.* Two workers are enough for one call to meet another's context; the
bypass needs no third. Liveness is checked with one worker, so without the
bypass, because the state space with fairness grows fast; what the bypass does
to the lock is in the first run and in the proofs. Two tasks give an interval
and a soft time limit that overtakes it.

Three things the code does are visible in the model and have no run of their own:
an `exit` before the loop has started is forgotten, since `run` sets the flag back
(`common_lib/event/system.py:72`; `StopEnds` is stated from the start on);
`IntervalKept` needs tasks that do not raise (the first exception of an
interval's function ends it, `common_lib/event/system.py:47`), and the loop dies
when the RPC of a soft time limit raises (`LoopSurvives` is for RPCs that do
not; whose limits those are is `OpenEdgesKeepLoop` of `LocalMacsec`). An RPC of a
task returns in the model whatever is held elsewhere: two controllers that wait
for each other are not in `EventSystem` but, as far as garbage collection goes, in
`SiteNetwork`.

### LocalMacsec

One action per P4Runtime write of `add`, `remove` and `renew`, together with
the controller code up to the next write, since a thread blocks in the write
and only there: `AllocateRegister`, `InsertProtect`, `InsertValidate`,
`ForceIn`, `ForceOut` (with the bookkeeping of `Installed`); `UnforceIn`,
`UnforceOut`, `DeleteProtect`, `DeleteValidate` (with `Forget`); `Modify`. The
operator `Write` gives every write its three outcomes: done, refused by the
switch (INSERT over an entry, DELETE of nothing), or its call lost before or
after the switch applied it. `Rollback` and `EndRemove` are the except branch
of `add`: remove, then once more with `stop=True`. The renewal writes two
entries in one request that P4Runtime applies one by one (the code asks for
atomicity in a comment only), so a lost `Modify` may have changed either.

The global controller appears as `topology` (edges it knows of) and `renewals`
(notifications it still has to answer, each with who waits: the task of a time
limit, the handler of packet limits, or nobody when the call raised although it
arrived). Keys are numbers drawn by the calls; the random second key of a first
installation is `RandomKey`.

`add` and `remove` swallow what fails. `renew` does not: what it raises goes back
over the global controller's `renew`, which catches nothing, to who reported the
limit (`RaiseTo`). For a time limit that is `handle_soft_time_limit`, a task of the
event loop that released the lock for the call. It ends without taking it back,
the `finally` of `System.run` releases a lock that is not held, and the loop's
thread ends: `looping` is false, and `SoftTimeLimit` fires no more. A renewal
raises because this switch has no rule for the edge (`RefuseRenew`), because its
`MODIFY` is refused or lost (`Modify`), or because the other end or a call on the
way failed, which counts in `failures`.

| Run | Instance | Shows |
|---|---|---|
| `LocalMacsec_concurrent` | two handlers at once on a shared port, an extern port, three registers (the pool runs out), one lost write | an open port is secured; the switch's refusals keep the handlers apart |
| `LocalMacsec_sequential` | one handler at a time, two ports, three registers, three calls, one lost write or notification; fair | registers are exclusive; the switch holds the key the manager believes in; renewal keeps the current key in its slot; as long as the loop runs an open edge is armed: its time limit is set, or the loop waits for its renewal; no renewal of an open edge ends the loop; an `add` installs its key, also over an old rule |
| `LocalMacsec_loop` | finding | a limit that outlived its rule ends the event loop, and with it the limits of all edges |
| `LocalMacsec_rollback` | finding | the rollback of `add` leaves entries behind |

Where each property stops holding says as much as the property:
all but `ForcedPortsAreSecured` and `HandlersExcludeEachOther` need handlers one at
a time (a `renew` overtaken by a `remove` writes entries with a register that went
back to the pool). `CurrentKeyInstalled` and `RenewalArmed` speak of ports the
authorizer holds open, since elsewhere they are false (see Proofs); the first then
holds through any number of lost calls. `RenewalOverlaps`,
`RenewalArmed` and `OpenEdgesKeepLoop` need that nothing was lost, and
`AddInstalls` that besides a register is left. `RenewalArmed` moreover speaks of a
loop that runs: one renewal that raises stops those of all edges of the switch.
`OpenEdgesKeepLoop` says whose: an edge the global controller still knows, with a
port that is closed here, after the rollback of an `add` or an `add` that
found no register. A lost renewal ends the loop, too, whichever edge it is of.
A renewal that failed leaves the key state ahead of the switch, so that the next
one replaces the current key: of the properties only `CurrentKeyInstalled`
covers that. Since the lock of the controller may be bypassed (see
`EventsExclude`), `ForcedPortsAreSecured` is proved for any number of
handlers at once.

*Fairness.* `FairSpec` has weak fairness on the steps of a running handler: a
gRPC worker is not abandoned. Nothing makes calls arrive.

*Bounds.* Three calls cover an add, a renewal or a second add, and a removal;
three registers run out with the ones an `add` over an existing rule leaks. That an
`add` leaves its port closed on an empty pool, keeps the old rule and has its renewal
refused takes four calls and more: there the invariants rest on their proofs.

### LinkKeys

Handlers of the two local controllers are single steps here (`Add`,
`Uninstall`, `Renew`); what happens inside is `LocalMacsec`'s. Of a handler that
fails at its switch, on a lost write or for want of a register, the outcomes are
here. `MacsecManager.add` swallows its failure, also in the second try, and
returns (`AddFails`): the port is closed then, maybe with one of the entries or
both left behind (`PortStates`), and its old rule remembered or forgotten. What is
left behind refuses every later `add` and `remove` (`AddRefused`, `Stuck`), and
`RemoveFails` leaves it, too. The global controller notices nothing and goes on
(`AddAt`), whereas a call that is lost is rolled back. `renew` raises
(`RenewHalf`), and the other end is left alone. A step has one failure: a call
that fails at its switch does not lose its answer, too. The global
controller's `add`, `remove` and `renew` are two steps each, one per end, in
worker threads; before them an update tells both ends of the edge (`CallAdd`
and `Draw`, `CallRemove` and `TakeOut`). Updates may overlap, because the second
call finds the peer of the first in the context and bypasses the lock; renewals
may, because `notify_soft_*_limit` is not synchronized. Both rules of a pair get
the same time limit, hence both ends report it: `timers` may both fire.

| Run | Instance | Shows |
|---|---|---|
| `LinkKeys_edge` | two workers, two updates, four rules, two calls that are lost or fail at a switch | see below |

Four properties say what the two ends still have in common, each as far as it
goes. The history variables `lost`, `crossed` and `met` say which calls were
lost, whether two calls were under way at once, and whether two were at the same
end at once.

* `SerialEndsAgree`, `CommonSlot`: for calls one after the other, of which
  removals and topology updates may be lost, and of which none fails at a switch,
  the ends agree on all slots, and on one slot even in the middle of a renewal.
* `SamePhase`: for renewals that cross, of which none is lost, the key states
  of the ends agree, so that the next renewal heals what crossed. A lost renewal
  leaves them out of phase for good.
* `InstalledTogether`: for calls that cross and of which `add` and `renew` may be
  lost, an edge is installed at both ends or at none. A lost `remove` leaves its
  end with the rule (the code logs it), and calls that meet at an end are left
  out, since the handlers are atomic here. An `add` or `remove` that fails at a
  switch is left out as well, since then it is not true: one `add` that fails
  there leaves the rule at the other end alone, and nothing is rolled back.

That renewals which cross leave different keys in the same slots of the ends until
the next one, because notifications take no lock (`global_lib/interface/macsec.py:39`),
is why `SerialEndsAgree` is stated for calls that do not cross. It is one more
consequence of what `EventSystem_exclusion` shows.

*Bounds.* An edge is up or not in the beginning. Two updates are an edge reported
by both ends, reported again after a failure, or removed and reported; two
failures are a rule that fails and a rollback that is lost. The counters end a behaviour, so the runs do not check for
deadlock: the last rule may be drawn with calls left.

### Tunnels and Concentrator

`Concentrator` gives, for a concentrator's state, the set of states in which
`new`, `remove` and `renew` may leave it: the entries of a tunnel are written one
by one in the arbitrary order of a Python set, an INSERT over an entry or a
DELETE of none ends the handler, `except` swallows the error, and the tunnel is
remembered, or forgotten, only at the very end. `NewHalf`, `RemoveHalf`,
`RenewHalf` are the states in which a lost write leaves it. Every `new` takes two
registers and none is ever given back; a pop from the empty pool is outside the
`try`.

`Tunnels` has the operations of the WAN controller on one pair of sites: the
commands `connect` and `disconnect`, the updates of subnets, and the
notifications of packet limits, each as calls to the first and to the second
endpoint. The global controllers in between forward calls to their concentrator
and keep no tunnels. `edge` is the tunnel in the graph; a tunnel made by the
command shares the subnets of the endpoints, one made by a renewal has the
subnets of the notification (`live`). `Limit` is a counter passing a limit at a
switch, `Begin` the notification coming in, maybe much later.

| Run | Instance | Shows |
|---|---|---|
| `Tunnels_sites` | two workers, three subnets, five registers, three tunnels, updates and losses together | see below |
| `Tunnels_disconnect` | finding | a disconnected pair gets its tunnel back |

* `InstalledDecrypts`, `WholeTunnel`: a concentrator remembers exactly the tunnels
  it can decrypt; as long as subnets stay, its entries belong to one tunnel as a
  whole or there are none. Operations may cross and calls be lost, but two calls
  must not meet at one site (`met`), because what a call does at a site is one
  step here.
* `SerialAgree`, `WanRemembers`: operations one after the other, with late and
  double limits and with registers running out, leave the same tunnel at both
  ends, the one the WAN controller remembers. A site without subnets is left
  out, since `new` and `remove` of a tunnel without entries succeed where the
  other end's fail; so is a pair that was connected over a tunnel that is up
  (`doubled`), which stays as it is while the WAN controller remembers the
  other.

*Bounds.* `Budget` counts tunnels, updates and losses together: a tunnel and two
renewals, or a renewal and a subnet that changes, or a lost call. Five registers
serve two tunnels and leave one for the third, whose second pop raises. An end
of two subnets is needed for a handler to stop between two entries.

### SiteNetwork

A handler of the global controller, with every call it makes, is one step: an
operator gives the set of states in which it may end, with `ok` false where it
raised, and what was done before it raised stays. `Then` is a sequence that ends
at the first exception, `ForEach` a Python set or dict that is gone through in
an unknown order (`Loop` is the same for a step that is given as a function, so that
proofs can speak of it), `Try` an `except`, `Call` a gRPC call to a switch's controller,
which may be down, be lost before or after its handler, or run into the lock of
a garbage collection. `Commit` ends the handler.

`site` is the state of the managers: at the global controller `known` (the
registered controllers), `graph` (the topology), `owned` (subnets by
controller), `rules` (`_forward_rules`), `endpoints` (concentrators), `wan` (the
subnets of the site's endpoint at the WAN controller, or `NoSite`); at the
switches `edges` (the local topology) and `table` (the IPv4 forwarding table).
`phase` is where the process of a local controller is, `heard` a new link it is
about to report, `aged` the links its garbage collection goes through with the
lock held. Actions of a controller: `Start` (register), `InitSubnets`,
`HandleLldp` and `ReportNew`, `Collect` and `ReportOld`, `Shutdown` and `Stop`.
Actions of the global controller: `CheckControllers`, `NewTunnel`. The
surroundings: `Crash`, `Cable` (plugged or pulled), `CollectLate` (a packet that
came too late for the garbage collection).

| Run | Instance | Shows |
|---|---|---|
| `SiteNetwork_site` | three layouts: a ring of three switches where one thing goes wrong; two switches with a second cable where two things go wrong and the concentrator may come back under a new id; two switches with a fault and a lost call | see below |

* `RulesWritten`: the rules the global controller remembers are those in the tables
  of the registered switches that are up. `PacketsArrive`: between handlers, a
  packet that follows the tables gets to the owner of its subnet wherever the
  topology has a path. Both end with an update that failed half-way (`drifted`):
  its rules stay in the tables, nobody remembers them, and the switch refuses
  them when they are written again; a behaviour is not followed beyond it.
* `Forgotten`: a controller that is not registered has left no edge, subnet, rule
  or endpoint. `late` says that a report or subnets came for a controller after it
  had been removed; those stay for good.
* `EndsKnow`: the two ends of an edge and the global controller agree on it,
  unless a call was lost or ran into the lock of a garbage collection; also when
  a report came late.
* `LinksDiscovered`, `DeadLinksForgotten`: in the end and from then on, a link that
  is up is in the topology and at both ends, and a link that a running end no
  longer hears is not.

*Fairness.* Each step that the intervals, the packets and the handlers bring about
is weakly fair: LLDP packets are sent every 30 s (`HandleLldp`), collection and
the check of the controllers are intervals, a report that was made is handled, a
controller that prepares or shuts down goes on. Each of these steps ends the
state that enables it, so the fairness of a step is stated by `[]<>` of that state's
end, which is cheaper to check. Nothing makes controllers start, crash, or cables
move.

*Bounds.* `faults` counts cable changes, crashes, shutdowns, late packets and
tunnels together, `losses` the lost calls. A ring is the smallest site in which
a path changes when a link goes; a restart needs a crash and an id more; the
second cable between two switches makes the two edges take turns (which is why
`LinksDiscovered` is about the only cable of a pair).

What the model shows besides, at the places the properties step aside from:

* A report of an edge to a controller that has been removed puts the edge into the
  graph before the handler raises (`global_lib/manager/lldp.py:85-88`), and every
  later update of the routes fails on it.
* In a ring, the removal of a crashed controller takes its edges one by one; the
  first removal already computes a path around the other side, through the
  crashed controller, and cannot write its rule there. The handler raises, and the
  controller stays registered.
* At a concentrator the removal handlers run in the order of a Python set: if
  the endpoint is removed after the subnets, the WAN controller raises a
  `KeyError` for the subnets of other sites it never had; the concentrator stays
  registered, and `_check_controllers`, an interval, is not set again
  (`checking`). From then on links of lost controllers stay.
* A garbage collection waits, with the lock, for a call whose handler calls it back:
  the inner call fails after ten seconds and leaves its peer in the context, so that
  later calls go past the lock (`bypass`).
* A controller that starts again within 20 s of a crash finds its predecessor
  registered.

### PortAccess, PortGate, Learning

`PortAccess` is what happens at a switch when a host comes: EAP messages to the
authenticator, the RADIUS server's answers, the entries of the port authorizer,
and a client's way from authentication over registration and BDDP to a MACsec
rule. Packets are handled one after the other by the thread that reads the
switch's stream, so a message is one step with the two seconds it may wait.

`sessions` are the supplicants by port and MAC; `answers` the datagrams in the
socket, each with the number of its request (the authenticator of a response is
computed over the request, `Authentic`); `mapping` is `_port_mapping`, `entries`
the two authorizer tables, written and deleted in the order of `Authorization`
until one is refused (`Done`) or a call to the switch is lost (`LosesWrite`), which
raises and leaves the mapping as it was. `EapResponse` reads the next datagram, whatever
it is; an answer that is `late` is in the socket for the next request. For a
client, `phase` follows `Client.prepare` and `shutdown`: `Start`, `Register`,
`Find`, `RequestRule`, `Stop`, `Leave`; `rule` and `rules` are the keys at both
ends of its link, `slot` which of its two keys the switch sends with. The switch's
`add` may fail, which it swallows, so that `request_rule` hands the client its rule
all the same (`AddFails`); entries that were left behind a closed port refuse every
later one (`AddRefused`, `Stuck`). `RemoveFails` is the same for `remove`. A step has
one fault: an `add` that fails and an answer that is lost do not come together. `SoftLimit`
and `HardLimit` are the limits of the switch. The server and the host (`Verdicts`,
`Decide`, `Move`, `Crash`) are external.

`PortGate` is the abstract specification of the authorizer: a host is let in at a
port only when the server accepts it there, or it is not; it is shut out, there or
where it was before, when the server rejects it or it logs off; no decision about
one host changes anything for another. `GateKept` says that `PortAccess`
implements it, with `open` the entries that let a host's packets in.

`Learning` has the two threads that write the MAC tables, the stream's (`Read`,
`LearnSource`) and the event loop's (`Collect`, `RemoveOld`), one step for every
access to the mapping or to a table, since they do not exclude each other.
`Talk` is a packet of a source the switch does not know at this port; `known` is
the mapping, `dst` and `src` are the tables.

### ClientTunnels

The client on the road: its main thread (`Launch`, `AddEndpoint`, `Quit`,
`RemoveTunnel`, `RemoveEndpoint`, `StopSniffing`, with the `except` as `GiveUp`), the
thread that sniffs DNS requests (`RequestTunnel`), the event loop's refresh
(`RefreshTunnel`); the WAN controller's graph of endpoints and tunnels (`nodes`,
`edges`), the site's concentrator with the operators of `Concentrator`, and the
limits its switch reports (`PacketLimit`) and subnets that change
(`UpdateSubnets`). A request or refresh is three steps: at the WAN controller, at
the site (`InstallAtSite`), and the answer. `kernel` is the client's xfrm state:
policies are found by their subnets, so a second one is refused.

### Hosts

`Hosts` puts the three together: a `plan` says which part a behaviour is about,
who is where, and how many packets and faults it has. The parts share the ports,
the hosts and what the data plane lets through (`Hears`, `Passes`), not a
behaviour: what a client outside does is independent of what a switch learns.

| Run | Instance | Shows |
|---|---|---|
| `Hosts_plans` | four plans: two hosts at two ports, both may become clients, six messages and one fault; two hosts at one port, four messages and two faults (moves, crashes, late or lost answers, lost writes, rules that cannot be added or removed); a host that moves while the switch learns; a client with two names, started twice, with a lost call or a crash | see below |

* `GateKept`: no answer that was late, lost or for another request opens or closes
  a port.
* `AccessWhole`: a host that is authorized has all its entries and another none,
  through repeated authentication, rejection and logoff, as long as it tried one
  port only and has it to itself. A write that is lost in the middle leaves some of
  them (`torn`): nothing at the port but its own entries then, and of a host that is
  not mapped the first few, until an authorization or its end is whole again. An
  authorization repeated over such entries is refused at the first.
* `MacsecAgrees`: a client that is up and its switch hold the same rule, and the
  port is open, as long as no client was moved between the moment it found its port
  and its request (`strayed`): such a request is for the port it left, and replaces
  the rule of whoever is there now; and at ports where every rule could be added
  (`failed` has the others): a client is not told of a failure, and is up with a
  rule its switch does not have. Which key the switch sends with is not part of it.
* `HostsReachable`: a host that goes on sending is reached in the end, at its port
  or by flooding, whichever thread writes first and whatever notifications of
  earlier places are still to be read; as long as no exception ended the
  collection (`aging`).
* `SameTunnel`, `CleanLeave`: client and site use the same tunnel, and a client that
  stops leaves nothing behind, if no call was lost and it looked up one name, in
  season (`disturbed`); `SameTunnel` also before the site's switch has reported a
  limit or run out of registers.

*Fairness.* Hosts go on talking: `Talk` is strongly fair because a host's
notification waits for room in the stream, which other packets may take. The
stream's thread and the event loop are scheduled (weak fairness). Collection is
not fair: no entry has to grow old.

*Bounds.* Six messages are two authentications of identity and challenge with a
start each. Two faults let an answer be late and another host's be read for it,
or a host move away and back. Two notifications let a stale one wait before a
new one. Two starts, three tunnels (request, refresh, request) and seven
registers serve a client that comes back; the pool of the site runs out in the
same run.

What the model shows besides:

* One late answer leaves the socket one datagram behind for good: every later
  request reads its predecessor's answer, which is not authentic, and nobody is
  authenticated any more. (A host is never let in by it.)
* The second host at a port stops at the entry for the switch's own address, which
  the first has written, and is not mapped. A host that moved is looked up at its
  old port only if it logs off there (`port_authorizer.py:103`).
* A crashed client's port stays encrypted, its EAPOL answers too, so that the host
  does not get in again there. A client's rule is never renewed: its edge is not
  in the topology. After the hard packet limit the switch takes its second key,
  which is random.
* A client logs off before it asks to remove its rule, so the request may not
  get through.
* The data plane never refreshes an entry, so all of them age out; the first
  exception of a collection, which a notification at the wrong time is enough for,
  ends it for good, and a host that left for one packet and came back may then keep
  an entry for the wrong port.
* A DNS request before `connect`, or while the client disconnects, leaves a node
  without an endpoint in the WAN controller's graph, on which every later request
  raises. An answer that comes during the loop of `disconnect` ends it.
* Two names of one site: the WAN controller forgets the first tunnel, the site
  refuses the second, and after the refresh the client sends with a tunnel the
  site does not have.
* A refresh happens once, and changes nothing that carries traffic: the site takes
  the tunnel for its own only if it has it, and the client installs again what it
  had.

## Proofs

Each invariant below holds for every value of the constants that the named
assumptions of the modules allow. Those say: names differ, bounds are natural
numbers, there are finitely many threads (`LocalMacsec`) or controllers, links
and subnets (`SiteNetwork`), an edge has two ends and a pair two sites, no task is
scheduled twice before the loop starts. An invariant was first checked with TLC
on the instance of its run, then strengthened until every action keeps it; a
proof has one lemma per action.

Several proof attempts failed for a reason, which TLC then showed on an instance
larger than the run's; the properties say now what is true:

* `MacsecAgrees` was false after a client had been moved between finding its port
  and asking for a rule (17 steps, eight packets): `strayed`.
* `CurrentKeyInstalled`, once stated of every port the switch lets through both ways, was
  false after two lost calls: an `add` over a rule loses its last write and the
  first one of its rollback, and the port stays open with a key nobody remembers.
  It is stated of the ports the authorizer holds open.
* `RenewalArmed`, once stated of every rule, was false when registers run out: an
  `add` over a rule takes the entries away, keeps the old rule, and its renewal is
  refused.
* `WriteRules` in the model let an update write two rules of one switch for one
  subnet, which the switch refuses; it takes a subnet with two owners and five
  controllers. `Taken` says so now.
* In the other direction, `EndsKnow` had been stated without late reports and holds
  with them.

`LocalMacsecProofs`, for any number of threads, addresses, ports, registers,
calls and failures:

* `TypeInvariance`: `Spec => []TypeOK`. Inductive as it stands, because
  `LocalsOK` says what each step needs of a thread's locals.
* `HandlerExclusion` and `NeverForcedUnsecured`: a port other than an extern
  port that is forced in either direction has both MACsec entries. The property
  alone is not inductive: `remove` deletes an entry knowing only its program
  counter. `IInv` adds, for each step of a handler, what it may rely on
  (`StepFacts`), and which pairs of handlers can be past their first write on one
  port (`OneChange`, `Together`). The argument is one lemma per action: an
  action either does not touch a port, or succeeds only if the table was as the
  switch demands, which by `StepFacts` rules the other threads out.
* `RegistersApart`, `RememberedKeys`, `OpenEdgesArmed`, `KeysOverlap`:
  `RegistersExclusive`, `CurrentKeyInstalled`, `RenewalArmed`, `RenewalOverlaps`,
  with handlers one at a time, a port for each neighbour and none of them an extern
  port (`Serial`). That is what the controller's lock is meant to give, and false
  without it. `RegInv` says who owns the register a handler holds or an entry
  counts in; `KeyInv` that a handler on its way to opening a port has written its
  key to both entries, and that a renewal writes the old key next to the new one;
  `ArmInv` follows the time limit through `add`, the notification and the renewal,
  as long as the loop runs;
  `SlotInv` says in which slot the remembered key is. None of the four limits lost
  calls, but `ArmInv` and `SlotInv` end with the first of them.
* `OpenEdgesKeepLooping`: `OpenEdgesKeepLoop`, under the same assumptions. An edge
  whose port is open has a rule, a register, a key state and both entries, so that
  neither `RefuseRenew` nor a refused `Modify` can be about it.

`EventSystemProofs`, for any threads and tasks:

* `LockDiscipline`: `Spec => []LockIsGivenBack`, with timeouts and exceptions
  anywhere. The strengthening `LockInv` ties `depth` to the place of the owner
  and keeps `forcing` threads and workers that bypass the lock from owning it
  where they should not.
* `LockExcludes`: `Spec => []LockedSectionsExclude`, if waits do not time out and
  RPCs do not raise. Not inductive, since exclusion does not say who owns the
  lock: `Held` adds that a thread inside its section is the owner, twice inside
  `set_timeout`, and that nobody forces the lock. It needs `LockInv`.
* `LoopGoesOn`: `Spec => []LoopSurvives` under the same assumptions, since the
  loop then owns the lock wherever it releases it. Both are needed: with a timeout
  the lock is forced from its owner, and with an RPC that raises the loop releases a
  lock it gave away.
* `EventTypes`: `Spec => []TypeOK`, of which the hard part is that no task is queued
  twice: `TaskInv` says that a task a thread carries is in no queue and carried by
  no other.
* `IntervalsLast`: `Spec => IntervalKept`, if waits do not time out and tasks do not
  raise.

`LinkKeysProofs`, for any number of workers, updates, rules and lost calls:

* `LinkKeysTypes`: `Spec => []TypeOK`, which no run checks besides.
* `EndsTogether`: `Spec => []InstalledTogether`. `Together` says what each thread
  halfway through has left at its first end; at most one is halfway, for two would
  meet at an end. As long as no call fails at a switch, an end has a rule exactly
  when its port is open.
* `RenewalsKeepPhase`: `Spec => []SamePhase`, by counting: each renewal toggles each
  end once, so the ends are in step exactly when an even number of renewals is half
  done (`Phase`).
* `SerialEnds`: `Spec => []SerialEndsAgree /\ []CommonSlot`. `Serial` says how far
  ahead the first end is halfway through an `add` or a renewal.

`TunnelsProofs`, for any number of threads, subnets, registers and tunnels:

* `TunnelTypes`: `Spec => []TypeOK`. It needs `EdgeFirst`, that nothing is written
  anywhere before a tunnel has been saved: a notification begins by
  disconnecting the tunnel that is remembered, and there has to be one.
* `InstalledAreDecrypted`: `Spec => []InstalledDecrypts`. One lemma for each
  operator of `Concentrator` says which states its outcomes are in, and that
  they keep what is remembered equal to what is decrypted; `CallsKeep` carries
  that through a call that returns, is lost, or loses a write. Nothing is assumed
  of calls that meet, beyond that each is one step.
* `EndsAreWhole`: `Spec => []WholeTunnel`. As long as subnets stay, every tunnel that
  a thread works on, that is remembered or that an entry belongs to is between the
  subnets there are (`Copies`), hence `new`, `remove` and `renew` go through all
  entries or none.
* `SitesAgree`, `WanKnows`: `Spec => []SerialAgree`, `Spec => []WanRemembers`. With one
  operation at a time, `Halfway` says how the first end differs from the second in
  its middle; the ends agree on the registers left, too, without which one `new`
  could fail alone.

`PortAccessProofs`, for any number of hosts, ports, packets, rules and faults, and
`HostsProofs`:

* `AccessTypes`: `AccessSpec => []AccessTypeOK`.
* `PortAccessKeepsGate`: `AccessSpec => GateKept`, the refinement: each action opens a
  port to the host that was accepted, closes it to hosts that were rejected or logged
  off, or maps to a stutter. What makes it true is in `AccessInv`: whatever is in the
  socket answers an earlier request, so that no answer is authentic but the request's
  own.
* `AccessIsWhole`: `AccessSpec => []AccessWhole`, with `TriedFirst`: sessions and
  mappings are only where a host tried. The first `k` entries and the first `n` of an
  authorization that repeats are again the first few (`FirstFew`), which is why
  nothing else is left of a host that is not mapped.
* `ClientsAgree`: `AccessSpec => []MacsecAgrees`, with `OneRule`: no two clients that
  have a rule are at one port, since a port with a rule lets no request of another
  through. The ports at which a rule could not be added (`failed`) stay out of it, and
  what happens there concerns no other port.
* `HostsAccess`, `HostsSafe`: `Hosts` implements `PortAccess` (every step of the
  composition is one of it or leaves its variables alone), so the four hold there.
* `HostsTypes`: `Spec => []TypeOK` of the composition. Types alone are not inductive for
  `ClientTunnels`: what is refreshed or removed must have a tunnel (`Started`), since
  the kernel gets what the client had.
* `ClientAndSite`, `ClientLeaves`: `Spec => []SameTunnel`, `Spec => []CleanLeave`, with
  `Quiet`, which says what a client that nothing disturbs, the WAN controller and the
  site know of one tunnel between any two steps. The site has the tunnel that the WAN
  controller remembers or none (`SiteOK`); if it has none although it was told, its
  registers have run out, so that it does not take the tunnel of a refresh either, which
  nobody remembers (`FreeOK`); the tunnel that is remembered was never reported
  (`NumbersOK`), so that a soft limit replaces it and the hard one is not reached; until
  a limit is reported, the client's policy, and what a refresh would install, are for
  that tunnel (`KernelOK`). A site needs a subnet for that: where there is none, no entry
  would refuse the tunnel of a refresh, and it would stay after the client has left.
  `Subnets # {}` is assumed since a name is resolved to an endpoint with a subnet that
  has its address (`_resolve_endpoint`).

`SiteNetworkProofs`, for any number of controllers, links, concentrators, subnets,
faults and lost calls, with subnets that have several owners and any topology. A
handler is a set of outcomes here, so there is a lemma for each operator (what holds
of all its outcomes) up to one for each action. `SiteInv` is

* `Base`: the tables of the registered switches that are up hold the remembered rules
  (`Matches`), and nothing is known of an id that never started (`Blank`), so that a
  switch registers with an empty table and nothing remembered about it;
* `Current`: the remembered rules are those the topology and the subnets ask for
  (`Goal`), both unless an update failed on its way;
* `Agree`: the ends of an edge and the topology agree, unless a call was lost or ran
  into a lock;
* `Clear`: of controllers that are not registered nothing is left, unless something
  came late.

`SiteTypes`, `RulesAreWritten`, `GoneAreForgotten` and `EndsAgree` follow from these.
`PacketsReachOwners` follows with some geometry: `BallsGrow`,
`BallsShift` and `BallsSymmetric` say that distances grow by one edge at a time and do
not depend on the direction, `HopNearer` that a rule leads one edge nearer to an owner,
and so the distance falls with every hop until it is 0.

Loops over sets in an unknown order, distances and traces are recursive functions over
`0..n`. The library's induction takes an operator as a parameter and is out of the
provers' reach; `RecursionLemmas` gets both from finite sets instead: a set of natural
numbers has a least element, since otherwise the numbers below it would be a finite
set mapped into itself with one element left out; so a property, given as the *set* of
the numbers that have it, holds up to any bound (`Induction`), and a function that is
defined step by step exists (`Recursion`). `LoopEnds` is what that says of a loop: what
is kept by its rounds, as a set of pairs of what is left and the state, holds at its
end of nothing left.

Model-checked only:

* Liveness, which the provers cannot do: `AddInstalls`, `TaskRuns`, `StopEnds`,
  `CallReturns`, `LinksDiscovered`, `DeadLinksForgotten`, `HostsReachable`.
* That the handlers of `LocalMacsec` implement the single steps of `LinkKeys`: the two
  share no specification.

## Findings

1. `LocalMacsec_rollback`: the rollback of a failed `add` calls `remove`, whose
   first write is refused as long as the port was not opened, so that entries
   stay and the retry is refused as well.
2. `LocalMacsec_loop`: `remove` leaves the time limit of its rule behind. When it
   runs out although the global controller still knows the edge, as after a rollback
   at the global controller, the renewal raises, and the event loop of the switch
   ends with all other limits set.
3. `EventSystem_exclusion`: a method runs without the lock while another call
   is under way.
4. `Tunnels_disconnect`: `disconnect` keeps the tunnel in the WAN controller's
   graph, and the next change of a subnet installs it again.

## Not modelled

* P4 externs (cryptography in C++), protobuf and P4Runtime conversions, logger,
  credentials, settings, commands of the REPL, DNS resolution at the WAN
  controller and the example network: no protocol state, or only state of the
  components above.
* The pipeline as such: parsing, packet counters and forwarding. Packet limits are
  events wherever they matter; how a counter gets there is arithmetic of the data
  plane, and the order of packets under way against a change of keys is not
  followed.
* Connecting to a switch and installing its pipeline; starting and stopping a
  server.
* `renew_rule` of the global controller and forced unauthorization of a port,
  which nothing calls.
* A site with several concentrators of one tunnel, three or more sites, and a site
  that leaves with its tunnels up.
* Handlers of a global controller that overlap on the topology: `LinkKeys` has them
  for the rules of an edge, `SiteNetwork` takes handlers one after the other.

## Plan

1. `EventSystem`, `LocalMacsec`, `LinkKeys` with the proofs above (done).
2. `Concentrator`, `Tunnels`: one pair of sites (done).
3. `SiteNetwork`: registration, topology, locks of controllers that call each
   other, routing (done).
4. `PortAccess` with its abstraction `PortGate`, `Learning`, `ClientTunnels`,
   `Hosts` (done).
5. Theorems on the safety of `LinkKeys`, `EventSystem`, `Tunnels`, `PortAccess`,
   `SiteNetwork`, and on `LocalMacsec` with handlers one at a time (done).
6. Theorems on `Learning`, `ClientTunnels` and `Hosts`, with which every invariant of
   the passing runs is proved (done).
7. Refinements: `LocalMacsec`'s handlers implement the single steps of `LinkKeys`;
   `EventSystem`, with no timeouts, implements a lock.
