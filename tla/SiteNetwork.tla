----------------------------- MODULE SiteNetwork -----------------------------
(***************************************************************************)
(* The network of a site: the controllers of its switches, which register  *)
(* at the global controller, tell it the links they hear LLDP packets on   *)
(* and collect those they no longer hear; and the global controller, which *)
(* keeps the controllers, the topology, the subnets behind each switch,    *)
(* the forwarding rules it wrote and the site's endpoint at the WAN        *)
(* controller.                                                             *)
(*                                                                         *)
(* A handler of the global controller is one step, with the calls it makes *)
(* to the switches' controllers and the WAN controller: an operator gives  *)
(* the set of states it may end in, with ok false where it raised.  What   *)
(* was done before it raised stays.  Nothing is said of handlers that      *)
(* overlap (EventSystem, LinkKeys).  What runs next to the handlers: a     *)
(* report that waits to be handled, a garbage collection that holds the    *)
(* lock of its controller while it reports, and controllers that come and  *)
(* go.                                                                     *)
(***************************************************************************)
EXTENDS Naturals, FiniteSets

CONSTANTS
    Ids,            \* the ids of controllers; a restart registers a new one
    Switches, SwitchOf,
    Concentrators,  \* the switches where tunnels end
    Links, EndsOf,  \* the cables there may be between two switches
    Subnets,
    HomeOf,         \* the switch of a subnet, or Elsewhere for another site's
    Elsewhere, NoEdge, NoRule, NoSite,
    Layouts         \* the sites to look at, with their bounds

ASSUME SiteAssumption ==
    /\ IsFiniteSet(Ids) /\ IsFiniteSet(Links) /\ IsFiniteSet(Subnets)
    /\ SwitchOf \in [Ids -> Switches]
    /\ EndsOf \in [Links -> SUBSET Switches]
    /\ \A l \in Links : Cardinality(EndsOf[l]) = 2
    /\ HomeOf \in [Subnets -> Switches \union {Elsewhere}]
    /\ Layouts \subseteq [ids : SUBSET Ids, links : SUBSET Links, plugged : SUBSET Links,
                           faults : Nat, losses : Nat]

Edge == [link : Links, ends : {{i, j} : i, j \in Ids}]

Rule == [src : Ids, dst : Ids, link : Links, net : Subnets]

ASSUME SiteNilAssumption == NoEdge \notin Edge /\ NoRule \notin Rule

VARIABLES
    layout,    \* the site: the ids that may come, the cables there are and are
               \* plugged in at first, the bounds on cable changes, crashes,
               \* shutdowns, late packets and tunnels together, and on lost calls
    phase,     \* what the process of each controller does
    cables,    \* the cables that are plugged in
    heard,     \* the new link a controller reports
    aged,      \* the links its garbage collection still has to report
    checking,  \* whether the global controller's check of controllers goes on
    site,      \* the state of the managers, at the global controller and the switches
    \* history and bounds
    faults,
    late       \* whether a link was reported of a controller that is not registered

vars == <<layout, phase, cables, heard, aged, checking, site, faults, late>>

Phases == {"off", "prepare", "on", "leaving", "stuck", "gone"}

\* Its server answers.
Up(i) == phase[i] \in {"prepare", "on", "leaving", "stuck"}

InBudget == faults < layout.faults

Between(l, i, j) == {SwitchOf[i], SwitchOf[j]} = EndsOf[l]

\* i hears the packets of j on l.
Audible(l, i, j) == l \in cables /\ Between(l, i, j) /\ phase[j] = "on"

\* The states the managers may be in, at the global controller and the switches.
Sites ==
    [ok : BOOLEAN, known : SUBSET Ids, graph : SUBSET Edge,
     owned : [Ids -> SUBSET Subnets], rules : SUBSET Rule,
     endpoints : SUBSET Ids, wan : {NoSite} \union SUBSET Subnets,
     edges : [Ids -> SUBSET Edge],
     table : [Ids -> [Subnets -> Rule \union {NoRule}]],
     bypass : SUBSET Ids, lost : Nat, drifted : BOOLEAN]

-----------------------------------------------------------------------------
(* Handlers as operators.                                                  *)

Raise(s) == [s EXCEPT !.ok = FALSE]

\* What follows is done only if nothing was raised.
Then(outcomes, Op(_)) == UNION {IF s.ok THEN Op(s) ELSE {s} : s \in outcomes}

\* A round of a loop handles one of those that are left; after an exception, none.
Round(pass, step) ==
    UNION {{[left |-> pass.left \ {x}, site |-> t] :
              t \in IF pass.site.ok THEN step[x][pass.site] ELSE {pass.site}} : x \in pass.left}

Loop(S, s, step) ==
    LET after[n \in 0..Cardinality(S)] ==
          IF n = 0 THEN {[left |-> S, site |-> s]}
          ELSE UNION {Round(pass, step) : pass \in after[n - 1]}
    IN  {pass.site : pass \in after[Cardinality(S)]}

\* For each element of a set, in an order nobody knows.
ForEach(S, s, Op(_, _)) == Loop(S, s, [x \in S |-> [t \in Sites |-> Op(t, x)]])

Try(outcomes) == {[s EXCEPT !.ok = TRUE] : s \in outcomes}

\* A garbage collection holds the lock of i; a call that times out on it leaves
\* its peer in the context, and later calls go past the lock.
Locked(s, i) == aged[i] # {} /\ i \notin s.bypass

Lost(s) == [s EXCEPT !.lost = @ + 1]

\* A call whose handler turns s into t may be lost before or after.
MayBeLost(s, t) == IF s.lost < layout.losses THEN {Raise(Lost(s)), Raise(Lost(t))} ELSE {}

Call(s, i, t) ==
    IF ~Up(i) THEN {Raise(s)}
    ELSE IF Locked(s, i) THEN {Raise([s EXCEPT !.bypass = @ \union {i}])}
    ELSE {t} \union MayBeLost(s, t)

\* A call to a server that is up.
CallLive(s, t) == {t} \union MayBeLost(s, t)

-----------------------------------------------------------------------------
(* Routes.                                                                 *)

Neighbours(graph, i) == {j \in Ids \ {i} : \E e \in graph : e.ends = {i, j}}

\* Who is how far from i.
Within(graph, i) ==
    LET ball[n \in 0..Cardinality(Ids)] ==
          IF n = 0 THEN {i}
          ELSE ball[n - 1] \union UNION {Neighbours(graph, j) : j \in ball[n - 1]}
    IN  ball

Reach(graph, i) == Within(graph, i)[Cardinality(Ids)]

\* The next one on the shortest path from j to i; the same one in every update.
NextHop(graph, i, j) ==
    LET ball == Within(graph, i)
        dist == CHOOSE n \in 1..Cardinality(Ids) : j \in ball[n] \ ball[n - 1]
    IN  CHOOSE k \in Neighbours(graph, j) : k \in ball[dist - 1]

Goal(s) ==
    UNION {UNION {{[src |-> j, dst |-> NextHop(s.graph, i, j), net |-> n,
                    link |-> (CHOOSE e \in s.graph : e.ends = {j, NextHop(s.graph, i, j)}).link] :
                     j \in Reach(s.graph, i) \ {i}} : n \in s.owned[i]} : i \in s.known}

\* A path leads to a controller that is not registered.
Trapped(s) == \E i \in s.known : s.owned[i] # {} /\ ~(Reach(s.graph, i) \subseteq s.known)

\* An update that fails on its way leaves rules on switches that nobody remembers,
\* and later updates fail on these: the site is not followed any further.
Drift(s) == [s EXCEPT !.drifted = TRUE]

Fail(s) == Raise(Drift(s))

\* The tables after a write or delete of rules.
Entry(s, i, n, rules, rule) == IF \E r \in rules : r.src = i /\ r.net = n THEN rule ELSE s.table[i][n]

Deleted(s, rules) ==
    [s EXCEPT !.table = [i \in Ids |-> [n \in Subnets |-> Entry(s, i, n, rules, NoRule)]]]

Written(s, rules) ==
    [s EXCEPT !.table = [i \in Ids |-> [n \in Subnets |->
        Entry(s, i, n, rules, CHOOSE r \in rules : r.src = i /\ r.net = n)]]]

LockedOut(s) == {i \in s.known : Up(i) /\ Locked(s, i)}

\* Wrong on purpose: rules are forgotten, not deleted.
DeleteRules_Forget(s, old) == {s}

\* Deletes that fail are passed over, but for a source that is not registered.
DeleteRules(s, old) ==
    LET there  == {r \in old : r.src \in s.known /\ Up(r.src)}
        locked == {r.src : r \in there} \intersect LockedOut(s)
    IN  IF (\E r \in old : r.src \notin s.known) THEN {Fail(s)}
        ELSE IF locked # {} THEN {Drift([s EXCEPT !.bypass = @ \union locked])}
        ELSE {Deleted(s, there)}
             \union IF s.lost < layout.losses /\ there # {} THEN {Drift(Lost(s))} ELSE {}

\* There is a rule for the subnet, or two are to be written.
Taken(s, r, new) ==
    s.table[r.src][r.net] # NoRule \/ \E q \in new \ {r} : q.src = r.src /\ q.net = r.net

\* A write that fails ends the update; rules are written by then that nobody
\* remembers.
WriteRules(s, new) ==
    LET barred == {r.src : r \in new} \intersect LockedOut(s)
    IN  IF barred # {} THEN {Fail([s EXCEPT !.bypass = @ \union {i}]) : i \in barred}
        ELSE IF \E r \in new : ~Up(r.src) \/ Taken(s, r, new) THEN {Fail(s)}
        ELSE {Written(s, new)}
             \union IF s.lost < layout.losses /\ new # {} THEN {Fail(Lost(s))} ELSE {}

UpdateRoutes(s) ==
    IF s.drifted THEN {s}
    ELSE IF Trapped(s) THEN {Fail(s)}
    ELSE LET goal == Goal(s)
         IN  Then(Then(DeleteRules(s, s.rules \ goal),
                       LAMBDA t : WriteRules(t, goal \ s.rules)),
                  LAMBDA t : {[t EXCEPT !.rules = goal]})

AddSubnetSilent(s, i, n) == UpdateRoutes([s EXCEPT !.owned[i] = @ \union {n}])

\* The WAN controller passes over a site that has no endpoint.
WanAdd(s, n) ==
    CallLive(s, IF s.wan = NoSite THEN s ELSE [s EXCEPT !.wan = @ \union {n}])

WanRemove(s, n) ==
    IF s.wan = NoSite THEN CallLive(s, s)
    ELSE IF n \in s.wan THEN CallLive(s, [s EXCEPT !.wan = @ \ {n}])
    ELSE {Raise(s)}

AddSubnet(s, i, n) == Then(AddSubnetSilent(s, i, n), LAMBDA t : WanAdd(t, n))

RemoveSubnet(s, i, n) ==
    Then(UpdateRoutes([s EXCEPT !.owned[i] = @ \ {n}]), LAMBDA t : WanRemove(t, n))

-----------------------------------------------------------------------------
(* The topology.                                                           *)

SamePair(edges, e) == {f \in edges : f.ends = e.ends}

\* There is one edge between two controllers.
Put(edges, e) == (edges \ SamePair(edges, e)) \union {e}

\* Wrong on purpose: the routes are left to the next update.
DropEdge_Later(s, e) == {[s EXCEPT !.graph = @ \ SamePair(@, e)]}

DropEdge(s, e) == UpdateRoutes([s EXCEPT !.graph = @ \ SamePair(@, e)])

PutEdge(s, e) == UpdateRoutes([s EXCEPT !.graph = Put(@, e)])

SetEdge(s, e) ==
    Then(IF e \in s.graph THEN DropEdge(s, e) ELSE {s}, LAMBDA t : PutEdge(t, e))

AddAt(s, i, e) == Call(s, i, [s EXCEPT !.edges[i] = Put(@, e)])

\* Wrong on purpose: only the end that reported it learns of the edge.
TellEnds_First(s, i, j, e) == AddAt(s, i, e)

TellEnds(s, i, j, e) == Then(AddAt(s, i, e), LAMBDA t : AddAt(t, j, e))

\* i reports e, which leads to j.
AddEdge(s, i, j, e) ==
    Then(SetEdge(s, e),
         LAMBDA t : IF e.ends \subseteq t.known THEN TellEnds(t, i, j, e) ELSE {Raise(t)})

\* An end that cannot be reached or does not have the edge is passed over.
ForgetAt(s, i, e) ==
    IF i \notin s.known THEN {Raise(s)}
    ELSE Try(Call(s, i, [s EXCEPT !.edges[i] = @ \ SamePair(@, e)]))

\* Wrong on purpose: the ends keep the edge.
RemoveEdge_Global(s, e) == IF SamePair(s.graph, e) = {} THEN {Raise(s)} ELSE DropEdge(s, e)

RemoveEdge(s, e) ==
    Then(ForEach(e.ends, s, LAMBDA t, i : ForgetAt(t, i, e)),
         LAMBDA t : IF SamePair(t.graph, e) = {} THEN {Raise(t)} ELSE DropEdge(t, e))

-----------------------------------------------------------------------------
(* Controllers.                                                            *)

AllSubnets(s) == UNION {s.owned[i] : i \in Ids}

IsConcentrator(i) == SwitchOf[i] \in Concentrators

\* The first concentrator makes the site an endpoint.
AddEndpoint(s, i) ==
    LET t == [s EXCEPT !.endpoints = @ \union {i}]
    IN  Then(CallLive(t, t),
             LAMBDA u : IF u.endpoints = {i} THEN CallLive(u, [u EXCEPT !.wan = AllSubnets(u)])
                        ELSE {u})

RemoveEndpoint(s, i) ==
    LET t == [s EXCEPT !.endpoints = @ \ {i}]
    IN  IF i \notin s.endpoints THEN {Raise(s)}
        ELSE IF t.endpoints # {} THEN {t}
        ELSE IF s.wan = NoSite THEN {Raise(t)}
        ELSE CallLive(t, [t EXCEPT !.wan = NoSite])

AddController(s, i) ==
    LET t == [s EXCEPT !.known = @ \union {i}]
    IN  IF IsConcentrator(i) THEN AddEndpoint(t, i) ELSE {t}

Handlers == {"lldp", "routing", "ipsec"}

HandleRemove(s, i, handler) ==
    CASE handler = "lldp"    -> ForEach({e \in s.graph : i \in e.ends}, s, RemoveEdge)
      [] handler = "routing" -> ForEach(s.owned[i], s, LAMBDA t, n : RemoveSubnet(t, i, n))
      [] handler = "ipsec"   -> IF IsConcentrator(i) THEN RemoveEndpoint(s, i) ELSE {s}

\* Wrong on purpose: it is removed whether or not the handlers raise.
RemoveController_Anyway(s, i) ==
    {[t EXCEPT !.known = @ \ {i}] : t \in ForEach(Handlers, s, LAMBDA t, h : HandleRemove(t, i, h))}

\* The handlers come first: one that raises leaves the controller registered.
RemoveController(s, i) ==
    IF i \notin s.known THEN {Raise(s)}
    ELSE Then(ForEach(Handlers, s, LAMBDA t, h : HandleRemove(t, i, h)),
              LAMBDA t : {[t EXCEPT !.known = @ \ {i}]})

\* Wrong on purpose: an exception outlives its handler.
Commit_Raised(s) == site' = s

\* The handler has ended in s.
Commit(s) == site' = [s EXCEPT !.ok = TRUE]

-----------------------------------------------------------------------------
(* The controller of a switch.                                             *)

\* Its server is started; the switch's tables are empty.
Start(i) ==
    /\ phase[i] = "off" /\ i \in layout.ids
    /\ \A j \in Ids \ {i} : SwitchOf[j] = SwitchOf[i] => ~Up(j)
    /\ \E s \in AddController(site, i) :
         Commit(s) /\ phase' = [phase EXCEPT ![i] = IF s.ok THEN "prepare" ELSE "stuck"]
    /\ UNCHANGED <<cables, heard, aged, checking, faults, late>>

Own(i) == {n \in Subnets : HomeOf[n] = SwitchOf[i]}

\* A registered controller adds its subnets and then listens; if that raises it
\* goes no further, but its server answers.
InitSubnets(i) ==
    /\ phase[i] = "prepare"
    /\ \E s \in ForEach(Own(i), site, LAMBDA t, n : AddSubnet(t, i, n)) :
         Commit(s) /\ phase' = [phase EXCEPT ![i] = IF s.ok THEN "on" ELSE "stuck"]
    /\ late' = (late \/ i \notin site.known)
    /\ UNCHANGED <<cables, heard, aged, checking, faults>>

Shutdown(i) ==
    /\ phase[i] = "on" /\ aged[i] = {} /\ InBudget
    /\ \E s \in RemoveController(site, i) : Commit(s)
    /\ phase' = [phase EXCEPT ![i] = "leaving"]
    /\ faults' = faults + 1
    /\ UNCHANGED <<cables, heard, aged, checking, late>>

Gone(i) == phase' = [phase EXCEPT ![i] = "gone"] /\ aged' = [aged EXCEPT ![i] = {}]

Stop(i) ==
    /\ phase[i] = "leaving"
    /\ Gone(i)
    /\ UNCHANGED <<cables, heard, checking, site, faults, late>>

Crash(i) ==
    /\ Up(i) /\ InBudget /\ faults' = faults + 1
    /\ Gone(i)
    /\ UNCHANGED <<cables, heard, checking, site, late>>

\* A packet on l arrives; only a link that i does not know is reported.
HandleLldp(i, l) ==
    /\ phase[i] \in {"on", "leaving"} /\ heard[i] = NoEdge
    /\ \E j \in Ids \ {i} :
         LET e == [link |-> l, ends |-> {i, j}]
         IN  /\ Audible(l, i, j) /\ e \notin site.edges[i]
             /\ heard' = [heard EXCEPT ![i] = e]
    /\ UNCHANGED <<phase, cables, aged, checking, site, faults, late>>

ReportNew(i) ==
    LET e == heard[i]
        j == CHOOSE j \in e.ends : j # i
    IN  /\ e # NoEdge
        /\ \E s \in AddEdge(site, i, j, e) : Commit(s)
        /\ heard' = [heard EXCEPT ![i] = NoEdge]
        /\ late' = (late \/ ~(e.ends \subseteq site.known))
        /\ UNCHANGED <<phase, cables, aged, checking, faults>>

Silent(i, e) == \A j \in e.ends \ {i} : ~Audible(e.link, i, j)

\* Wrong on purpose: collected are the edges that are heard.
Old_Inverted(i) == {e \in site.edges[i] : ~Silent(i, e)}

Old(i) == {e \in site.edges[i] : Silent(i, e)}

\* The edges that were silent for 30 s.
Collect(i) ==
    /\ phase[i] = "on" /\ aged[i] = {}
    /\ Old(i) # {} /\ aged' = [aged EXCEPT ![i] = Old(i)]
    /\ UNCHANGED <<phase, cables, heard, checking, site, faults, late>>

\* A packet is late, and the edge is taken for silent.
CollectLate(i) ==
    /\ phase[i] = "on" /\ aged[i] = {}
    /\ InBudget /\ faults' = faults + 1
    /\ \E e \in site.edges[i] \ Old(i) : aged' = [aged EXCEPT ![i] = Old(i) \union {e}]
    /\ UNCHANGED <<phase, cables, heard, checking, site, late>>

ReportOld(i) ==
    /\ \E e \in aged[i] :
         /\ \E s \in RemoveEdge(site, e) : Commit(s)
         /\ aged' = [aged EXCEPT ![i] = @ \ {e}]
    /\ UNCHANGED <<phase, cables, heard, checking, faults, late>>

-----------------------------------------------------------------------------
(* The global controller and the surroundings.                             *)

\* Every 20 s the controllers that do not answer are removed; a handler that
\* raises ends the check for good.
CheckControllers ==
    /\ checking
    /\ \E unlucky \in SUBSET {i \in site.known : Up(i)} :
         /\ Cardinality(unlucky) <= layout.losses - site.lost
         /\ LET gone == {i \in site.known : ~Up(i)} \union unlucky
                s0   == [site EXCEPT !.lost = @ + Cardinality(unlucky)]
            IN  /\ gone # {}
                /\ \E s \in ForEach(gone, s0, RemoveController) : Commit(s) /\ checking' = s.ok
    /\ UNCHANGED <<phase, cables, heard, aged, faults, late>>

\* A tunnel of another site's subnet comes up at the concentrators.
NewTunnel(n) ==
    /\ HomeOf[n] = Elsewhere /\ InBudget /\ faults' = faults + 1
    /\ site.wan # NoSite
    /\ \E s \in ForEach({i \in site.known : IsConcentrator(i)}, site,
                        LAMBDA t, i : AddSubnetSilent(t, i, n)) : Commit(s)
    /\ UNCHANGED <<phase, cables, heard, aged, checking, late>>

Cable(l) ==
    /\ l \in layout.links /\ InBudget /\ faults' = faults + 1
    /\ cables' = IF l \in cables THEN cables \ {l} ELSE cables \union {l}
    /\ UNCHANGED <<phase, heard, aged, checking, site, late>>

-----------------------------------------------------------------------------
Init ==
    /\ phase = [i \in Ids |-> "off"]
    /\ layout \in Layouts /\ cables = layout.plugged
    /\ heard = [i \in Ids |-> NoEdge] /\ aged = [i \in Ids |-> {}]
    /\ checking = TRUE /\ faults = 0 /\ late = FALSE
    /\ site = [ok |-> TRUE, known |-> {}, graph |-> {}, owned |-> [i \in Ids |-> {}],
               rules |-> {}, endpoints |-> {}, wan |-> NoSite,
               edges |-> [i \in Ids |-> {}],
               table |-> [i \in Ids |-> [n \in Subnets |-> NoRule]],
               bypass |-> {}, lost |-> 0, drifted |-> FALSE]

Step(i) ==
    \/ Start(i) \/ InitSubnets(i) \/ Shutdown(i) \/ Stop(i) \/ Crash(i)
    \/ ReportNew(i) \/ Collect(i) \/ CollectLate(i) \/ ReportOld(i)
    \/ \E l \in Links : HandleLldp(i, l)

Next ==
    /\ ~site.drifted
    /\ UNCHANGED layout
    /\ \/ \E i \in Ids : Step(i)
       \/ CheckControllers
       \/ \E n \in Subnets : NewTunnel(n)
       \/ \E l \in Links : Cable(l)

\* Some link that i does not know can be heard.
Unheard(i) ==
    /\ phase[i] \in {"on", "leaving"} /\ heard[i] = NoEdge
    /\ \E l \in Links, j \in Ids \ {i} :
         Audible(l, i, j) /\ [link |-> l, ends |-> {i, j}] \notin site.edges[i]

Uncollected(i) == phase[i] = "on" /\ aged[i] = {} /\ Old(i) # {}

Unchecked == checking /\ \E i \in site.known : ~Up(i)

\* Packets come on every link, at least every 30 s; the garbage collection and
\* the check of the controllers are intervals; a call that was made is handled,
\* and what prepares or shuts down goes on.
\* Each of these steps is weakly fair.  It ends the state that enables it and
\* nothing else does for long, so the fairness is stated by that state.
Fairness ==
    /\ \A i \in Ids :
        /\ []<>(site.drifted \/ ~Unheard(i))
        /\ []<>(site.drifted \/ ~Uncollected(i))
        /\ []<>(site.drifted \/ heard[i] = NoEdge)
        /\ []<>(site.drifted \/ aged[i] = {})
        /\ []<>(site.drifted \/ phase[i] \notin {"prepare", "leaving"})
    /\ []<>(site.drifted \/ ~Unchecked)

Spec == Init /\ [][Next]_vars /\ Fairness

-----------------------------------------------------------------------------
(* Properties.                                                             *)

\* Types and bounds.  No exception outlives its handler: the server catches it.
TypeOK ==
    /\ layout \in Layouts
    /\ phase \in [Ids -> Phases]
    /\ cables \subseteq Links
    /\ heard \in [Ids -> Edge \union {NoEdge}]
    /\ aged \in [Ids -> SUBSET Edge]
    /\ site \in Sites /\ site.ok /\ site.lost <= layout.losses
    /\ checking \in BOOLEAN /\ faults \in 0..layout.faults /\ late \in BOOLEAN

TableRules(s, i) == {s.table[i][n] : n \in Subnets} \ {NoRule}

\* The global controller remembers what it wrote to decide what to write and
\* delete next.  As long as no update failed on its way, that is what the tables
\* of the registered switches hold, whatever came, went, crashed or was lost.
RulesWritten ==
    ~site.drifted =>
        \A i \in site.known : Up(i) => TableRules(site, i) = {r \in site.rules : r.src = i}

\* A packet for n at j goes along an edge of the topology, or stays.
Hop(j, n) ==
    LET r == site.table[j][n]
    IN  IF n \in site.owned[j] \/ r = NoRule \/ [link |-> r.link, ends |-> {j, r.dst}] \notin site.graph
        THEN j ELSE r.dst

Trace(i, n) ==
    LET at[k \in 0..Cardinality(Ids)] == IF k = 0 THEN i ELSE Hop(at[k - 1], n)
    IN  at[Cardinality(Ids)]

\* Rules are changed on many switches, one by one, by many handlers.  Between
\* handlers, a packet that follows the rules of the switches comes, without a
\* loop, to the owner of its subnet wherever the topology has a path to one (and
\* no path to a controller that is down or gone).
PacketsArrive ==
    ~site.drifted =>
        \A i \in site.known, n \in Subnets :
            LET near == Reach(site.graph, i)
            IN  near \subseteq {k \in site.known : Up(k)} /\ (\E k \in near : n \in site.owned[k])
                => n \in site.owned[Trace(i, n)]

\* The handlers of the removal of a controller come from three managers and
\* may raise.  A controller that is not registered has left none of them
\* anything, unless a report or its subnets came after it had been removed.
Forgotten ==
    ~late => \A i \in Ids \ site.known :
        /\ \A e \in site.graph : i \notin e.ends
        /\ site.owned[i] = {} /\ i \notin site.endpoints
        /\ ~site.drifted => \A r \in site.rules : i \notin {r.src, r.dst}

\* Two controllers and the global one keep an edge each for themselves.  Unless
\* a call was lost or ran into the lock of a garbage collection, they agree: an
\* end that has an edge the others do not would never report it again.
EndsKnow ==
    ~site.drifted /\ site.lost = 0 /\ site.bypass = {} =>
        \A i, j \in {i \in site.known : Up(i)} :
            {e \in site.edges[i] : e.ends = {i, j}} = {e \in site.graph : e.ends = {i, j}}

Known(e) == e \in site.graph /\ \A i \in e.ends : e \in site.edges[i]

\* There is no second cable between the two switches: two of them take turns.
Only(l) == \A k \in cables : EndsOf[k] = EndsOf[l] => k = l

\* Every link between running controllers, old or new, is known to its ends and
\* to the global controller in the end and from then on.
LinksDiscovered ==
    <>[](~site.drifted /\ ~late /\ site.lost = 0 =>
           \A i, j \in site.known, l \in cables :
               i # j /\ Only(l) /\ Audible(l, i, j) /\ Audible(l, j, i)
               => Known([link |-> l, ends |-> {i, j}]))

\* "the connected switches detect that a link is broken and send the update to
\* the global controller" (docs/architecture.md): a link that a running end no
\* longer hears leaves the topology, as long as the global controller checks
\* its controllers.
DeadLinksForgotten ==
    <>[](checking /\ ~site.drifted /\ ~late /\ site.lost = 0 =>
           \A e \in site.graph : \A i \in e.ends : phase[i] = "on" => ~Silent(i, e))

=============================================================================
