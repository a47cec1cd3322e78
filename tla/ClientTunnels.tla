---------------------------- MODULE ClientTunnels ----------------------------
(***************************************************************************)
(* A client outside of the sites (client_lib with is_extern) and its IPsec *)
(* tunnel to a site: it asks the WAN controller for a tunnel when it sees  *)
(* a DNS request for a name of the site (dns_interceptor.py, tunnel.py),   *)
(* and installs what it gets in its kernel (client_lib/manager/ipsec.py).  *)
(* The WAN controller (wan_lib/manager/network.py) remembers one tunnel    *)
(* for a client and a site, and installs it at the site's concentrator.    *)
(*                                                                         *)
(* The client's main thread starts and stops it; requests are made by the  *)
(* thread that sniffs, and refreshes by the event loop, one at a time      *)
(* (job).  The lock of the WAN controller is bypassed when a call finds    *)
(* another under way (EventSystem): what a request does there and what it  *)
(* does at the site are two steps.  A call that is under way ends before   *)
(* the client does.  There is one site and one client; a client that is    *)
(* started again is an endpoint with a new id (gen).                       *)
(***************************************************************************)
EXTENDS Concentrator, FiniteSets

CONSTANTS
    Targets,     \* names at the site
    MaxGens,     \* bound on starts of the client
    MaxTunnels,  \* bound on tunnels made
    MaxUpdates,  \* bound on updates of the site's subnets
    MaxMishaps   \* bound on crashes and lost calls

\* A name is resolved to a site that has a subnet its address is in.
ASSUME ClientTunnelsAssumption ==
    /\ Subnets # {}
    /\ MaxGens \in Nat /\ MaxTunnels \in Nat /\ MaxUpdates \in Nat /\ MaxMishaps \in Nat

VARIABLES
    stage,     \* where the client's main thread is
    gen,       \* how often it was started
    tunnels,   \* the tunnel of a name, as the client knows it
    due,       \* the names whose tunnels are still to be refreshed
    job,       \* the request or refresh that is under way
    listed,    \* the names it had when it began to disconnect
    left,      \* those whose tunnels are still to be removed
    kernel,    \* the client's states, and the tunnel of its policy
    nodes,     \* the endpoints of clients in the WAN controller's graph
    edges,     \* and the tunnel to the site it has for them
    site,      \* the concentrator of the site
    reported,  \* the limits the site's switch has reported
    made, updates, mishaps,
    disturbed  \* history: a call was lost, the client went down, or a name was
               \* looked up out of season

clientVars == <<stage, gen, tunnels, due, job, listed, left, kernel, disturbed>>
wanVars    == <<nodes, edges, site, reported, made, updates>>
tunnelVars == <<clientVars, wanVars, mishaps>>

Gens == 1..MaxGens

\* The first endpoint is a client.
Tunnel == [id : 1..MaxTunnels, gen : Gens]

ASSUME NoTunnelAssumption == NoTunnel \notin Tunnel

Make == [id |-> made + 1, gen |-> gen]

NoJob == [op |-> "none"]

Jobs == {NoJob} \union
        [op : {"request", "refresh"}, step : {"install", "answer"}, target : Targets, tunnel : Tunnel]

Calling == job # NoJob /\ job.step = "install"

Mishap == mishaps < MaxMishaps /\ mishaps' = mishaps + 1 /\ disturbed' = TRUE

Smooth == UNCHANGED <<mishaps, disturbed>>

Tunneled == {d \in Targets : tunnels[d] # NoTunnel}

-----------------------------------------------------------------------------
(* The kernel of the client.  Its policy is found by the subnets of the two *)
(* ends, which all tunnels share.                                          *)

InstallState(k, t) ==
    [states |-> k.states \union {t}, policy |-> IF k.policy = NoTunnel THEN t ELSE k.policy]

RemoveState(k, t) == [states |-> k.states \ {t}, policy |-> NoTunnel]

\* Wrong on purpose: the tunnel of the answer is installed.
Renewal_Answer(old, answer) == answer

\* A refresh installs again what there was before.
Renewal(old, answer) == old

-----------------------------------------------------------------------------
(* Calls to the WAN controller, and from there to the site.                *)

\* A call to the site that is lost is passed over, before it arrived or between
\* two of its writes.
AtSite(outcomes, half) ==
    \/ site' \in outcomes /\ Smooth
    \/ Mishap /\ site' \in half \union {site}

\* An endpoint the WAN controller was not told of.
Bare == \E g \in Gens : nodes[g] = "bare"

\* While the client is not connected, or a second name: the WAN controller
\* forgets the tunnel of the first, which the site has and will not replace.
OutOfSeason == stage # "on" \/ Tunneled # {}

\* Names are resolved among all endpoints, which raises when one is bare.
RequestTunnel(d) ==
    /\ stage # "off" /\ job = NoJob /\ tunnels[d] = NoTunnel
    /\ ~Bare /\ made < MaxTunnels
    /\ edges' = [edges EXCEPT ![gen] = Make]
    /\ nodes' = [nodes EXCEPT ![gen] = IF @ = "none" THEN "bare" ELSE @]
    /\ made' = made + 1
    /\ job' = [op |-> "request", step |-> "install", target |-> d, tunnel |-> Make]
    /\ disturbed' = (disturbed \/ OutOfSeason)
    /\ UNCHANGED <<stage, gen, tunnels, due, listed, left, kernel, site, reported, updates, mishaps>>

\* The timer of a name fires once: it is not set again after it has fired.  The
\* WAN controller makes a new tunnel and does not save it.
RefreshTunnel(d) ==
    /\ stage = "on" /\ job = NoJob /\ d \in due
    /\ due' = due \ {d}
    /\ IF edges[gen] = NoTunnel THEN UNCHANGED <<made, job>>
       ELSE /\ made < MaxTunnels /\ made' = made + 1
            /\ job' = [op |-> "refresh", step |-> "install", target |-> d, tunnel |-> Make]
    /\ UNCHANGED <<stage, gen, tunnels, listed, left, kernel, nodes, edges, site, reported,
                   updates, mishaps, disturbed>>

InstallAtSite ==
    /\ Calling
    /\ IF job.op = "request"
       THEN AtSite(New(site, job.tunnel, Subnets), NewHalf(site, job.tunnel, Subnets))
       ELSE AtSite(Renew(site, job.tunnel, Subnets), RenewHalf(site, job.tunnel, Subnets))
    /\ job' = [job EXCEPT !.step = "answer"]
    /\ UNCHANGED <<stage, gen, tunnels, due, listed, left, kernel, nodes, edges, reported,
                   made, updates>>

\* The client gets its tunnel, or an exception.
Answer ==
    /\ job # NoJob /\ job.step = "answer"
    /\ job' = NoJob
    /\ \/ /\ Smooth
          /\ tunnels' = [tunnels EXCEPT ![job.target] = job.tunnel]
          /\ \/ job.op = "request" /\ due' = due \union {job.target}
                /\ kernel' = InstallState(kernel, job.tunnel)
             \/ job.op = "refresh" /\ UNCHANGED due
                /\ LET old == tunnels[job.target]
                   IN  kernel' = InstallState(RemoveState(kernel, old), Renewal(old, job.tunnel))
       \/ Mishap /\ UNCHANGED <<tunnels, due, kernel>>
    /\ UNCHANGED <<stage, gen, listed, left, wanVars>>

-----------------------------------------------------------------------------
(* The client starts and stops.                                            *)

\* It listens for DNS requests from now on.
Launch ==
    /\ stage = "off" /\ gen < MaxGens
    /\ stage' = "sniffing" /\ gen' = gen + 1
    /\ tunnels' = [d \in Targets |-> NoTunnel] /\ due' = {} /\ listed' = {} /\ left' = {}
    /\ UNCHANGED <<job, kernel, disturbed, mishaps, wanVars>>

\* Its main thread ends, and the one that sniffs goes on, if the call fails.
AddEndpoint ==
    /\ stage = "sniffing"
    /\ \/ stage' = "on" /\ nodes' = [nodes EXCEPT ![gen] = "full"] /\ Smooth
       \/ stage' = "failed" /\ Mishap
          /\ \E full \in {nodes[gen], "full"} : nodes' = [nodes EXCEPT ![gen] = full]
    /\ UNCHANGED <<gen, tunnels, due, job, listed, left, kernel, edges, site, reported, made, updates>>

\* A refresh that is interrupted gets no answer; a request goes on.
Quit ==
    /\ stage = "on" /\ ~(Calling /\ job.op = "refresh")
    /\ stage' = "leaving"
    /\ listed' = Tunneled /\ left' = Tunneled
    /\ job' = IF job # NoJob /\ job.op = "refresh" THEN NoJob ELSE job
    /\ disturbed' = (disturbed \/ job # NoJob)
    /\ UNCHANGED <<gen, tunnels, due, kernel, mishaps, wanVars>>

\* The tunnels are removed one by one, at the site and in the kernel.
RemoveTunnel(d) ==
    /\ stage = "leaving" /\ d \in left /\ Tunneled = listed
    /\ left' = left \ {d}
    /\ IF edges[gen] = NoTunnel THEN UNCHANGED site /\ Smooth
       ELSE AtSite(Remove(site, tunnels[d], Subnets), RemoveHalf(site, tunnels[d], Subnets))
    /\ kernel' = RemoveState(kernel, tunnels[d])
    /\ UNCHANGED <<stage, gen, tunnels, due, job, listed, nodes, edges, reported, made, updates>>

\* A request that is answered in the meantime ends that.
GiveUp ==
    /\ stage = "leaving" /\ Tunneled # listed
    /\ stage' = "stopping"
    /\ UNCHANGED <<gen, tunnels, due, job, listed, left, kernel, disturbed, mishaps, wanVars>>

\* Wrong on purpose: the tunnel is left at the site.
RemoveEndpointAt_NoTunnel(g) == {site}

\* The tunnel that is remembered is removed too.
RemoveEndpointAt(g) ==
    IF edges[g] = NoTunnel THEN {site} ELSE Remove(site, edges[g], Subnets)

RemoveEndpoint ==
    /\ stage = "leaving" /\ Tunneled = listed /\ left = {}
    /\ stage' = "stopping"
    /\ \/ nodes' = [nodes EXCEPT ![gen] = "none"] /\ edges' = [edges EXCEPT ![gen] = NoTunnel]
          /\ AtSite(RemoveEndpointAt(gen), {})
       \/ Mishap /\ UNCHANGED <<nodes, edges, site>>
    /\ UNCHANGED <<gen, tunnels, due, job, listed, left, kernel, reported, made, updates>>

StopSniffing ==
    /\ stage = "stopping" /\ job = NoJob
    /\ stage' = "off"
    /\ UNCHANGED <<gen, tunnels, due, job, listed, left, kernel, disturbed, mishaps, wanVars>>

\* The client goes down; what is in the kernel stays.
GoDown ==
    /\ stage # "off" /\ Mishap
    /\ ~Calling
    /\ stage' = "off" /\ job' = NoJob
    /\ UNCHANGED <<gen, tunnels, due, listed, left, kernel, nodes, edges, site, reported,
                   made, updates>>

-----------------------------------------------------------------------------
(* The site.                                                               *)

\* The tunnels to a site are renewed in the order they were remembered.
SiteRenewed ==
    LET sites[g \in 0..MaxGens] ==
          IF g = 0 THEN {site}
          ELSE IF edges[g] = NoTunnel THEN sites[g - 1]
          ELSE UNION {Renew(c, edges[g], Subnets) : c \in sites[g - 1]}
    IN  sites[MaxGens]

UpdateSubnets ==
    /\ updates < MaxUpdates /\ updates' = updates + 1
    /\ site' \in SiteRenewed
    /\ UNCHANGED <<clientVars, nodes, edges, reported, made, mishaps>>

\* The switch of the site reports that so many packets were sent through the
\* tunnel it has: the one that is remembered is removed, and at the soft limit
\* a new one is installed.  The client is not told.
PacketLimit(limit) ==
    /\ \E n \in Subnets :
         LET t == site.encrypt[n]
             g == t.gen
         IN  /\ t # NoTunnel /\ <<t.id, limit>> \notin reported
             /\ limit = "hard" => <<t.id, "soft">> \in reported
             /\ reported' = reported \union {<<t.id, limit>>}
             /\ IF edges[g] = NoTunnel THEN UNCHANGED <<site, edges, made>>
                ELSE LET removed == Remove(site, edges[g], Subnets)
                         new     == [id |-> made + 1, gen |-> g]
                     IN  \/ limit = "hard" /\ site' \in removed /\ UNCHANGED <<edges, made>>
                         \/ /\ limit = "soft" /\ made < MaxTunnels /\ made' = made + 1
                            /\ edges' = [edges EXCEPT ![g] = new]
                            /\ site' \in UNION {New(c, new, Subnets) : c \in removed}
    /\ UNCHANGED <<clientVars, nodes, updates, mishaps>>

-----------------------------------------------------------------------------
TunnelInit ==
    /\ stage = "off" /\ gen = 0
    /\ tunnels = [d \in Targets |-> NoTunnel] /\ due = {} /\ listed = {} /\ left = {}
    /\ job = NoJob
    /\ kernel = [states |-> {}, policy |-> NoTunnel]
    /\ nodes = [g \in Gens |-> "none"] /\ edges = [g \in Gens |-> NoTunnel]
    /\ site = Fresh /\ reported = {}
    /\ made = 0 /\ updates = 0 /\ mishaps = 0 /\ disturbed = FALSE

TunnelNext ==
    \/ Launch \/ AddEndpoint \/ Quit \/ GiveUp \/ RemoveEndpoint \/ StopSniffing \/ GoDown
    \/ InstallAtSite \/ Answer \/ UpdateSubnets
    \/ \E d \in Targets : RequestTunnel(d) \/ RefreshTunnel(d) \/ RemoveTunnel(d)
    \/ \E limit \in {"soft", "hard"} : PacketLimit(limit)

TunnelSpec == TunnelInit /\ [][TunnelNext]_tunnelVars

-----------------------------------------------------------------------------
(* Properties.                                                             *)

TunnelTypeOK ==
    /\ stage \in {"off", "sniffing", "failed", "on", "leaving", "stopping"}
    /\ gen \in 0..MaxGens
    /\ tunnels \in [Targets -> Tunnel \union {NoTunnel}]
    /\ due \subseteq Targets /\ left \subseteq listed /\ listed \subseteq Targets
    /\ job \in Jobs
    /\ kernel.states \subseteq Tunnel /\ kernel.policy \in Tunnel \union {NoTunnel}
    /\ nodes \in [Gens -> {"none", "bare", "full"}]
    /\ edges \in [Gens -> Tunnel \union {NoTunnel}]
    /\ site \in [installed : SUBSET (1..MaxTunnels), encrypt : [Subnets -> Tunnel \union {NoTunnel}],
                 decrypt : SUBSET (1..MaxTunnels), free : 0..Registers]
    /\ reported \subseteq (1..MaxTunnels) \X {"soft", "hard"}
    /\ made \in 0..MaxTunnels /\ updates \in 0..MaxUpdates /\ mishaps \in 0..MaxMishaps
    /\ disturbed \in BOOLEAN

\* The client sends with a tunnel that the site can decrypt, and the site with
\* one that the client can: also after the refresh, in which the WAN controller
\* makes a tunnel that it does not save, the site does not take and the client
\* does not install; after the subnets of the site have changed and the client
\* was stopped and started.  That is so for a client that looks up one name each
\* time, before the site's switch has reported a limit or has run out of registers.
SameTunnel ==
    ~disturbed /\ stage = "on" /\ job = NoJob /\ reported = {} /\ site.free > 0 =>
        \A n \in Subnets :
            /\ kernel.policy = site.encrypt[n]
            /\ kernel.policy # NoTunnel =>
                 /\ kernel.policy \in kernel.states
                 /\ kernel.policy.id \in site.decrypt

\* A client that looks up one name and stops leaves nothing behind: no tunnel at the site and no
\* endpoint at the WAN controller, whatever was refreshed, renewed at the site's
\* limits or refused before.
CleanLeave ==
    ~disturbed /\ stage = "off" =>
        /\ site.installed = {} /\ site.decrypt = {}
        /\ \A n \in Subnets : site.encrypt[n] = NoTunnel
        /\ \A g \in Gens : nodes[g] = "none" /\ edges[g] = NoTunnel
=============================================================================
