------------------------------ MODULE HostsProofs ------------------------------
(***************************************************************************)
(* Proofs about Hosts: whatever a behaviour is about, the hosts that are   *)
(* plugged in at a switch behave as PortAccess says, so that what is       *)
(* proved there (PortAccessProofs) is so for all the hosts of a network.   *)
(* The types of Learning and ClientTunnels follow, and what a client keeps *)
(* of its tunnel to a site.                                                *)
(***************************************************************************)
EXTENDS PortAccessProofs, Hosts, RecursionLemmas

\* What a behaviour is about is one of the plans.
Planned == plan \in Plans

\* A plan stays as it was chosen.
LEMMA PlanStays == (Init => Planned) /\ (Planned /\ [Next]_vars => Planned')
BY DEF Planned, Init, Next, Accesses, Learns, Learning, Tunnels, vars

\* The L2 manager and the data plane's notifications leave the authenticator, the
\* port authorizer and MACsec alone.
LEMMA LearningApart == LearnNext => UNCHANGED accessVars
BY DEF LearnNext, Talk, Read, LearnSource, LearnGateway, Collect, CollectChanged, RemoveOld

\* Every step of the network is a step of the hosts at the switch, or none.
LEMMA StepOfAccess == Planned /\ [Next]_vars => [AccessNext]_accessVars
<1> SUFFICES ASSUME Planned, [Next]_vars PROVE [AccessNext]_accessVars
  OBVIOUS
<1>1. CASE Accesses
  BY <1>1 DEF Accesses
<1>2. CASE Learns
  <2>1. CASE LearnNext
    BY <2>1, LearningApart
  <2>2. CASE \E h \in plan.hosts : Move(h)
    <3>1. plan.hosts \subseteq Hosts
      BY PlansAssumption DEF Planned
    <3> QED BY <2>2, <3>1 DEF AccessNext, AccessStep
  <2> QED BY <1>2, <2>1, <2>2 DEF Learns
<1>3. CASE Tunnels
  BY <1>3 DEF Tunnels
<1>4. CASE UNCHANGED vars
  BY <1>4 DEF vars
<1> QED BY <1>1, <1>2, <1>3, <1>4 DEF Next

\* The hosts of a network, at any plan, behave as PortAccess says.
THEOREM HostsAccess == Spec => AccessSpec
<1>1. Init => AccessInit
  BY DEF Init
<1> QED BY <1>1, PlanStays, StepOfAccess, PTL DEF Spec, AccessSpec

\* So ports open by the server's answer to the host's own request or not at all,
\* hosts have all their entries or none, and a client and its switch agree on a
\* rule, in a network whose hosts are learned and move as they like.
THEOREM HostsSafe == Spec => GateKept /\ []AccessTypeOK /\ []AccessWhole /\ []MacsecAgrees
BY HostsAccess, PortAccessKeepsGate, AccessTypes, AccessIsWhole, ClientsAgree, PTL

-----------------------------------------------------------------------------
(* The types of a concentrator, which its handlers keep.                   *)

\* The states of the site's concentrator.
Concentrators ==
    [installed : SUBSET (1..MaxTunnels), encrypt : [Subnets -> Tunnel \union {NoTunnel}],
     decrypt : SUBSET (1..MaxTunnels), free : 0..Registers]

\* Writing entries for encryption changes nothing else.
LEMMA EncryptKeeps ==
    ASSUME NEW c \in Concentrators, NEW nets, NEW t \in Tunnel \union {NoTunnel}
    PROVE  /\ Encrypt(c, nets, t) \in Concentrators
           /\ Encrypt(c, nets, t).installed = c.installed
           /\ Encrypt(c, nets, t).decrypt = c.decrypt
           /\ Encrypt(c, nets, t).free = c.free
           /\ \A n \in Subnets :
                Encrypt(c, nets, t).encrypt[n] = IF n \in nets THEN t ELSE c.encrypt[n]
<1> DEFINE f == [n \in Subnets |-> IF n \in nets THEN t ELSE c.encrypt[n]]
<1>1. f \in [Subnets -> Tunnel \union {NoTunnel}]
  BY DEF Concentrators
<1>2. \A n \in Subnets : f[n] = IF n \in nets THEN t ELSE c.encrypt[n]
  OBVIOUS
<1>3. Encrypt(c, nets, t) = [c EXCEPT !.encrypt = f]
  BY DEF Encrypt
<1> HIDE DEF f
<1>4. Encrypt(c, nets, t).encrypt = f
  BY <1>3 DEF Concentrators
<1> QED BY <1>1, <1>2, <1>3, <1>4 DEF Concentrators

\* The pool of registers stays within its bounds.
LEMMA PoolKeeps ==
    ASSUME NEW c \in Concentrators
    PROVE  /\ Drained(c) \in Concentrators /\ Drained(c).free = 0
           /\ Drained(c).installed = c.installed /\ Drained(c).decrypt = c.decrypt
           /\ Drained(c).encrypt = c.encrypt
           /\ Enough(c) => /\ Taken(c) \in Concentrators
                           /\ Taken(c).installed = c.installed
                           /\ Taken(c).decrypt = c.decrypt
                           /\ Taken(c).encrypt = c.encrypt
  BY ConcentratorAssumption DEF Drained, Enough, Taken, Concentrators

\* A tunnel is remembered together with its decryption entry.
LEMMA InstallKeeps ==
    ASSUME NEW c \in Concentrators, NEW id \in 1..MaxTunnels
    PROVE  /\ Install(c, id) \in Concentrators
           /\ Install(c, id).installed = c.installed \union {id}
           /\ Install(c, id).decrypt = c.decrypt \union {id}
           /\ Install(c, id).encrypt = c.encrypt
<1> DEFINE i == c.installed \union {id}
           d == c.decrypt \union {id}
<1>1. Install(c, id) = [c EXCEPT !.installed = i, !.decrypt = d]
  BY DEF Install
<1>2. i \in SUBSET (1..MaxTunnels) /\ d \in SUBSET (1..MaxTunnels)
  BY DEF Concentrators
<1> HIDE DEF i, d
<1>3. /\ Install(c, id) \in Concentrators /\ Install(c, id).installed = i
      /\ Install(c, id).decrypt = d /\ Install(c, id).encrypt = c.encrypt
  BY <1>1, <1>2 DEF Concentrators
<1> QED BY <1>3 DEF i, d

\* And it is forgotten together with it.
LEMMA ForgetKeeps ==
    ASSUME NEW c \in Concentrators, NEW id
    PROVE  /\ Forget(c, id) \in Concentrators
           /\ Forget(c, id).installed = c.installed \ {id}
           /\ Forget(c, id).decrypt = c.decrypt \ {id}
           /\ Forget(c, id).encrypt = c.encrypt /\ Forget(c, id).free = c.free
<1> DEFINE i == c.installed \ {id}
           d == c.decrypt \ {id}
<1>1. Forget(c, id) = [c EXCEPT !.installed = i, !.decrypt = d]
  BY DEF Forget
<1>2. i \in SUBSET (1..MaxTunnels) /\ d \in SUBSET (1..MaxTunnels)
  BY DEF Concentrators
<1> HIDE DEF i, d
<1>3. /\ Forget(c, id) \in Concentrators /\ Forget(c, id).installed = i
      /\ Forget(c, id).decrypt = d /\ Forget(c, id).encrypt = c.encrypt
      /\ Forget(c, id).free = c.free
  BY <1>1, <1>2 DEF Concentrators
<1> QED BY <1>3 DEF i, d

\* remove leaves a concentrator in its types.
LEMMA RemoveKeeps ==
    ASSUME NEW c \in Concentrators, NEW t, NEW nets, NEW r \in Remove(c, t, nets)
    PROVE  r \in Concentrators
<1> DEFINE there == Entries(c, nets)
           e == Encrypt(c, nets, NoTunnel)
<1>1. \/ r = c \/ r = e \/ r = Forget(e, t.id)
      \/ \E gone \in SUBSET there : r = Encrypt(c, gone, NoTunnel)
  BY DEF Remove, Refused
<1>2. e \in Concentrators
  BY EncryptKeeps
<1> HIDE DEF e, there
<1> QED BY <1>1, <1>2, EncryptKeeps, ForgetKeeps

\* So does a remove that loses a write.
LEMMA RemoveHalfKeeps ==
    ASSUME NEW c \in Concentrators, NEW t, NEW nets, NEW r \in RemoveHalf(c, t, nets)
    PROVE  r \in Concentrators
<1> DEFINE e == Encrypt(c, nets, NoTunnel)
           there == Entries(c, nets)
           d == e.decrypt \ {t.id}
<1>1. \/ \E gone \in SUBSET there : r = Encrypt(c, gone, NoTunnel)
      \/ r = [e EXCEPT !.decrypt = d]
  BY DEF RemoveHalf
<1>2. e \in Concentrators
  BY EncryptKeeps
<1> HIDE DEF e, there
<1>3. d \in SUBSET (1..MaxTunnels)
  BY <1>2 DEF Concentrators
<1> HIDE DEF d
<1>4. [e EXCEPT !.decrypt = d] \in Concentrators
  BY <1>2, <1>3 DEF Concentrators
<1> QED BY <1>1, <1>4, EncryptKeeps

\* new leaves a concentrator in its types: it takes registers only if there are some.
LEMMA NewKeeps ==
    ASSUME NEW c \in Concentrators, NEW t \in Tunnel, NEW nets, NEW r \in New(c, t, nets)
    PROVE  r \in Concentrators
<1> DEFINE blocked == Blocked(c, nets)
           k == Taken(c)
           e == Encrypt(k, nets, t)
<1>1. \/ r = Drained(c)
      \/ /\ Enough(c)
         /\ \/ r = k \/ r = e \/ r = Install(e, t.id)
            \/ \E done \in SUBSET (nets \ blocked) : r = Encrypt(k, done, t)
  BY DEF New
<1>2. Enough(c) => k \in Concentrators
  BY PoolKeeps
<1> HIDE DEF k, blocked
<1>3. Enough(c) => e \in Concentrators
  BY <1>2, EncryptKeeps
<1> HIDE DEF e
<1>4. t.id \in 1..MaxTunnels
  BY DEF Tunnel
<1> QED BY <1>1, <1>2, <1>3, <1>4, PoolKeeps, EncryptKeeps, InstallKeeps

\* So does a new that loses a write.
LEMMA NewHalfKeeps ==
    ASSUME NEW c \in Concentrators, NEW t \in Tunnel, NEW nets, NEW r \in NewHalf(c, t, nets)
    PROVE  r \in Concentrators
<1> DEFINE k == Taken(c)
           e == Encrypt(k, nets, t)
           blocked == Blocked(c, nets)
           d == e.decrypt \union {t.id}
<1>1. /\ Enough(c)
      /\ \/ \E done \in SUBSET (nets \ blocked) : r = Encrypt(k, done, t)
         \/ r = [e EXCEPT !.decrypt = d]
  BY DEF NewHalf
<1>2. k \in Concentrators
  BY <1>1, PoolKeeps
<1> HIDE DEF k, blocked
<1>3. e \in Concentrators
  BY <1>2, EncryptKeeps
<1> HIDE DEF e
<1>4. d \in SUBSET (1..MaxTunnels)
  BY <1>3 DEF Concentrators, Tunnel
<1> HIDE DEF d
<1>5. [e EXCEPT !.decrypt = d] \in Concentrators
  BY <1>3, <1>4 DEF Concentrators
<1> QED BY <1>1, <1>2, <1>5, EncryptKeeps

\* And renew, which is both.
LEMMA RenewKeeps ==
    ASSUME NEW c \in Concentrators, NEW t \in Tunnel, NEW nets, NEW r \in Renew(c, t, nets)
    PROVE  r \in Concentrators
<1>1. PICK m \in Remove(c, t, nets) : r \in New(m, t, nets)
  BY DEF Renew
<1> QED BY <1>1, RemoveKeeps, NewKeeps

\* A renew that loses a write loses it in one of the two.
LEMMA RenewHalfKeeps ==
    ASSUME NEW c \in Concentrators, NEW t \in Tunnel, NEW nets, NEW r \in RenewHalf(c, t, nets)
    PROVE  r \in Concentrators
<1>1. \/ r \in UNION {New(m, t, nets) : m \in RemoveHalf(c, t, nets)}
      \/ r \in UNION {NewHalf(m, t, nets) : m \in Remove(c, t, nets)}
  BY DEF RenewHalf
<1>2. \/ \E m \in RemoveHalf(c, t, nets) : r \in New(m, t, nets)
      \/ \E m \in Remove(c, t, nets) : r \in NewHalf(m, t, nets)
  BY <1>1
<1> QED BY <1>2, RemoveHalfKeeps, RemoveKeeps, NewKeeps, NewHalfKeeps

\* What holds of the site, and of what renewing a remembered tunnel makes of it,
\* holds of it after an update of its subnets.
LEMMA RenewedEnds ==
    ASSUME NEW I, site \in I,
           \A g \in Gens : edges[g] # NoTunnel =>
               \A c \in I : Renew(c, edges[g], Subnets) \subseteq I
    PROVE  SiteRenewed \subseteq I
<1> DEFINE Next1(g, d) == IF edges[g] = NoTunnel THEN d
                          ELSE UNION {Renew(c, edges[g], Subnets) : c \in d}
           Eq(f) == f = [g \in 0..MaxGens |-> IF g = 0 THEN {site} ELSE Next1(g, f[g - 1])]
           F == CHOOSE f : Eq(f)
<1>1. MaxGens \in Nat
  BY ClientTunnelsAssumption
<1>2. \A g \in 1..MaxGens : \A d \in SUBSET I : Next1(g, d) \in SUBSET I
  BY DEF Gens
<1>3. SiteRenewed = F[MaxGens]
  BY DEF SiteRenewed
<1> HIDE DEF Next1
<1>4. \E f : Eq(f)
  <2> DEFINE D == SUBSET I
             G == [g \in 1..MaxGens |-> [d \in D |-> Next1(g, d)]]
             base == {site}
  <2>1. G \in [1..MaxGens -> [D -> D]] /\ base \in D
    BY <1>2
  <2>2. \A g \in 1..MaxGens : \A d \in D : G[g][d] = Next1(g, d)
    OBVIOUS
  <2> HIDE DEF G, D, base
  <2>3. PICK f : Recursive(f, MaxGens, D, base, G)
    BY <1>1, <2>1, Recursion
  <2>4. f \in [0..MaxGens -> D] /\ f[0] = base /\ \A g \in 1..MaxGens : f[g] = G[g][f[g - 1]]
    BY <2>3 DEF Recursive
  <2>5. \A g \in 0..MaxGens : f[g] = IF g = 0 THEN base ELSE Next1(g, f[g - 1])
    <3> SUFFICES ASSUME NEW g \in 0..MaxGens, g # 0 PROVE f[g] = Next1(g, f[g - 1])
      BY <2>4
    <3>1. g \in 1..MaxGens /\ g - 1 \in 0..MaxGens
      BY <1>1
    <3> QED BY <2>2, <2>4, <3>1
  <2>6. f = [g \in 0..MaxGens |-> f[g]]
    BY <2>4
  <2> QED BY <2>5, <2>6 DEF base
<1>5. Eq(F)
  BY <1>4
<1> HIDE DEF F
<1>6. F[0] = {site} /\ \A g \in 1..MaxGens : F[g] = Next1(g, F[g - 1])
  <2>1. 0 \in 0..MaxGens /\ \A g \in 1..MaxGens : g \in 0..MaxGens /\ g # 0
    BY <1>1
  <2> QED BY <1>5, <2>1
<1> DEFINE good == {g \in 0..MaxGens : F[g] \in SUBSET I}
<1>7. 0 \in good
  BY <1>1, <1>6
<1>8. \A g \in 1..MaxGens : g - 1 \in good => g \in good
  BY <1>2, <1>6
<1> HIDE DEF good
<1>9. MaxGens \in good
  BY <1>1, <1>7, <1>8, Induction
<1> QED BY <1>3, <1>9 DEF good

-----------------------------------------------------------------------------
(* The types of the client, the WAN controller and the site.               *)

\* Requests and refreshes that are under way.
Calls == [op : {"request", "refresh"}, step : {"install", "answer"}, target : Targets,
          tunnel : Tunnel]

\* What the client keeps.
ClientOK ==
    /\ stage \in {"off", "sniffing", "failed", "on", "leaving", "stopping"}
    /\ gen \in 0..MaxGens
    /\ tunnels \in [Targets -> Tunnel \union {NoTunnel}]
    /\ due \subseteq Targets /\ left \subseteq listed /\ listed \subseteq Targets
    /\ job \in Jobs
    /\ kernel.states \subseteq Tunnel /\ kernel.policy \in Tunnel \union {NoTunnel}

\* What the WAN controller and the site keep.
WanOK ==
    /\ nodes \in [Gens -> {"none", "bare", "full"}]
    /\ edges \in [Gens -> Tunnel \union {NoTunnel}]
    /\ site \in Concentrators
    /\ reported \subseteq (1..MaxTunnels) \X {"soft", "hard"}
    /\ made \in 0..MaxTunnels /\ updates \in 0..MaxUpdates

\* What has gone wrong so far.
MishapsOK == mishaps \in 0..MaxMishaps /\ disturbed \in BOOLEAN

\* A client that is not off is one of those that were started, and calls nobody
\* when it is off; what is to be refreshed or removed is there.
Started ==
    /\ stage # "off" => gen \in Gens
    /\ stage = "off" => job = NoJob
    /\ due \subseteq Tunneled /\ listed \subseteq Tunneled
    /\ job.op = "refresh" => job.target \in Tunneled

\* These are the parts of the type invariant.
LEMMA TypeParts == TunnelTypeOK <=> ClientOK /\ WanOK /\ MishapsOK
BY DEF TunnelTypeOK, ClientOK, WanOK, MishapsOK, Concentrators

\* After a step, too.
LEMMA TypePartsNext == TunnelTypeOK' <=> ClientOK' /\ WanOK' /\ MishapsOK'
BY DEF TunnelTypeOK, ClientOK, WanOK, MishapsOK, Concentrators

\* The types, with what they need to be kept.
TunnelsOK == ClientOK /\ WanOK /\ MishapsOK /\ Started

\* A job is a call that is under way, or none.
LEMMA CallsAreJobs ==
    /\ NoJob \in Jobs /\ NoJob.op = "none"
    /\ \A j \in Jobs : j # NoJob => j \in Calls
    /\ \A j \in Calls : j \in Jobs /\ j # NoJob /\ j.op # "none"
BY DEF Jobs, NoJob, Calls

\* Mishaps are counted up to their bound.
LEMMA MishapKeeps ==
    ASSUME MishapsOK
    PROVE  Mishap \/ Smooth => MishapsOK'
<1>1. Mishap => mishaps' \in 0..MaxMishaps
  BY ClientTunnelsAssumption DEF MishapsOK, Mishap
<1>2. Mishap => disturbed' \in BOOLEAN
  BY DEF Mishap
<1>3. Smooth => MishapsOK'
  BY DEF MishapsOK, Smooth
<1> QED BY <1>1, <1>2, <1>3 DEF MishapsOK

\* A call to the site ends as it says, or is lost.
LEMMA AtSiteKeeps ==
    ASSUME MishapsOK, NEW outcomes, NEW half, AtSite(outcomes, half)
    PROVE  MishapsOK' /\ site' \in outcomes \union half \union {site}
<1>1. CASE site' \in outcomes /\ Smooth
  BY <1>1, MishapKeeps
<1>2. CASE Mishap /\ site' \in half \union {site}
  BY <1>2, MishapKeeps
<1> QED BY <1>1, <1>2 DEF AtSite

\* A call that is not lost ends as it says.
LEMMA AtSiteQuiet ==
    ASSUME NEW outcomes, NEW half, AtSite(outcomes, half), ~disturbed'
    PROVE  site' \in outcomes
BY DEF AtSite, Mishap

\* Tunnels are numbered as they are made.
LEMMA MakeOK ==
    ASSUME made \in 0..MaxTunnels, made < MaxTunnels
    PROVE  /\ made + 1 \in 0..MaxTunnels
           /\ \A g \in Gens : [id |-> made + 1, gen |-> g] \in Tunnel
           /\ gen \in Gens => Make \in Tunnel
BY ClientTunnelsAssumption DEF Tunnel, Make

\* A request is made by a client that was started, with a tunnel that is left.
LEMMA RequestOK ==
    ASSUME TunnelsOK, NEW d \in Targets, RequestTunnel(d)
    PROVE  TunnelsOK'
<1>1. gen \in Gens /\ Make \in Tunnel /\ made' \in 0..MaxTunnels
  BY MakeOK DEF TunnelsOK, Started, RequestTunnel, WanOK
<1>2. job' \in Calls /\ job'.op = "request" /\ job'.op # "refresh"
  BY <1>1 DEF RequestTunnel, Calls
<1>3. job' \in Jobs
  BY <1>2, CallsAreJobs
<1>4. ClientOK'
  BY <1>3 DEF ClientOK, TunnelsOK, RequestTunnel
<1>5. nodes' \in [Gens -> {"none", "bare", "full"}]
  BY DEF RequestTunnel, TunnelsOK, WanOK
<1>6. edges' \in [Gens -> Tunnel \union {NoTunnel}]
  BY <1>1 DEF RequestTunnel, TunnelsOK, WanOK
<1>7. WanOK'
  BY <1>1, <1>5, <1>6 DEF RequestTunnel, TunnelsOK, WanOK
<1>8. MishapsOK'
  BY DEF MishapsOK, TunnelsOK, RequestTunnel
<1>9. Started'
  BY <1>2 DEF Started, Tunneled, TunnelsOK, RequestTunnel
<1> QED BY <1>4, <1>7, <1>8, <1>9 DEF TunnelsOK

\* A name that is refreshed has a tunnel.
LEMMA RefreshOK ==
    ASSUME TunnelsOK, NEW d \in Targets, RefreshTunnel(d)
    PROVE  TunnelsOK'
<1>1. /\ job' \in Jobs /\ made' \in 0..MaxTunnels
      /\ job'.op = "refresh" => job'.target \in Tunneled
  <2>1. CASE edges[gen] = NoTunnel
    BY <2>1 DEF RefreshTunnel, TunnelsOK, ClientOK, WanOK, Started
  <2>2. CASE edges[gen] # NoTunnel
    <3>1. Make \in Tunnel /\ made' \in 0..MaxTunnels
      BY <2>2, MakeOK DEF TunnelsOK, Started, RefreshTunnel, WanOK
    <3>2. job' \in Calls /\ job'.target = d
      BY <2>2, <3>1 DEF RefreshTunnel, Calls
    <3>3. d \in Tunneled
      BY DEF RefreshTunnel, TunnelsOK, Started
    <3> QED BY <3>1, <3>2, <3>3, CallsAreJobs
  <2> QED BY <2>1, <2>2
<1>2. ClientOK'
  BY <1>1 DEF ClientOK, TunnelsOK, RefreshTunnel
<1>3. WanOK'
  BY <1>1 DEF WanOK, TunnelsOK, RefreshTunnel
<1>4. MishapsOK'
  BY DEF MishapsOK, TunnelsOK, RefreshTunnel
<1>5. Tunneled' = Tunneled
  BY DEF Tunneled, RefreshTunnel
<1>6. Started'
  <2>1. stage' = "on" /\ gen' = gen /\ listed' = listed /\ due' \subseteq due /\ stage = "on"
    BY DEF RefreshTunnel
  <2> QED BY <1>1, <1>5, <2>1 DEF Started, TunnelsOK
<1> QED BY <1>2, <1>3, <1>4, <1>6 DEF TunnelsOK

\* The site does with the tunnel what its concentrator does with any.
LEMMA InstallAtSiteOK ==
    ASSUME TunnelsOK, InstallAtSite
    PROVE  TunnelsOK'
<1>1. job \in Calls
  BY CallsAreJobs DEF InstallAtSite, Calling, TunnelsOK, ClientOK
<1>2. job' \in Calls /\ job'.op = job.op /\ job'.target = job.target
  BY <1>1 DEF InstallAtSite, Calls
<1>3. job.tunnel \in Tunnel
  BY <1>1 DEF Calls
<1>4. site' \in Concentrators /\ MishapsOK'
  <2> DEFINE c == site
             t == job.tunnel
  <2>0. c \in Concentrators /\ MishapsOK
    BY DEF TunnelsOK, WanOK
  <2>1. /\ New(c, t, Subnets) \subseteq Concentrators /\ NewHalf(c, t, Subnets) \subseteq Concentrators
        /\ Renew(c, t, Subnets) \subseteq Concentrators
        /\ RenewHalf(c, t, Subnets) \subseteq Concentrators
    BY <1>3, <2>0, NewKeeps, NewHalfKeeps, RenewKeeps, RenewHalfKeeps
  <2>2. \/ AtSite(New(c, t, Subnets), NewHalf(c, t, Subnets))
        \/ AtSite(Renew(c, t, Subnets), RenewHalf(c, t, Subnets))
    BY DEF InstallAtSite
  <2>3. \/ site' \in New(c, t, Subnets) \union NewHalf(c, t, Subnets) \union {site}
        \/ site' \in Renew(c, t, Subnets) \union RenewHalf(c, t, Subnets) \union {site}
    BY <2>0, <2>2, AtSiteKeeps
  <2>4. MishapsOK'
    BY <2>0, <2>2, AtSiteKeeps
  <2> QED BY <2>0, <2>1, <2>3, <2>4
<1>5. ClientOK'
  BY <1>2, CallsAreJobs DEF ClientOK, TunnelsOK, InstallAtSite
<1>6. WanOK'
  BY <1>4 DEF WanOK, TunnelsOK, InstallAtSite
<1>7. Tunneled' = Tunneled
  BY DEF Tunneled, InstallAtSite
<1>8. Started'
  <2>1. stage' = stage /\ gen' = gen /\ listed' = listed /\ due' = due
    BY DEF InstallAtSite
  <2>2. job # NoJob /\ stage # "off"
    BY DEF InstallAtSite, Calling, TunnelsOK, Started
  <2> QED BY <1>2, <1>7, <2>1, <2>2 DEF Started, TunnelsOK
<1> QED BY <1>4, <1>5, <1>6, <1>8 DEF TunnelsOK

\* The client puts the tunnel, or the one it had, into its kernel.
LEMMA AnswerOK ==
    ASSUME TunnelsOK, Answer
    PROVE  TunnelsOK'
<1>1. job \in Calls /\ job' = NoJob
  BY CallsAreJobs DEF Answer, TunnelsOK, ClientOK
<1>2. job.target \in Targets /\ job.tunnel \in Tunnel /\ job.op \in {"request", "refresh"}
  BY <1>1 DEF Calls
<1>3. /\ kernel'.states \subseteq Tunnel /\ kernel'.policy \in Tunnel \union {NoTunnel}
      /\ MishapsOK'
      /\ \/ UNCHANGED <<tunnels, due>>
         \/ /\ tunnels' = [tunnels EXCEPT ![job.target] = job.tunnel]
            /\ due' \subseteq due \union {job.target}
  <2>0. MishapsOK /\ kernel.states \subseteq Tunnel /\ kernel.policy \in Tunnel \union {NoTunnel}
    BY DEF TunnelsOK, ClientOK
  <2>1. CASE Mishap /\ UNCHANGED <<tunnels, due, kernel>>
    BY <2>0, <2>1, MishapKeeps
  <2>2. CASE /\ Smooth /\ tunnels' = [tunnels EXCEPT ![job.target] = job.tunnel]
             /\ job.op = "request" /\ due' = due \union {job.target}
             /\ kernel' = InstallState(kernel, job.tunnel)
    BY <1>2, <2>0, <2>2, MishapKeeps DEF InstallState
  <2>3. CASE /\ Smooth /\ tunnels' = [tunnels EXCEPT ![job.target] = job.tunnel]
             /\ job.op = "refresh" /\ UNCHANGED due
             /\ kernel' = InstallState(RemoveState(kernel, tunnels[job.target]),
                                       Renewal(tunnels[job.target], job.tunnel))
    <3>1. tunnels[job.target] \in Tunnel
      BY <1>2, <2>3 DEF TunnelsOK, Started, Tunneled, ClientOK
    <3>2. /\ kernel'.states \subseteq kernel.states \union {tunnels[job.target]}
          /\ kernel'.policy \in Tunnel \union {NoTunnel}
      BY <2>3, <3>1 DEF InstallState, RemoveState, Renewal
    <3> QED BY <2>0, <2>3, <3>1, <3>2, MishapKeeps
  <2> QED BY <2>1, <2>2, <2>3 DEF Answer
<1>4. tunnels' \in [Targets -> Tunnel \union {NoTunnel}] /\ due' \subseteq Targets
  BY <1>2, <1>3 DEF TunnelsOK, ClientOK
<1>5. Tunneled \subseteq Tunneled' /\ due' \subseteq Tunneled'
  BY <1>2, <1>3, NoTunnelAssumption DEF Tunneled, TunnelsOK, ClientOK, Started
<1>6. ClientOK'
  BY <1>1, <1>3, <1>4, CallsAreJobs DEF ClientOK, TunnelsOK, Answer
<1>7. WanOK'
  BY DEF WanOK, TunnelsOK, Answer, wanVars
<1>8. Started'
  BY <1>1, <1>5, CallsAreJobs DEF Started, TunnelsOK, Answer
<1> QED BY <1>3, <1>6, <1>7, <1>8 DEF TunnelsOK

\* A client that is started again is a new endpoint.
LEMMA LaunchOK ==
    ASSUME TunnelsOK, Launch
    PROVE  TunnelsOK'
<1>1. gen' \in Gens /\ gen' \in 0..MaxGens
  BY ClientTunnelsAssumption DEF Launch, TunnelsOK, ClientOK, Gens
<1>2. job' = NoJob
  BY DEF Launch, TunnelsOK, Started
<1>3. ClientOK'
  BY <1>1, <1>2, CallsAreJobs DEF ClientOK, TunnelsOK, Launch
<1>4. WanOK' /\ MishapsOK'
  BY DEF WanOK, MishapsOK, TunnelsOK, Launch, wanVars
<1>5. Started'
  BY <1>1, <1>2, CallsAreJobs DEF Started, Tunneled, Launch
<1> QED BY <1>3, <1>4, <1>5 DEF TunnelsOK

\* Its endpoint is remembered, or the call is lost.
LEMMA AddEndpointOK ==
    ASSUME TunnelsOK, AddEndpoint
    PROVE  TunnelsOK'
<1>1. MishapsOK'
  BY MishapKeeps DEF TunnelsOK, AddEndpoint
<1>2. gen \in Gens
  BY DEF TunnelsOK, Started, AddEndpoint
<1>3. nodes' \in [Gens -> {"none", "bare", "full"}]
  <2>1. nodes \in [Gens -> {"none", "bare", "full"}]
    BY DEF TunnelsOK, WanOK
  <2>2. \E full \in {"none", "bare", "full"} : nodes' = [nodes EXCEPT ![gen] = full]
    BY <1>2, <2>1 DEF AddEndpoint
  <2> QED BY <2>1, <2>2
<1>4. ClientOK' /\ Tunneled' = Tunneled
  BY DEF ClientOK, TunnelsOK, AddEndpoint, Tunneled
<1>5. WanOK'
  BY <1>3 DEF WanOK, TunnelsOK, AddEndpoint
<1>6. Started'
  BY <1>2, <1>4 DEF Started, TunnelsOK, AddEndpoint
<1> QED BY <1>1, <1>4, <1>5, <1>6 DEF TunnelsOK

\* What it lists for removal are names with tunnels.
LEMMA QuitOK ==
    ASSUME TunnelsOK, Quit
    PROVE  TunnelsOK'
<1>1. /\ job' \in Jobs
      /\ job'.op = "refresh" => job'.target \in Tunneled
  BY CallsAreJobs DEF Quit, TunnelsOK, ClientOK, Started
<1>2. disturbed' \in BOOLEAN
  BY DEF Quit
<1>3. MishapsOK'
  BY <1>2 DEF MishapsOK, TunnelsOK, Quit
<1>4. ClientOK'
  BY <1>1 DEF ClientOK, TunnelsOK, Quit, Tunneled
<1>5. WanOK' /\ Tunneled' = Tunneled
  BY DEF WanOK, TunnelsOK, Quit, Tunneled, wanVars
<1>6. Started'
  BY <1>1, <1>5 DEF Started, TunnelsOK, Quit
<1> QED BY <1>3, <1>4, <1>5, <1>6 DEF TunnelsOK

\* A removal at the site takes registers from nobody.
LEMMA RemoveTunnelOK ==
    ASSUME TunnelsOK, NEW d \in Targets, RemoveTunnel(d)
    PROVE  TunnelsOK'
<1>1. MishapsOK' /\ site' \in Concentrators
  <2>0. site \in Concentrators /\ MishapsOK
    BY DEF TunnelsOK, WanOK
  <2>1. CASE UNCHANGED site /\ Smooth
    BY <2>0, <2>1, MishapKeeps
  <2>2. CASE AtSite(Remove(site, tunnels[d], Subnets), RemoveHalf(site, tunnels[d], Subnets))
    BY <2>0, <2>2, AtSiteKeeps, RemoveKeeps, RemoveHalfKeeps
  <2> QED BY <2>1, <2>2 DEF RemoveTunnel
<1>2. ClientOK'
  BY DEF ClientOK, TunnelsOK, RemoveTunnel, RemoveState
<1>3. WanOK' /\ Tunneled' = Tunneled
  BY <1>1 DEF WanOK, TunnelsOK, RemoveTunnel, Tunneled
<1>4. Started'
  BY <1>3 DEF Started, TunnelsOK, RemoveTunnel
<1> QED BY <1>1, <1>2, <1>3, <1>4 DEF TunnelsOK

\* However the client ends, it calls nobody afterwards.
LEMMA StopsOK ==
    ASSUME TunnelsOK, GiveUp \/ StopSniffing \/ GoDown
    PROVE  TunnelsOK'
<1>1. MishapsOK'
  BY MishapKeeps DEF MishapsOK, TunnelsOK, GiveUp, StopSniffing, GoDown
<1>2. WanOK' /\ Tunneled' = Tunneled
  BY DEF WanOK, TunnelsOK, GiveUp, StopSniffing, GoDown, wanVars, Tunneled
<1>3. ClientOK'
  BY CallsAreJobs DEF ClientOK, TunnelsOK, GiveUp, StopSniffing, GoDown
<1>4. Started'
  BY <1>2, CallsAreJobs DEF Started, TunnelsOK, GiveUp, StopSniffing, GoDown
<1> QED BY <1>1, <1>2, <1>3, <1>4 DEF TunnelsOK

\* The endpoint goes, and the tunnel that is remembered for it.
LEMMA RemoveEndpointOK ==
    ASSUME TunnelsOK, RemoveEndpoint
    PROVE  TunnelsOK'
<1>0. site \in Concentrators /\ MishapsOK
  BY DEF TunnelsOK, WanOK
<1>1. MishapsOK' /\ site' \in Concentrators
  <2>1. RemoveEndpointAt(gen) \subseteq Concentrators
    BY <1>0, RemoveKeeps DEF RemoveEndpointAt
  <2>2. CASE AtSite(RemoveEndpointAt(gen), {})
    <3>1. MishapsOK' /\ site' \in RemoveEndpointAt(gen) \union {} \union {site}
      BY <1>0, <2>2, AtSiteKeeps
    <3> QED BY <1>0, <2>1, <3>1
  <2>3. CASE Mishap /\ UNCHANGED site
    BY <1>0, <2>3, MishapKeeps
  <2> QED BY <2>2, <2>3 DEF RemoveEndpoint
<1>2. WanOK' /\ Tunneled' = Tunneled
  BY <1>1 DEF WanOK, TunnelsOK, RemoveEndpoint, Tunneled
<1>3. ClientOK'
  BY DEF ClientOK, TunnelsOK, RemoveEndpoint
<1>4. Started'
  BY <1>2 DEF Started, TunnelsOK, RemoveEndpoint
<1> QED BY <1>1, <1>2, <1>3, <1>4 DEF TunnelsOK

\* All that are renewed leave the site in its types.
LEMMA UpdateSubnetsOK ==
    ASSUME TunnelsOK, UpdateSubnets
    PROVE  TunnelsOK'
<1>1. site' \in Concentrators
  <2>1. site \in Concentrators /\ edges \in [Gens -> Tunnel \union {NoTunnel}]
    BY DEF TunnelsOK, WanOK
  <2>2. SiteRenewed \subseteq Concentrators
    BY <2>1, RenewKeeps, RenewedEnds
  <2> QED BY <2>2 DEF UpdateSubnets
<1>2. updates' \in 0..MaxUpdates
  BY ClientTunnelsAssumption DEF UpdateSubnets, TunnelsOK, WanOK
<1>3. WanOK' /\ ClientOK' /\ MishapsOK' /\ Started'
  BY <1>1, <1>2 DEF WanOK, ClientOK, MishapsOK, Started, Tunneled, TunnelsOK, UpdateSubnets,
                    clientVars
<1> QED BY <1>3 DEF TunnelsOK

\* The tunnel that is reported is one of the site's, of an endpoint there was.
LEMMA PacketLimitOK ==
    ASSUME TunnelsOK, NEW limit \in {"soft", "hard"}, PacketLimit(limit)
    PROVE  TunnelsOK'
<1>1. PICK n \in Subnets :
        /\ site.encrypt[n] # NoTunnel
        /\ reported' = reported \union {<<site.encrypt[n].id, limit>>}
        /\ LET g == site.encrypt[n].gen
           IN  IF edges[g] = NoTunnel THEN UNCHANGED <<site, edges, made>>
               ELSE LET removed == Remove(site, edges[g], Subnets)
                        new     == [id |-> made + 1, gen |-> g]
                    IN  \/ limit = "hard" /\ site' \in removed /\ UNCHANGED <<edges, made>>
                        \/ /\ limit = "soft" /\ made < MaxTunnels /\ made' = made + 1
                           /\ edges' = [edges EXCEPT ![g] = new]
                           /\ site' \in UNION {New(c, new, Subnets) : c \in removed}
  BY DEF PacketLimit
<1> DEFINE g == site.encrypt[n].gen
           new == [id |-> made + 1, gen |-> g]
<1>2. site.encrypt[n] \in Tunnel /\ site \in Concentrators /\ WanOK
  BY <1>1 DEF TunnelsOK, WanOK, Concentrators
<1>3. g \in Gens /\ site.encrypt[n].id \in 1..MaxTunnels
  BY <1>2 DEF Tunnel
<1>4. site' \in Concentrators /\ made' \in 0..MaxTunnels
      /\ edges' \in [Gens -> Tunnel \union {NoTunnel}]
  <2>1. CASE UNCHANGED <<site, edges, made>>
    BY <1>2, <2>1 DEF WanOK
  <2>2. CASE site' \in Remove(site, edges[g], Subnets) /\ UNCHANGED <<edges, made>>
    BY <1>2, <2>2, RemoveKeeps DEF WanOK
  <2>3. CASE /\ made < MaxTunnels /\ made' = made + 1 /\ edges' = [edges EXCEPT ![g] = new]
             /\ site' \in UNION {New(c, new, Subnets) : c \in Remove(site, edges[g], Subnets)}
    <3>1. made' \in 0..MaxTunnels /\ new \in Tunnel
      BY <1>2, <1>3, <2>3, MakeOK DEF WanOK
    <3> HIDE DEF new
    <3>2. PICK c \in Remove(site, edges[g], Subnets) : site' \in New(c, new, Subnets)
      BY <2>3
    <3> QED BY <1>2, <1>3, <2>3, <3>1, <3>2, RemoveKeeps, NewKeeps DEF WanOK
  <2> QED BY <1>1, <2>1, <2>2, <2>3
<1>5. reported' \subseteq (1..MaxTunnels) \X {"soft", "hard"}
  BY <1>1, <1>2, <1>3 DEF WanOK
<1> HIDE DEF g, new
<1>6. WanOK'
  BY <1>2, <1>4, <1>5 DEF WanOK, PacketLimit
<1>7. ClientOK' /\ MishapsOK' /\ Started'
  BY DEF ClientOK, MishapsOK, Started, Tunneled, TunnelsOK, PacketLimit, clientVars
<1> QED BY <1>6, <1>7 DEF TunnelsOK

\* So it is before the client is started.
LEMMA TunnelInitOK == TunnelInit => TunnelsOK
<1> SUFFICES ASSUME TunnelInit PROVE TunnelsOK
  OBVIOUS
<1>1. Fresh \in Concentrators
  <2> DEFINE f == [n \in Subnets |-> NoTunnel]
  <2>1. f \in [Subnets -> Tunnel \union {NoTunnel}]
    OBVIOUS
  <2>2. Fresh = [installed |-> {}, encrypt |-> f, decrypt |-> {}, free |-> Registers]
    BY DEF Fresh
  <2> HIDE DEF f
  <2> QED BY <2>1, <2>2, ConcentratorAssumption DEF Concentrators
<1>2. ClientOK
  BY ClientTunnelsAssumption, CallsAreJobs DEF TunnelInit, ClientOK
<1>3. WanOK
  BY <1>1, ClientTunnelsAssumption DEF TunnelInit, WanOK
<1>4. MishapsOK
  <2>1. mishaps \in 0..MaxMishaps
    BY ClientTunnelsAssumption DEF TunnelInit
  <2>2. disturbed \in BOOLEAN
    BY DEF TunnelInit
  <2> QED BY <2>1, <2>2 DEF MishapsOK
<1>5. Started
  BY CallsAreJobs DEF TunnelInit, Started
<1> QED BY <1>2, <1>3, <1>4, <1>5 DEF TunnelsOK

\* Steps of others change nothing of it.
LEMMA TunnelStays == TunnelsOK /\ UNCHANGED tunnelVars => TunnelsOK'
BY DEF TunnelsOK, ClientOK, WanOK, MishapsOK, Started, Tunneled, tunnelVars, clientVars, wanVars

\* Every step keeps the types.
LEMMA TunnelNextOK == TunnelsOK /\ [TunnelNext]_tunnelVars => TunnelsOK'
BY RequestOK, RefreshOK, InstallAtSiteOK, AnswerOK, LaunchOK, AddEndpointOK, QuitOK,
   RemoveTunnelOK, StopsOK, RemoveEndpointOK, UpdateSubnetsOK, PacketLimitOK, TunnelStays
   DEF TunnelNext

-----------------------------------------------------------------------------
(* The types of the L2 manager, the last to complete those of the network. *)

\* A place where a host may be, or none.
Places == [Hosts -> Ports \union {NoPort}]

\* One access to the mapping and the tables leaves places in them.
LEMMA AccessKeepsTables ==
    ASSUME known \in Places, dst \in Places, src \in Places,
           NEW step, NEW h \in Hosts, NEW port \in Ports \union {NoPort}, Access(step, h, port)
    PROVE  known' \in Places /\ dst' \in Places /\ src' \in Places
<1>1. \A table \in Places : \A p \in Ports \union {NoPort} : Set(table, h, p) \in Places
  BY DEF Set, Places
<1>2. known' \in {known, Set(known, h, NoPort), Set(known, h, port)}
  BY DEF Access
<1>3. dst' \in {dst, Set(dst, h, NoPort), Set(dst, h, port)}
  BY DEF Access
<1>4. src' \in {src, Set(src, h, NoPort), Set(src, h, port)}
  BY DEF Access
<1> QED BY <1>1, <1>2, <1>3, <1>4

\* The mapping of the L2 manager and the tables of the switch.
TablesOK == known \in Places /\ dst \in Places /\ src \in Places

\* What the two threads do, and what waits for them.
ThreadsOK ==
    /\ notices \in Seq(Notice) /\ Len(notices) <= MaxNotices
    /\ learn \in Learned /\ collect \in Collected

\* These are the parts of the type invariant.
LEMMA LearnParts == LearnTypeOK <=> TablesOK /\ ThreadsOK /\ aging \in BOOLEAN /\ gateway \in BOOLEAN
BY DEF LearnTypeOK, TablesOK, ThreadsOK, Places

\* After a step, too.
LEMMA LearnPartsNext ==
    LearnTypeOK' <=> TablesOK' /\ ThreadsOK' /\ aging' \in BOOLEAN /\ gateway' \in BOOLEAN
BY DEF LearnTypeOK, TablesOK, ThreadsOK, Places

\* What the thread of the stream does when it learns.
Learners == [step : {"check", "forget", "deldst", "delsrc", "set", "putdst", "putsrc"},
             host : Hosts, port : Ports]

\* What the event loop does when it collects.
Collectors == [step : {"forget", "deldst", "delsrc"}, host : Hosts, rest : SUBSET Hosts]

\* A thread does one of these, or nothing.
LEMMA ThreadStates ==
    /\ Idle \in Learned /\ Idle \in Collected
    /\ \A x \in Learned : x # Idle => x \in Learners
    /\ \A x \in Collected : x # Idle => x \in Collectors
    /\ Learners \subseteq Learned /\ Collectors \subseteq Collected
BY DEF Learned, Collected, Idle, Learners, Collectors

\* The first notification is taken from the stream.
LEMMA ReadOK ==
    ASSUME ThreadsOK, Read
    PROVE  ThreadsOK'
<1>1. Head(notices) \in Notice /\ Tail(notices) \in Seq(Notice) /\ Len(Tail(notices)) <= MaxNotices
  BY LearningAssumption DEF ThreadsOK, Read
<1>2. learn' \in Learners
  BY <1>1 DEF Read, Learners, Notice
<1> QED BY <1>1, <1>2, ThreadStates DEF ThreadsOK, Read

\* A host that sends is plugged in somewhere.
LEMMA TalkOK ==
    ASSUME ThreadsOK, at \in Places, NEW h \in Hosts, Talk(h)
    PROVE  ThreadsOK'
<1> DEFINE notice == [host |-> h, port |-> at[h]]
<1>1. notice \in Notice
  BY DEF Talk, Sends, Hears, Places, Notice
<1>2. notices' = Append(notices, notice) /\ learn' = learn /\ collect' = collect
  BY DEF Talk
<1> HIDE DEF notice
<1>3. notices' \in Seq(Notice) /\ Len(notices') <= MaxNotices
  BY <1>1, <1>2, LearningAssumption DEF ThreadsOK, Talk
<1> QED BY <1>2, <1>3 DEF ThreadsOK

\* Learning goes from access to access.
LEMMA LearnSourceOK ==
    ASSUME ThreadsOK, TablesOK, LearnSource
    PROVE  ThreadsOK' /\ TablesOK'
<1>1. learn \in Learners
  BY ThreadStates DEF ThreadsOK, LearnSource
<1>2. TablesOK'
  <2>1. learn.host \in Hosts /\ learn.port \in Ports \union {NoPort}
    BY <1>1 DEF Learners
  <2>2. Access(learn.step, learn.host, learn.port)
    BY DEF LearnSource
  <2> QED BY <2>1, <2>2, AccessKeepsTables DEF TablesOK
<1>3. AfterLearn \in {"forget", "set", "deldst", "delsrc", "putdst", "putsrc", "idle"}
  BY DEF AfterLearn, AfterCheck
<1>4. AfterLearn # "idle" => [learn EXCEPT !.step = AfterLearn] \in Learners
  BY <1>1, <1>3 DEF Learners
<1>5. learn' \in Learned
  BY <1>4, ThreadStates DEF LearnSource
<1> QED BY <1>2, <1>5 DEF ThreadsOK, LearnSource

\* Collecting goes on with one of the hosts that are left.
LEMMA CollectingOK ==
    ASSUME NEW hosts \in SUBSET Hosts, Collecting(hosts)
    PROVE  collect' \in Collected
<1>1. CASE collect' = Idle
  BY <1>1, ThreadStates
<1>2. CASE \E h \in hosts : collect' = [step |-> "forget", host |-> h, rest |-> hosts \ {h}]
  <2>1. collect' \in Collectors
    BY <1>2 DEF Collectors
  <2> QED BY <2>1, ThreadStates
<1> QED BY <1>1, <1>2 DEF Collecting

\* It begins with those whose entries are old.
LEMMA CollectOK ==
    ASSUME ThreadsOK, Collect
    PROVE  ThreadsOK'
<1>1. \E old \in SUBSET Hosts : Collecting(old)
  BY DEF Collect
<1> QED BY <1>1, CollectingOK DEF ThreadsOK, Collect

\* It goes from access to access, and from host to host.
LEMMA RemoveOldOK ==
    ASSUME ThreadsOK, TablesOK, RemoveOld
    PROVE  ThreadsOK' /\ TablesOK' /\ aging' \in BOOLEAN
<1>1. collect \in Collectors
  BY ThreadStates DEF ThreadsOK, RemoveOld
<1>2. TablesOK'
  <2>1. collect.host \in Hosts /\ NoPort \in Ports \union {NoPort}
    BY <1>1 DEF Collectors
  <2>2. Access(collect.step, collect.host, NoPort)
    BY DEF RemoveOld
  <2> QED BY <2>1, <2>2, AccessKeepsTables DEF TablesOK
<1>3. collect' \in Collected
  <2>1. collect.step \in {"forget", "deldst", "delsrc"} /\ collect.rest \in SUBSET Hosts
    BY <1>1 DEF Collectors
  <2>2. \/ collect' = Idle
        \/ collect' = [collect EXCEPT !.step = "deldst"]
        \/ collect' = [collect EXCEPT !.step = "delsrc"]
        \/ Collecting(collect.rest)
    BY <2>1 DEF RemoveOld
  <2>3. /\ [collect EXCEPT !.step = "deldst"] \in Collectors
        /\ [collect EXCEPT !.step = "delsrc"] \in Collectors
    BY <1>1 DEF Collectors
  <2> QED BY <2>1, <2>2, <2>3, ThreadStates, CollectingOK
<1>4. aging' \in BOOLEAN
  BY DEF RemoveOld
<1> QED BY <1>2, <1>3, <1>4 DEF ThreadsOK, RemoveOld

\* At first nobody is known.
LEMMA LearnInitOK == LearnInit => LearnTypeOK
<1> SUFFICES ASSUME LearnInit PROVE LearnTypeOK
  OBVIOUS
<1>1. TablesOK
  BY DEF LearnInit, TablesOK, Places
<1>2. ThreadsOK
  BY ThreadStates, LearningAssumption DEF LearnInit, ThreadsOK
<1>3. aging \in BOOLEAN /\ gateway \in BOOLEAN
  BY DEF LearnInit
<1> QED BY <1>1, <1>2, <1>3, LearnParts

\* Steps of others change nothing of it.
LEMMA LearnStays == LearnTypeOK /\ UNCHANGED learnVars => LearnTypeOK'
BY DEF LearnTypeOK, learnVars

\* Every step of the switch's learning keeps the types.
LEMMA LearnNextOK ==
    ASSUME AccessTypeOK, LearnTypeOK, LearnNext
    PROVE  LearnTypeOK'
<1>0. TablesOK /\ ThreadsOK /\ aging \in BOOLEAN /\ gateway \in BOOLEAN /\ at \in Places
  BY LearnParts DEF AccessTypeOK, Places
<1>1. CASE \E h \in Hosts : Talk(h)
  BY <1>0, <1>1, TalkOK, LearnPartsNext DEF Talk, TablesOK
<1>2. CASE Read
  BY <1>0, <1>2, ReadOK, LearnPartsNext DEF Read, TablesOK
<1>3. CASE LearnSource
  BY <1>0, <1>3, LearnSourceOK, LearnPartsNext DEF LearnSource
<1>4. CASE LearnGateway
  BY <1>0, <1>4, LearnPartsNext DEF LearnGateway, TablesOK, ThreadsOK
<1>5. CASE Collect
  BY <1>0, <1>5, CollectOK, LearnPartsNext DEF Collect, TablesOK
<1>6. CASE CollectChanged
  BY <1>0, <1>6, LearnPartsNext DEF CollectChanged, TablesOK, ThreadsOK
<1>7. CASE RemoveOld
  BY <1>0, <1>7, RemoveOldOK, LearnPartsNext DEF RemoveOld
<1> QED BY <1>1, <1>2, <1>3, <1>4, <1>5, <1>6, <1>7 DEF LearnNext

\* The parts of a network keep their types, each whatever the others do.
LEMMA NetworkOK ==
    /\ Init => LearnTypeOK /\ TunnelsOK
    /\ AccessTypeOK /\ LearnTypeOK /\ TunnelsOK /\ [Next]_vars => LearnTypeOK' /\ TunnelsOK'
<1>1. Init => LearnTypeOK /\ TunnelsOK
  BY LearnInitOK, TunnelInitOK DEF Init
<1> SUFFICES ASSUME AccessTypeOK, LearnTypeOK, TunnelsOK, [Next]_vars
             PROVE  LearnTypeOK' /\ TunnelsOK'
  BY <1>1
<1>2. CASE Accesses
  BY <1>2, LearnStays, TunnelStays DEF Accesses
<1>3. CASE Learns
  <2>1. UNCHANGED tunnelVars
    BY <1>3 DEF Learns, Learning
  <2>2. LearnNext \/ UNCHANGED learnVars
    BY <1>3 DEF Learns
  <2> QED BY <2>1, <2>2, LearnNextOK, LearnStays, TunnelStays
<1>4. CASE Tunnels
  BY <1>4, LearnStays, TunnelNextOK DEF Tunnels
<1>5. CASE UNCHANGED vars
  BY <1>5, LearnStays, TunnelStays DEF vars
<1> QED BY <1>2, <1>3, <1>4, <1>5 DEF Next

\* The variables of a network stay in their types, whoever is in it.
THEOREM HostsTypes == Spec => []TypeOK
<1> DEFINE I == Planned /\ LearnTypeOK /\ TunnelsOK
<1>1. Init => I
  BY PlanStays, NetworkOK
<1>2. AccessTypeOK /\ I /\ [Next]_vars => I'
  BY PlanStays, NetworkOK
<1>3. AccessTypeOK /\ I => TypeOK
  BY TypeParts DEF TypeOK, TunnelsOK, Planned
<1> HIDE DEF I
<1> QED BY <1>1, <1>2, <1>3, HostsSafe, PTL DEF Spec

-----------------------------------------------------------------------------
(* The tunnel of a client that nothing disturbs: what handlers of the site *)
(* make of a concentrator without tunnels, or with the client's only.      *)

\* The concentrator has nothing of any tunnel.
Clean(c) == c.installed = {} /\ c.decrypt = {} /\ \A n \in Subnets : c.encrypt[n] = NoTunnel

\* It has all of t and nothing else.
Holds(c, t) == c.installed = {t.id} /\ c.decrypt = {t.id} /\ \A n \in Subnets : c.encrypt[n] = t

\* Not both.
LEMMA HeldIsNotClean == \A c, t : ~(Clean(c) /\ Holds(c, t))
BY DEF Clean, Holds

\* Where nothing is, remove does nothing.
LEMMA CleanRemoved ==
    ASSUME NEW c \in Concentrators, Clean(c), NEW t, NEW nets, NEW r \in Remove(c, t, nets)
    PROVE  r = c
BY DEF Clean, Remove

\* remove takes all of the tunnel, and does nothing about another.
LEMMA HeldRemoved ==
    ASSUME NEW c \in Concentrators, NEW t \in Tunnel, Holds(c, t), NEW u,
           NEW r \in Remove(c, u, Subnets)
    PROVE  IF u.id = t.id THEN Clean(r) /\ r.free = c.free ELSE r = c
<1>1. CASE u.id # t.id
  BY <1>1 DEF Holds, Remove
<1>2. CASE u.id = t.id
  <2> DEFINE e == Encrypt(c, Subnets, NoTunnel)
  <2>1. Entries(c, Subnets) = Subnets
    BY NoTunnelAssumption DEF Entries, Holds
  <2>2. r = Forget(e, u.id)
    BY <1>2, <2>1 DEF Remove, Holds
  <2>3. /\ e \in Concentrators /\ e.installed = c.installed /\ e.decrypt = c.decrypt
        /\ e.free = c.free /\ \A n \in Subnets : e.encrypt[n] = NoTunnel
    BY EncryptKeeps
  <2> HIDE DEF e
  <2>4. /\ r.installed = e.installed \ {u.id} /\ r.decrypt = e.decrypt \ {u.id}
        /\ r.encrypt = e.encrypt /\ r.free = e.free
    BY <2>2, <2>3, ForgetKeeps
  <2> QED BY <1>2, <2>3, <2>4 DEF Clean, Holds
<1> QED BY <1>1, <1>2

\* new puts all of a tunnel where nothing is, or finds no registers.
LEMMA CleanFilled ==
    ASSUME NEW c \in Concentrators, Clean(c), NEW t \in Tunnel, NEW r \in New(c, t, Subnets)
    PROVE  (Clean(r) /\ r.free = 0) \/ (c.free # 0 /\ Holds(r, t))
<1>1. Blocked(c, Subnets) = {} /\ t.id \notin c.installed /\ t.id \notin c.decrypt
  BY DEF Blocked, Entries, Clean
<1>2. CASE ~Enough(c)
  <2>1. r = Drained(c)
    BY <1>2 DEF New
  <2> QED BY <2>1, PoolKeeps DEF Clean
<1>3. CASE Enough(c)
  <2> DEFINE k == Taken(c)
             e == Encrypt(k, Subnets, t)
  <2>1. r = Install(e, t.id)
    BY <1>1, <1>3 DEF New
  <2>2. k \in Concentrators /\ k.installed = {} /\ k.decrypt = {}
    BY <1>3, PoolKeeps DEF Clean
  <2> HIDE DEF k
  <2>3. /\ e \in Concentrators /\ e.installed = {} /\ e.decrypt = {}
        /\ \A n \in Subnets : e.encrypt[n] = t
    BY <2>2, EncryptKeeps
  <2> HIDE DEF e
  <2>4. t.id \in 1..MaxTunnels
    BY DEF Tunnel
  <2>5. Holds(r, t)
    BY <2>1, <2>3, <2>4, InstallKeeps DEF Holds
  <2>6. c.free # 0
    BY <1>3 DEF Enough
  <2> QED BY <2>5, <2>6
<1> QED BY <1>2, <1>3

\* An INSERT is refused where there is an entry, and there is a subnet.
LEMMA HeldKept ==
    ASSUME NEW c \in Concentrators, NEW t \in Tunnel, Holds(c, t), NEW u \in Tunnel,
           NEW r \in New(c, u, Subnets)
    PROVE  Holds(r, t)
<1> DEFINE k == Taken(c)
<1>1. Blocked(c, Subnets) = Subnets /\ Subnets # {}
  BY NoTunnelAssumption, ClientTunnelsAssumption DEF Blocked, Entries, Holds
<1>2. CASE ~Enough(c)
  <2>1. r = Drained(c)
    BY <1>2 DEF New
  <2> QED BY <2>1, PoolKeeps DEF Holds
<1>3. CASE Enough(c)
  <2>1. k \in Concentrators /\ Holds(k, t)
    BY <1>3, PoolKeeps DEF Holds
  <2>2. r = k \/ r = Encrypt(k, {}, u)
    <3>1. SUBSET (Subnets \ Blocked(c, Subnets)) = {{}}
      BY <1>1
    <3>2. r = k \/ \E done \in {{}} : r = Encrypt(k, done, u)
      BY <1>1, <1>3, <3>1 DEF New
    <3> QED BY <3>2
  <2> HIDE DEF k
  <2> QED BY <2>1, <2>2, EncryptKeeps DEF Holds
<1> QED BY <1>2, <1>3

-----------------------------------------------------------------------------
(* The inductive invariant of a client that nothing disturbs.              *)

\* The client has no endpoint.
Away == {"off", "sniffing", "stopping"}

\* The client may have a tunnel.
Present == {"on", "leaving"}

\* A request is under way.
Asking == job.op = "request"

\* A refresh is under way.
Refreshing == job.op = "refresh"

\* Endpoints of earlier starts are gone.
GoneOK ==
    /\ stage \in Away \union Present
    /\ \A g \in Gens : g # gen \/ stage \in Away => nodes[g] = "none" /\ edges[g] = NoTunnel

\* The site has the tunnel that the WAN controller remembers, or none.
SiteOK ==
    \/ Clean(site)
    \/ stage \in Present /\ edges[gen] # NoTunnel /\ Holds(site, edges[gen])

\* The tunnel that is remembered is the client's, and none that was reported.
NumbersOK ==
    /\ \A x \in reported : x[1] <= made
    /\ stage \in Present /\ edges[gen] # NoTunnel =>
         /\ edges[gen].gen = gen /\ edges[gen].id <= made
         /\ \A x \in reported : x[1] # edges[gen].id

\* Requests are made for the first name only, while the client is connected.
JobOK ==
    /\ stage # "on" => job = NoJob
    /\ stage = "sniffing" => Tunneled = {}
    /\ stage = "leaving" => Tunneled = listed
    /\ stage = "on" /\ Tunneled = {} /\ job = NoJob => edges[gen] = NoTunnel
    /\ job # NoJob => edges[gen] # NoTunnel /\ job.tunnel.id <= made
    /\ Asking => Tunneled = {} /\ (reported = {} => edges[gen] = job.tunnel)
    /\ Refreshing => edges[gen].id # job.tunnel.id /\ job.target \notin due

\* If the site does not have the tunnel although it was told, its registers have
\* run out, so it takes no other tunnel either.
FreeOK ==
    stage = "on" /\ edges[gen] # NoTunnel /\ Clean(site) =>
        \/ site.free = 0
        \/ Asking /\ job.step = "install" /\ edges[gen] = job.tunnel

\* The client's policy is for the tunnel that is remembered until a limit is
\* reported, and so is what a refresh installs again.
KernelOK ==
    /\ stage \in Away => kernel.policy = NoTunnel
    /\ stage = "on" /\ Tunneled = {} => kernel.policy = NoTunnel
    /\ stage = "leaving" /\ left = {} => kernel.policy = NoTunnel
    /\ stage = "on" /\ Tunneled # {} =>
         /\ kernel.policy # NoTunnel /\ kernel.policy \in kernel.states
         /\ reported = {} => kernel.policy = edges[gen]
    /\ stage = "on" /\ reported = {} =>
         /\ \A d \in due : tunnels[d] = edges[gen]
         /\ Refreshing => tunnels[job.target] = edges[gen]

\* The parts of the invariant.
Quiet == GoneOK /\ SiteOK /\ NumbersOK /\ JobOK /\ FreeOK /\ KernelOK

\* A request is for the first name: nothing was remembered before.
LEMMA QuietRequest ==
    ASSUME TunnelsOK, Quiet, NEW d \in Targets, RequestTunnel(d), ~disturbed'
    PROVE  Quiet'
<1>1. stage = "on" /\ Tunneled = {} /\ job = NoJob /\ ~disturbed
  BY DEF RequestTunnel, OutOfSeason
<1>2. edges[gen] = NoTunnel /\ Clean(site) /\ due = {} /\ gen \in Gens
  BY <1>1 DEF Quiet, SiteOK, JobOK, TunnelsOK, Started
<1>3. /\ edges' = [edges EXCEPT ![gen] = Make]
      /\ nodes' = [nodes EXCEPT ![gen] = IF @ = "none" THEN "bare" ELSE @]
      /\ made' = made + 1 /\ stage' = stage /\ gen' = gen /\ Tunneled' = Tunneled
      /\ UNCHANGED <<kernel, site, reported, due, tunnels>>
  BY DEF RequestTunnel, Tunneled
<1>4. edges'[gen'] = Make /\ Make \in Tunnel /\ Make.id = made + 1 /\ Make.gen = gen
  BY <1>2, <1>3, MakeOK DEF TunnelsOK, WanOK, RequestTunnel, Make
<1>5. job'.op = "request" /\ job'.step = "install" /\ job'.tunnel = Make /\ job' # NoJob
  BY DEF RequestTunnel, NoJob
<1>6. GoneOK'
  BY <1>1, <1>2, <1>3 DEF Quiet, GoneOK, TunnelsOK, WanOK, Away, Present
<1>7. SiteOK'
  BY <1>2, <1>3 DEF SiteOK, Clean
<1>8. NumbersOK'
  <2>1. made \in Nat /\ \A x \in reported : x[1] \in Nat /\ x[1] <= made
    BY DEF TunnelsOK, WanOK, Quiet, NumbersOK
  <2> QED BY <1>3, <1>4, <2>1 DEF NumbersOK
<1>9. JobOK'
  <2>1. made \in Nat
    BY DEF TunnelsOK, WanOK
  <2> QED BY <1>1, <1>3, <1>4, <1>5, <2>1, NoTunnelAssumption DEF JobOK, Asking, Refreshing
<1>10. FreeOK'
  BY <1>4, <1>5 DEF FreeOK, Asking
<1>11. KernelOK'
  BY <1>1, <1>2, <1>3, <1>5 DEF Quiet, KernelOK, Refreshing, Away
<1> QED BY <1>6, <1>7, <1>8, <1>9, <1>10, <1>11 DEF Quiet

\* A refresh makes a tunnel that is none of those before.
LEMMA QuietRefresh ==
    ASSUME TunnelsOK, Quiet, NEW d \in Targets, RefreshTunnel(d), ~disturbed'
    PROVE  Quiet'
<1>1. stage = "on" /\ job = NoJob /\ d \in due /\ d \in Tunneled /\ gen \in Gens
  BY DEF RefreshTunnel, TunnelsOK, Started
<1>2. /\ due' = due \ {d} /\ Tunneled' = Tunneled
      /\ UNCHANGED <<stage, gen, tunnels, kernel, nodes, edges, site, reported, listed, left>>
  BY DEF RefreshTunnel, Tunneled
<1>3. \/ UNCHANGED <<job, made>>
      \/ /\ edges[gen] # NoTunnel /\ made' = made + 1 /\ made < MaxTunnels
         /\ job' = [op |-> "refresh", step |-> "install", target |-> d, tunnel |-> Make]
  BY DEF RefreshTunnel
<1>4. ~Asking /\ ~Refreshing
  BY <1>1 DEF Asking, Refreshing, NoJob
<1>5. ~Asking' /\ (Refreshing' => job'.target = d)
  BY <1>3, <1>4 DEF Asking, Refreshing
<1>6. GoneOK' /\ SiteOK'
  BY <1>2 DEF Quiet, GoneOK, SiteOK, Clean, Holds
<1>7. NumbersOK'
  <2>1. made' = made \/ made' = made + 1
    BY <1>3
  <2>2. /\ made \in Nat /\ \A x \in reported : x[1] \in Nat
        /\ edges[gen] # NoTunnel => edges[gen].id \in Nat
    BY <1>1 DEF TunnelsOK, WanOK, Tunnel
  <2> QED BY <1>2, <2>1, <2>2 DEF Quiet, NumbersOK
<1>8. JobOK'
  <2>1. CASE UNCHANGED <<job, made>>
    BY <1>1, <1>2, <1>4, <1>5, <2>1 DEF Quiet, JobOK, Asking, Refreshing
  <2>2. CASE /\ edges[gen] # NoTunnel /\ made' = made + 1 /\ made < MaxTunnels
             /\ job' = [op |-> "refresh", step |-> "install", target |-> d, tunnel |-> Make]
    <3>1. job'.tunnel.id = made + 1 /\ job'.target = d
      BY <2>2 DEF Make
    <3>2. made \in Nat /\ edges[gen].id \in Nat /\ edges[gen].id <= made
      BY <1>1, <2>2 DEF TunnelsOK, WanOK, Tunnel, Quiet, NumbersOK, Present
    <3>3. edges'[gen'].id # job'.tunnel.id /\ job'.tunnel.id <= made'
      BY <1>2, <2>2, <3>1, <3>2
    <3> QED BY <1>1, <1>2, <1>5, <2>2, <3>1, <3>3 DEF JobOK, Asking, Refreshing
  <2> QED BY <1>3, <2>1, <2>2
<1>9. FreeOK'
  BY <1>1, <1>2, <1>4 DEF Quiet, FreeOK, Clean
<1>10. KernelOK'
  BY <1>1, <1>2, <1>5 DEF Quiet, KernelOK
<1> QED BY <1>6, <1>7, <1>8, <1>9, <1>10 DEF Quiet

\* The site takes the tunnel that is remembered, and no other.
LEMMA QuietInstallAtSite ==
    ASSUME TunnelsOK, Quiet, InstallAtSite, ~disturbed'
    PROVE  Quiet'
<1>1. job \in Calls /\ job # NoJob /\ job.step = "install"
  BY CallsAreJobs DEF InstallAtSite, Calling, TunnelsOK, ClientOK
<1>2. stage = "on" /\ gen \in Gens /\ edges[gen] \in Tunnel /\ site \in Concentrators
  BY <1>1 DEF Quiet, JobOK, TunnelsOK, Started, WanOK
<1>3. job.tunnel \in Tunnel
  BY <1>1 DEF Calls
<1>4. /\ Asking => site' \in New(site, job.tunnel, Subnets)
      /\ Refreshing => site' \in Renew(site, job.tunnel, Subnets)
  <2>1. CASE Asking
    BY <2>1, AtSiteQuiet DEF InstallAtSite, Asking, Refreshing
  <2>2. CASE Refreshing
    BY <2>2, AtSiteQuiet DEF InstallAtSite, Asking, Refreshing
  <2> QED BY <2>1, <2>2
<1>5. Asking \/ Refreshing
  BY <1>1 DEF Calls, Asking, Refreshing
<1>6. (Clean(site') /\ site'.free = 0) \/ Holds(site', edges[gen])
  <2>1. CASE Clean(site)
    <3>1. site' \in New(site, job.tunnel, Subnets)
      BY <1>2, <1>4, <1>5, <2>1, CleanRemoved DEF Renew
    <3>2. (Clean(site') /\ site'.free = 0) \/ (site.free # 0 /\ Holds(site', job.tunnel))
      BY <1>2, <1>3, <2>1, <3>1, CleanFilled
    <3>3. site.free = 0 \/ edges[gen] = job.tunnel
      BY <1>2, <2>1, NoTunnelAssumption DEF Quiet, FreeOK
    <3> QED BY <3>2, <3>3
  <2>2. CASE Holds(site, edges[gen])
    <3>1. CASE Asking
      BY <1>2, <1>3, <1>4, <2>2, <3>1, HeldKept
    <3>2. CASE Refreshing
      <4>1. job.tunnel.id # edges[gen].id
        BY <3>2 DEF Quiet, JobOK
      <4>2. PICK m \in Remove(site, job.tunnel, Subnets) : site' \in New(m, job.tunnel, Subnets)
        BY <1>4, <3>2 DEF Renew
      <4>3. m = site
        BY <1>2, <2>2, <4>1, <4>2, HeldRemoved
      <4> QED BY <1>2, <1>3, <2>2, <4>2, <4>3, HeldKept
    <3> QED BY <1>5, <3>1, <3>2
  <2> QED BY <2>1, <2>2 DEF Quiet, SiteOK
<1>7. /\ UNCHANGED <<stage, gen, tunnels, due, listed, left, kernel, nodes, edges, reported, made>>
      /\ Tunneled' = Tunneled /\ job' = [job EXCEPT !.step = "answer"]
  BY DEF InstallAtSite, Tunneled
<1>8. job'.op = job.op /\ job'.tunnel = job.tunnel /\ job'.target = job.target
  BY <1>1, <1>7 DEF Calls
<1>9. GoneOK' /\ NumbersOK'
  BY <1>7 DEF Quiet, GoneOK, NumbersOK
<1>10. SiteOK' /\ FreeOK'
  <2>1. edges[gen] # NoTunnel
    BY <1>2, NoTunnelAssumption
  <2>2. Clean(site') => site'.free = 0
    BY <1>6, HeldIsNotClean
  <2> QED BY <1>2, <1>6, <1>7, <2>1, <2>2 DEF SiteOK, FreeOK, Present, Clean, Holds
<1>11. JobOK'
  <2>1. JobOK /\ job # NoJob /\ job' # NoJob
    BY <1>1, <1>8, CallsAreJobs DEF Quiet
  <2> QED BY <1>2, <1>7, <1>8, <2>1 DEF JobOK, Asking, Refreshing
<1>12. KernelOK'
  BY <1>7, <1>8 DEF Quiet, KernelOK, Refreshing
<1> QED BY <1>9, <1>10, <1>11, <1>12 DEF Quiet

\* The client sends with the tunnel of the request, also after a refresh.
LEMMA QuietAnswer ==
    ASSUME TunnelsOK, Quiet, Answer, ~disturbed'
    PROVE  Quiet'
<1>1. job \in Calls /\ job # NoJob /\ job.step = "answer" /\ job' = NoJob
  BY CallsAreJobs DEF Answer, TunnelsOK, ClientOK
<1>2. /\ stage = "on" /\ job.target \in Targets /\ job.tunnel \in Tunnel /\ job.tunnel # NoTunnel
  BY <1>1, NoTunnelAssumption DEF Quiet, JobOK, Calls
<1>3. ~Mishap
  BY DEF Mishap
<1>4. tunnels' = [tunnels EXCEPT ![job.target] = job.tunnel]
  BY <1>3 DEF Answer
<1>5. \/ /\ Asking /\ due' = due \union {job.target}
         /\ kernel' = InstallState(kernel, job.tunnel)
      \/ /\ Refreshing /\ due' = due
         /\ kernel' = InstallState(RemoveState(kernel, tunnels[job.target]),
                                   tunnels[job.target])
  BY <1>3 DEF Answer, Asking, Refreshing, Renewal
<1>6. UNCHANGED <<stage, gen, listed, left, nodes, edges, site, reported, made>>
  BY DEF Answer, wanVars
<1>7. job.target \in Tunneled'
  BY <1>2, <1>4 DEF Tunneled, TunnelsOK, ClientOK
<1>8. ~Asking' /\ ~Refreshing'
  BY <1>1, CallsAreJobs DEF Asking, Refreshing
<1>9. GoneOK' /\ NumbersOK' /\ SiteOK'
  BY <1>6 DEF Quiet, GoneOK, NumbersOK, SiteOK, Clean, Holds
<1>10. FreeOK'
  BY <1>1, <1>6 DEF Quiet, FreeOK, Clean
<1>11. JobOK'
  BY <1>1, <1>2, <1>6, <1>7, <1>8 DEF JobOK
<1>12. KernelOK'
  <2>1. /\ kernel'.policy # NoTunnel /\ kernel'.policy \in kernel'.states
        /\ reported = {} => kernel'.policy = edges[gen]
    <3>1. CASE Asking /\ kernel' = InstallState(kernel, job.tunnel)
      <4>1. kernel.policy = NoTunnel /\ (reported = {} => edges[gen] = job.tunnel)
        BY <1>2, <3>1 DEF Quiet, JobOK, KernelOK
      <4>2. kernel'.policy = job.tunnel /\ job.tunnel \in kernel'.states
        BY <3>1, <4>1 DEF InstallState
      <4> QED BY <1>2, <4>1, <4>2
    <3>2. CASE /\ Refreshing
               /\ kernel' = InstallState(RemoveState(kernel, tunnels[job.target]),
                                         tunnels[job.target])
      <4>1. tunnels[job.target] # NoTunnel /\ (reported = {} => tunnels[job.target] = edges[gen])
        BY <1>2, <3>2 DEF Quiet, KernelOK, TunnelsOK, Started, Refreshing, Tunneled
      <4>2. kernel'.policy = tunnels[job.target] /\ tunnels[job.target] \in kernel'.states
        BY <3>2 DEF InstallState, RemoveState
      <4> QED BY <4>1, <4>2
    <3> QED BY <1>5, <3>1, <3>2
  <2>2. ASSUME reported = {}, NEW d \in due' PROVE tunnels'[d] = edges[gen]
    <3>1. CASE Asking /\ due' = due \union {job.target}
      <4>1. due = {} /\ edges[gen] = job.tunnel
        BY <2>2, <3>1 DEF Quiet, JobOK, TunnelsOK, Started
      <4> QED BY <1>2, <1>4, <2>2, <3>1, <4>1 DEF TunnelsOK, ClientOK
    <3>2. CASE Refreshing /\ due' = due
      <4>1. d \in Targets /\ d # job.target /\ tunnels[d] = edges[gen]
        BY <1>2, <2>2, <3>2 DEF Quiet, JobOK, KernelOK, TunnelsOK, ClientOK
      <4> QED BY <1>2, <1>4, <4>1 DEF TunnelsOK, ClientOK
    <3> QED BY <1>5, <3>1, <3>2
  <2> QED BY <1>2, <1>6, <1>7, <1>8, <2>1, <2>2 DEF KernelOK, Away
<1> QED BY <1>9, <1>10, <1>11, <1>12 DEF Quiet

\* A client that is started again finds nothing of its earlier start.
LEMMA QuietLaunch ==
    ASSUME TunnelsOK, Quiet, Launch
    PROVE  Quiet'
<1>1. stage = "off" /\ stage' = "sniffing" /\ job' = NoJob /\ Tunneled' = {}
  BY DEF Launch, TunnelsOK, Started, Tunneled
<1>2. UNCHANGED <<kernel, nodes, edges, site, reported, made>>
  BY DEF Launch, wanVars
<1>3. /\ \A g \in Gens : nodes[g] = "none" /\ edges[g] = NoTunnel
      /\ Clean(site) /\ kernel.policy = NoTunnel
  BY <1>1 DEF Quiet, GoneOK, SiteOK, KernelOK, Away, Present
<1>4. GoneOK' /\ SiteOK' /\ FreeOK' /\ KernelOK'
  BY <1>1, <1>2, <1>3 DEF GoneOK, SiteOK, FreeOK, KernelOK, Clean, Away, Present
<1>5. NumbersOK'
  BY <1>1, <1>2 DEF Quiet, NumbersOK, Present
<1>6. JobOK'
  BY <1>1, CallsAreJobs DEF JobOK, Asking, Refreshing
<1> QED BY <1>4, <1>5, <1>6 DEF Quiet

\* It is connected before it asks for anything.
LEMMA QuietAddEndpoint ==
    ASSUME TunnelsOK, Quiet, AddEndpoint, ~disturbed'
    PROVE  Quiet'
<1>1. /\ stage = "sniffing" /\ stage' = "on" /\ nodes' = [nodes EXCEPT ![gen] = "full"]
      /\ UNCHANGED <<gen, tunnels, due, job, kernel, edges, site, reported, made>>
  BY DEF AddEndpoint, Mishap
<1>2. /\ gen \in Gens /\ edges[gen] = NoTunnel /\ job = NoJob /\ Tunneled = {} /\ due = {}
      /\ kernel.policy = NoTunnel
  BY <1>1 DEF Quiet, GoneOK, JobOK, KernelOK, TunnelsOK, Started, Away
<1>3. Tunneled' = {}
  BY <1>1, <1>2 DEF Tunneled
<1>4. GoneOK'
  BY <1>1 DEF Quiet, GoneOK, TunnelsOK, WanOK, Away, Present
<1>5. SiteOK' /\ FreeOK' /\ NumbersOK'
  BY <1>1, <1>2 DEF Quiet, SiteOK, FreeOK, NumbersOK, Clean, Present
<1>6. JobOK' /\ KernelOK'
  BY <1>1, <1>2, <1>3, CallsAreJobs DEF JobOK, KernelOK, Asking, Refreshing, Away
<1> QED BY <1>4, <1>5, <1>6 DEF Quiet

\* It leaves when nothing is under way.
LEMMA QuietQuit ==
    ASSUME TunnelsOK, Quiet, Quit, ~disturbed'
    PROVE  Quiet'
<1>1. /\ stage = "on" /\ stage' = "leaving" /\ job = NoJob /\ job' = NoJob
      /\ listed' = Tunneled /\ left' = Tunneled
      /\ UNCHANGED <<gen, tunnels, due, kernel, nodes, edges, site, reported, made>>
  BY CallsAreJobs DEF Quit, wanVars
<1>2. Tunneled' = Tunneled
  BY <1>1 DEF Tunneled
<1>3. GoneOK' /\ SiteOK' /\ NumbersOK' /\ FreeOK'
  BY <1>1 DEF Quiet, GoneOK, SiteOK, NumbersOK, FreeOK, Clean, Holds, Away, Present
<1>4. JobOK' /\ KernelOK'
  BY <1>1, <1>2, CallsAreJobs DEF Quiet, JobOK, KernelOK, Asking, Refreshing, Away
<1> QED BY <1>3, <1>4 DEF Quiet

\* The site removes the tunnel it has, or does nothing about one it never had.
LEMMA QuietRemoveTunnel ==
    ASSUME TunnelsOK, Quiet, NEW d \in Targets, RemoveTunnel(d), ~disturbed'
    PROVE  Quiet'
<1>1. /\ stage = "leaving" /\ kernel' = RemoveState(kernel, tunnels[d])
      /\ UNCHANGED <<stage, gen, tunnels, due, job, listed, nodes, edges, reported, made>>
      /\ Tunneled' = Tunneled
  BY DEF RemoveTunnel, Tunneled
<1>2. IF edges[gen] = NoTunnel THEN site' = site ELSE site' \in Remove(site, tunnels[d], Subnets)
  BY AtSiteQuiet DEF RemoveTunnel
<1>3. site \in Concentrators /\ gen \in Gens /\ edges[gen] \in Tunnel \union {NoTunnel}
  BY <1>1 DEF TunnelsOK, WanOK, Started
<1>4. Clean(site') \/ (edges[gen] # NoTunnel /\ Holds(site', edges[gen]))
  <2>1. CASE Clean(site)
    BY <1>2, <1>3, <2>1, CleanRemoved
  <2>2. CASE edges[gen] # NoTunnel /\ Holds(site, edges[gen])
    BY <1>2, <1>3, <2>2, HeldRemoved
  <2> QED BY <2>1, <2>2 DEF Quiet, SiteOK
<1>5. SiteOK'
  BY <1>1, <1>4 DEF SiteOK, Present, Clean, Holds
<1>6. GoneOK' /\ NumbersOK' /\ FreeOK'
  BY <1>1 DEF Quiet, GoneOK, NumbersOK, FreeOK
<1>7. JobOK' /\ KernelOK'
  BY <1>1, CallsAreJobs DEF Quiet, JobOK, KernelOK, RemoveState, Asking, Refreshing, Away
<1> QED BY <1>5, <1>6, <1>7 DEF Quiet

\* Whatever it had after that, is removed with the endpoint.
LEMMA QuietRemoveEndpoint ==
    ASSUME TunnelsOK, Quiet, RemoveEndpoint, ~disturbed'
    PROVE  Quiet'
<1>1. /\ stage = "leaving" /\ left = {} /\ stage' = "stopping"
      /\ UNCHANGED <<gen, tunnels, due, job, listed, left, kernel, reported, made>>
  BY DEF RemoveEndpoint
<1>2. /\ nodes' = [nodes EXCEPT ![gen] = "none"] /\ edges' = [edges EXCEPT ![gen] = NoTunnel]
      /\ AtSite(RemoveEndpointAt(gen), {})
  BY DEF RemoveEndpoint, Mishap
<1>3. site' \in RemoveEndpointAt(gen)
  BY <1>2, AtSiteQuiet
<1>4. site \in Concentrators /\ gen \in Gens /\ edges[gen] \in Tunnel \union {NoTunnel}
  BY <1>1 DEF TunnelsOK, WanOK, Started
<1>5. Clean(site')
  <2>1. CASE edges[gen] = NoTunnel
    BY <1>3, <2>1 DEF Quiet, SiteOK, RemoveEndpointAt
  <2>2. CASE edges[gen] # NoTunnel /\ Clean(site)
    BY <1>3, <1>4, <2>2, CleanRemoved DEF RemoveEndpointAt
  <2>3. CASE edges[gen] # NoTunnel /\ Holds(site, edges[gen])
    BY <1>3, <1>4, <2>3, HeldRemoved DEF RemoveEndpointAt
  <2> QED BY <2>1, <2>2, <2>3 DEF Quiet, SiteOK
<1>6. GoneOK'
  BY <1>1, <1>2 DEF Quiet, GoneOK, TunnelsOK, WanOK, Away, Present
<1>7. SiteOK' /\ NumbersOK' /\ FreeOK'
  BY <1>1, <1>5 DEF Quiet, SiteOK, NumbersOK, FreeOK, Clean, Present
<1>8. JobOK' /\ KernelOK'
  BY <1>1, CallsAreJobs DEF Quiet, JobOK, KernelOK, Asking, Refreshing, Away
<1> QED BY <1>6, <1>7, <1>8 DEF Quiet

\* It has come that far when it stops.
LEMMA QuietStops ==
    ASSUME TunnelsOK, Quiet, GiveUp \/ StopSniffing \/ GoDown, ~disturbed'
    PROVE  Quiet'
<1>1. ~GiveUp
  BY DEF GiveUp, Quiet, JobOK
<1>2. ~GoDown
  BY DEF GoDown, Mishap
<1>3. /\ stage = "stopping" /\ stage' = "off" /\ job' = NoJob
      /\ UNCHANGED <<gen, tunnels, due, kernel, nodes, edges, site, reported, made>>
  BY <1>1, <1>2 DEF StopSniffing, wanVars
<1>4. GoneOK' /\ SiteOK' /\ NumbersOK' /\ FreeOK'
  BY <1>3 DEF Quiet, GoneOK, SiteOK, NumbersOK, FreeOK, Clean, Away, Present
<1>5. JobOK' /\ KernelOK'
  BY <1>3, CallsAreJobs DEF Quiet, JobOK, KernelOK, Asking, Refreshing, Away
<1> QED BY <1>4, <1>5 DEF Quiet

\* Only the tunnel of the client that is on is renewed, and it is removed first.
LEMMA QuietUpdateSubnets ==
    ASSUME TunnelsOK, Quiet, UpdateSubnets
    PROVE  Quiet'
<1> DEFINE t == edges[gen]
           Good(c) == \/ Clean(c) /\ (c = site \/ c.free = 0)
                      \/ stage \in Present /\ t # NoTunnel /\ Holds(c, t)
           I == {c \in Concentrators : Good(c)}
<1>1. site \in Concentrators /\ edges \in [Gens -> Tunnel \union {NoTunnel}]
  BY DEF TunnelsOK, WanOK
<1>2. site \in I
  BY <1>1 DEF Quiet, SiteOK
<1>3. ASSUME NEW g \in Gens, edges[g] # NoTunnel, NEW c \in I, NEW r \in Renew(c, edges[g], Subnets)
      PROVE  r \in I
  <2>1. g = gen /\ stage \in Present /\ t \in Tunnel
    BY <1>1, <1>3 DEF Quiet, GoneOK
  <2>2. PICK m \in Remove(c, t, Subnets) : r \in New(m, t, Subnets)
    BY <1>3, <2>1 DEF Renew
  <2>3. m \in Concentrators /\ r \in Concentrators /\ c \in Concentrators
    BY <1>3, <2>1, <2>2, RemoveKeeps, NewKeeps
  <2>4. Clean(m)
    <3>1. CASE Clean(c)
      BY <2>2, <2>3, <3>1, CleanRemoved
    <3>2. CASE Holds(c, t)
      BY <2>1, <2>2, <2>3, <3>2, HeldRemoved
    <3> QED BY <3>1, <3>2
  <2>5. (Clean(r) /\ r.free = 0) \/ Holds(r, t)
    BY <2>1, <2>2, <2>3, <2>4, CleanFilled
  <2> QED BY <1>3, <2>1, <2>3, <2>5
<1> HIDE DEF I
<1>4. SiteRenewed \subseteq I
  BY <1>2, <1>3, RenewedEnds
<1>5. /\ site' \in I /\ Tunneled' = Tunneled
      /\ UNCHANGED <<stage, gen, tunnels, due, job, listed, left, kernel, nodes, edges, reported, made>>
  BY <1>4 DEF UpdateSubnets, clientVars, Tunneled
<1>6. \/ Clean(site') /\ (site' = site \/ site'.free = 0)
      \/ stage \in Present /\ t # NoTunnel /\ Holds(site', t) /\ ~Clean(site')
  BY <1>5, HeldIsNotClean DEF I
<1>7. SiteOK'
  BY <1>5, <1>6 DEF SiteOK, Clean, Holds
<1>8. FreeOK'
  <2>1. CASE Clean(site') /\ site' = site
    BY <1>5, <2>1 DEF Quiet, FreeOK, Clean, Asking
  <2>2. CASE site'.free = 0
    BY <2>2 DEF FreeOK
  <2>3. CASE ~Clean(site')
    BY <2>3 DEF FreeOK, Clean
  <2> QED BY <1>6, <2>1, <2>2, <2>3
<1>9. GoneOK' /\ NumbersOK' /\ JobOK' /\ KernelOK'
  BY <1>5 DEF Quiet, GoneOK, NumbersOK, JobOK, KernelOK, Asking, Refreshing
<1> QED BY <1>7, <1>8, <1>9 DEF Quiet

\* The switch reports only what it sends with, the tunnel that is remembered,
\* and that once: the hard limit is never reached.
LEMMA QuietPacketLimit ==
    ASSUME TunnelsOK, Quiet, NEW limit \in {"soft", "hard"}, PacketLimit(limit)
    PROVE  Quiet'
<1> DEFINE t == edges[gen]
           new == [id |-> made + 1, gen |-> gen]
<1>1. PICK n \in Subnets :
        /\ site.encrypt[n] # NoTunnel
        /\ limit = "hard" => <<site.encrypt[n].id, "soft">> \in reported
        /\ reported' = reported \union {<<site.encrypt[n].id, limit>>}
        /\ LET g == site.encrypt[n].gen
           IN  IF edges[g] = NoTunnel THEN UNCHANGED <<site, edges, made>>
               ELSE LET removed == Remove(site, edges[g], Subnets)
                        renewed == [id |-> made + 1, gen |-> g]
                    IN  \/ limit = "hard" /\ site' \in removed /\ UNCHANGED <<edges, made>>
                        \/ /\ limit = "soft" /\ made < MaxTunnels /\ made' = made + 1
                           /\ edges' = [edges EXCEPT ![g] = renewed]
                           /\ site' \in UNION {New(c, renewed, Subnets) : c \in removed}
  BY DEF PacketLimit
<1>2. /\ stage \in Present /\ t # NoTunnel /\ Holds(site, t) /\ site.encrypt[n] = t
      /\ t.gen = gen
  <2>1. ~Clean(site)
    BY <1>1 DEF Clean
  <2> QED BY <1>1, <2>1 DEF Quiet, SiteOK, NumbersOK, Holds
<1>3. gen \in Gens /\ site \in Concentrators /\ t \in Tunnel
  BY <1>2 DEF TunnelsOK, Started, WanOK, Present
<1>4. limit = "soft"
  <2>1. \A x \in reported : x[1] # t.id
    BY <1>2 DEF Quiet, NumbersOK
  <2>2. <<t.id, "soft">>[1] = t.id
    OBVIOUS
  <2> QED BY <1>1, <1>2, <2>1, <2>2
<1>5. /\ made < MaxTunnels /\ made' = made + 1 /\ edges' = [edges EXCEPT ![gen] = new]
      /\ site' \in UNION {New(c, new, Subnets) : c \in Remove(site, t, Subnets)}
      /\ reported' = reported \union {<<t.id, limit>>}
  BY <1>1, <1>2, <1>4
<1>6. new \in Tunnel /\ new # NoTunnel /\ new.id = made + 1 /\ new.gen = gen
  BY <1>3, <1>5, MakeOK, NoTunnelAssumption DEF TunnelsOK, WanOK
<1>7. edges'[gen] = new /\ \A g \in Gens : g # gen => edges'[g] = edges[g]
  BY <1>3, <1>5 DEF TunnelsOK, WanOK
<1> HIDE DEF new
<1>8. (Clean(site') /\ site'.free = 0) \/ (Holds(site', new) /\ ~Clean(site'))
  <2>1. PICK c \in Remove(site, t, Subnets) : site' \in New(c, new, Subnets)
    BY <1>5
  <2>2. c \in Concentrators /\ Clean(c)
    BY <1>2, <1>3, <2>1, RemoveKeeps, HeldRemoved
  <2> QED BY <1>6, <2>1, <2>2, CleanFilled, HeldIsNotClean
<1>9. /\ UNCHANGED <<stage, gen, tunnels, due, job, listed, left, kernel, nodes>>
      /\ Tunneled' = Tunneled
  BY DEF PacketLimit, clientVars, Tunneled
<1>10. GoneOK'
  BY <1>2, <1>7, <1>9 DEF Quiet, GoneOK, Present, Away
<1>11. SiteOK' /\ FreeOK'
  BY <1>2, <1>6, <1>7, <1>8, <1>9 DEF SiteOK, FreeOK, Clean, Holds
<1>12. made \in Nat /\ t.id \in Nat /\ t.id <= made /\ reported' # {}
  <2>1. made \in Nat /\ t.id <= made
    BY <1>2 DEF Quiet, NumbersOK, TunnelsOK, WanOK
  <2>2. t.id \in Nat
    BY <1>3 DEF Tunnel
  <2> QED BY <1>5, <2>1, <2>2
<1>13. NumbersOK'
  <2>1. \A x \in reported' : x[1] \in Nat /\ x[1] <= made
    BY <1>5, <1>12 DEF Quiet, NumbersOK, TunnelsOK, WanOK
  <2> QED BY <1>5, <1>6, <1>7, <1>9, <1>12, <2>1 DEF NumbersOK
<1>14. JobOK'
  <2>1. job # NoJob => job.tunnel.id \in Nat /\ job.tunnel.id <= made
    BY CallsAreJobs DEF Quiet, JobOK, TunnelsOK, ClientOK, Calls, Tunnel
  <2>2. job # NoJob => job.tunnel.id <= made' /\ new.id # job.tunnel.id
    BY <1>5, <1>6, <1>12, <2>1
  <2>3. Asking \/ Refreshing => job # NoJob
    BY CallsAreJobs DEF Asking, Refreshing
  <2>4. edges'[gen'] = new /\ new # NoTunnel /\ edges[gen] # NoTunnel
    BY <1>2, <1>6, <1>7, <1>9
  <2> QED BY <1>9, <1>12, <2>2, <2>3, <2>4 DEF Quiet, JobOK, Asking, Refreshing
<1>15. KernelOK'
  BY <1>9, <1>12 DEF Quiet, KernelOK
<1> QED BY <1>10, <1>11, <1>13, <1>14, <1>15 DEF Quiet

\* So it is until a call is lost, it goes down or asks out of season.
Undisturbed == ~disturbed => Quiet

\* At first there is nothing.
LEMMA QuietInit == TunnelInit => Quiet
<1> SUFFICES ASSUME TunnelInit PROVE Quiet
  OBVIOUS
<1>1. /\ stage = "off" /\ job = NoJob /\ kernel.policy = NoTunnel /\ reported = {}
      /\ \A g \in Gens : nodes[g] = "none" /\ edges[g] = NoTunnel
      /\ Clean(site)
  BY DEF TunnelInit, Fresh, Clean
<1>2. GoneOK /\ SiteOK /\ NumbersOK /\ FreeOK /\ KernelOK
  BY <1>1 DEF GoneOK, SiteOK, NumbersOK, FreeOK, KernelOK, Away, Present
<1>3. JobOK
  BY <1>1, CallsAreJobs DEF JobOK, Asking, Refreshing
<1> QED BY <1>2, <1>3 DEF Quiet

\* What was disturbed stays so.
LEMMA DisturbedStays == [TunnelNext]_tunnelVars /\ ~disturbed' => ~disturbed
<1> SUFFICES ASSUME [TunnelNext]_tunnelVars, disturbed, ~disturbed' PROVE FALSE
  OBVIOUS
<1>1. ~Mishap /\ ~Smooth /\ ~UNCHANGED disturbed
  BY DEF Mishap, Smooth
<1>2. \A outcomes, half : ~AtSite(outcomes, half)
  BY <1>1 DEF AtSite
<1>3. ~UNCHANGED tunnelVars /\ ~Launch /\ ~AddEndpoint /\ ~Quit /\ ~GiveUp /\ ~StopSniffing
  BY <1>1 DEF tunnelVars, clientVars, Launch, AddEndpoint, Quit, GiveUp, StopSniffing
<1>4. ~RemoveEndpoint /\ ~GoDown /\ ~InstallAtSite /\ ~Answer /\ ~UpdateSubnets
  BY <1>1, <1>2 DEF RemoveEndpoint, GoDown, InstallAtSite, Answer, UpdateSubnets, clientVars
<1>5. \A d \in Targets : ~RequestTunnel(d) /\ ~RefreshTunnel(d) /\ ~RemoveTunnel(d)
  BY <1>1, <1>2 DEF RequestTunnel, RefreshTunnel, RemoveTunnel
<1>6. \A limit \in {"soft", "hard"} : ~PacketLimit(limit)
  BY <1>1 DEF PacketLimit, clientVars
<1> QED BY <1>3, <1>4, <1>5, <1>6 DEF TunnelNext

\* Steps of others change nothing of it.
LEMMA QuietStays == Quiet /\ UNCHANGED tunnelVars => Quiet'
BY DEF Quiet, GoneOK, SiteOK, NumbersOK, JobOK, FreeOK, KernelOK, Clean, Holds, Tunneled,
       Asking, Refreshing, tunnelVars, clientVars, wanVars

\* Every step keeps the invariant, or disturbs the client.
LEMMA UndisturbedNext == TunnelsOK /\ Undisturbed /\ [TunnelNext]_tunnelVars => Undisturbed'
<1> SUFFICES ASSUME TunnelsOK, Undisturbed, [TunnelNext]_tunnelVars, ~disturbed' PROVE Quiet'
  BY DEF Undisturbed
<1>1. Quiet
  BY DisturbedStays DEF Undisturbed
<1>2. CASE UNCHANGED tunnelVars
  BY <1>1, <1>2, QuietStays
<1>3. CASE Launch \/ AddEndpoint \/ Quit \/ GiveUp \/ RemoveEndpoint \/ StopSniffing \/ GoDown
  BY <1>1, <1>3, QuietLaunch, QuietAddEndpoint, QuietQuit, QuietStops, QuietRemoveEndpoint
<1>4. CASE InstallAtSite \/ Answer \/ UpdateSubnets
  BY <1>1, <1>4, QuietInstallAtSite, QuietAnswer, QuietUpdateSubnets
<1>5. CASE \E d \in Targets : RequestTunnel(d) \/ RefreshTunnel(d) \/ RemoveTunnel(d)
  BY <1>1, <1>5, QuietRequest, QuietRefresh, QuietRemoveTunnel
<1>6. CASE \E limit \in {"soft", "hard"} : PacketLimit(limit)
  BY <1>1, <1>6, QuietPacketLimit
<1> QED BY <1>2, <1>3, <1>4, <1>5, <1>6 DEF TunnelNext

\* The steps of the client's tunnel, among those of the network.
LEMMA StepOfTunnel == [Next]_vars => [TunnelNext]_tunnelVars
BY DEF Next, Accesses, Learns, Learning, Tunnels, vars

\* It holds in every network.
LEMMA TunnelsInvariant == Spec => [](TunnelsOK /\ Undisturbed)
<1>1. Init => TunnelsOK /\ Undisturbed
  BY TunnelInitOK, QuietInit DEF Init, Undisturbed
<1>2. TunnelsOK /\ Undisturbed /\ [Next]_vars => (TunnelsOK /\ Undisturbed)'
  BY StepOfTunnel, TunnelNextOK, UndisturbedNext
<1> QED BY <1>1, <1>2, PTL DEF Spec

\* A client that nothing disturbs and its site send with the same tunnel, and can
\* decrypt it, for any number of starts, names, refreshes and updates of subnets.
THEOREM ClientAndSite == Spec => []SameTunnel
<1>1. TunnelsOK /\ Undisturbed => SameTunnel
  <2> SUFFICES ASSUME TunnelsOK, Quiet, stage = "on", job = NoJob, reported = {}, site.free > 0,
                      NEW n \in Subnets
               PROVE  /\ kernel.policy = site.encrypt[n]
                      /\ kernel.policy # NoTunnel =>
                           kernel.policy \in kernel.states /\ kernel.policy.id \in site.decrypt
    BY DEF Undisturbed, SameTunnel
  <2>1. site.free # 0 /\ ~Asking
    BY CallsAreJobs DEF Asking
  <2>2. CASE Tunneled = {}
    <3>1. edges[gen] = NoTunnel /\ kernel.policy = NoTunnel
      BY <2>2 DEF Quiet, JobOK, KernelOK
    <3>2. site.encrypt[n] = NoTunnel
      BY <3>1 DEF Quiet, SiteOK, Clean
    <3> QED BY <3>1, <3>2
  <2>3. CASE Tunneled # {}
    <3>1. /\ kernel.policy # NoTunnel /\ kernel.policy \in kernel.states
          /\ kernel.policy = edges[gen]
      BY <2>3 DEF Quiet, KernelOK
    <3>2. Holds(site, edges[gen])
      BY <2>1, <3>1 DEF Quiet, SiteOK, FreeOK
    <3> QED BY <3>1, <3>2 DEF Holds
  <2> QED BY <2>2, <2>3
<1> QED BY <1>1, TunnelsInvariant, PTL

\* It leaves no tunnel and no endpoint behind when it stops.
THEOREM ClientLeaves == Spec => []CleanLeave
<1>1. TunnelsOK /\ Undisturbed => CleanLeave
  BY DEF Undisturbed, Quiet, GoneOK, SiteOK, Clean, Away, Present, CleanLeave
<1> QED BY <1>1, TunnelsInvariant, PTL
=============================================================================
