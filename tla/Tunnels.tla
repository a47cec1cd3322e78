------------------------------- MODULE Tunnels -------------------------------
(***************************************************************************)
(* The IPsec tunnel between two sites: the network manager of the WAN      *)
(* controller (wan_lib/manager/network.py) and the concentrators of the    *)
(* sites, which the global controllers forward its calls to                *)
(* (global_lib/manager/ipsec.py).                                          *)
(*                                                                         *)
(* connect and disconnect are commands, one at a time.  Updates of subnets *)
(* take the lock of the WAN controller, or bypass it when one finds        *)
(* another under way (EventSystem); the notifications of packet limits do  *)
(* not take it (wan_lib/interface/ipsec.py).  A thread blocks in the calls *)
(* to the sites and only there; a call that fails is passed over           *)
(* (common_lib/stub/failable.py).  What a call does at a site is one step: *)
(* nothing is said of calls that meet there (met).                         *)
(***************************************************************************)
EXTENDS Concentrator, Sequences

CONSTANTS
    Sites,
    Workers,     \* threads of the WAN controller: REPL and gRPC workers
    HomeOf,      \* the site of a subnet
    Budget       \* bound: tunnels made, updates of subnets and calls lost, together
                 \* (a call may be lost in the step that makes the last tunnel)

ASSUME TunnelsAssumption ==
    /\ \E r, s \in Sites : r # s /\ Sites = {r, s}
    /\ HomeOf \in [Subnets -> Sites]
    /\ Budget \in Nat

VARIABLES
    conc,      \* the concentrator of each site
    subnets,   \* the subnets of an endpoint, as the WAN controller knows them
    edge,      \* the tunnel it remembers
    pc, job,   \* what its threads do
    drawn, updates,
    reported,  \* limits that a counter has passed, which it does once
    \* history, for the properties only
    lost,      \* which calls and writes were lost
    crossed,   \* whether two operations were under way at once
    met,       \* whether two of them called the same site at once
    doubled,   \* whether connect was called over a tunnel that is up
    wanted     \* whether connect was called last, and not disconnect

history == <<lost, crossed, doubled, wanted>>
vars == <<conc, subnets, edge, pc, job, drawn, updates, reported, met, history>>

Other(s) == CHOOSE r \in Sites : r # s

Home(s) == {n \in Subnets : HomeOf[n] = s}

NoNets == [s \in Sites |-> {}]

\* A tunnel that connect made shares the subnets of the endpoints (live); one
\* that was received has a copy.
Tunnel == [id : 1..Budget, first : Sites, live : BOOLEAN, nets : [Sites -> SUBSET Subnets]]

Message(t) == [id |-> t.id, first |-> t.first, nets |-> IF t.live THEN subnets ELSE t.nets]

Messages == [id : 1..Budget, first : Sites, nets : [Sites -> SUBSET Subnets]]

ASSUME NoTunnelAssumption == NoTunnel \notin Tunnel \union Messages

Limits == {"soft", "hard"}
Ops    == {"none", "connect", "disconnect", "refresh", "soft", "hard"}
Steps  == {"idle", "start", "remove1", "remove2", "new1", "new2", "renew1", "renew2"}
NoJob  == [op |-> "none", tunnel |-> NoTunnel, notice |-> NoTunnel]

InBudget == drawn + updates + Len(lost) < Budget

Commanding == \E w \in Workers : job[w].op \in {"connect", "disconnect"}

Running(w) == pc[w] \notin {"idle", "start"}

Target(w) ==
    IF pc[w] \in {"remove1", "new1", "renew1"} THEN job[w].tunnel.first
    ELSE Other(job[w].tunnel.first)

Meeting == \E v, w \in Workers : v # w /\ Running(v) /\ Running(w) /\ Target(v) = Target(w)

Goto(w, step) == pc' = [pc EXCEPT ![w] = step] /\ UNCHANGED job

Return(w) == pc' = [pc EXCEPT ![w] = "idle"] /\ job' = [job EXCEPT ![w] = NoJob]

Run(w, step, newJob) ==
    /\ pc' = [pc EXCEPT ![w] = step]
    /\ job' = [job EXCEPT ![w] = newJob]
    /\ crossed' = (crossed \/ \E v \in Workers \ {w} : Running(v))

\* Wrong on purpose: the second end is left out.
AfterFirst_Return(w, step) == Return(w)

AfterFirst(w, step) == Goto(w, step)

-----------------------------------------------------------------------------
(* Calls to a concentrator.                                                *)

Lose(what) == InBudget /\ lost' = Append(lost, what)

\* The handler ends in one of outcomes, or in one of half when a write is lost;
\* a call that is lost before it arrives is passed over.
Calls(w, outcomes, half) ==
    \/ UNCHANGED lost
       /\ \E c \in outcomes : conc' = [conc EXCEPT ![Target(w)] = c]
    \/ Lose("write")
       /\ \E c \in half : conc' = [conc EXCEPT ![Target(w)] = c]
    \/ Lose("call") /\ UNCHANGED conc

Nets(w) == Message(job[w].tunnel).nets[Other(Target(w))]

\* Wrong on purpose: the tunnel is not saved.
Save_Not(t) == UNCHANGED edge

Save(t) == edge' = t

NewAt(w) ==
    /\ pc[w] \in {"new1", "new2"}
    /\ LET c == conc[Target(w)]
           t == Message(job[w].tunnel)
       IN  Calls(w, New(c, t, Nets(w)), NewHalf(c, t, Nets(w)))
    /\ IF pc[w] = "new1" THEN AfterFirst(w, "new2") ELSE Return(w)
    /\ UNCHANGED <<subnets, edge, drawn, updates, reported, crossed, doubled, wanted>>

\* The second half of renew: a new tunnel between the endpoints of the
\* notification.
Reconnect(w) ==
    LET old == job[w].notice
        t   == [id |-> drawn + 1, first |-> old.first, live |-> FALSE, nets |-> old.nets]
    IN  /\ InBudget /\ drawn' = drawn + 1
        /\ Save(t)
        /\ pc' = [pc EXCEPT ![w] = "new1"]
        /\ job' = [job EXCEPT ![w].tunnel = t]

RemoveAt(w) ==
    /\ pc[w] \in {"remove1", "remove2"}
    /\ LET c == conc[Target(w)]
           t == Message(job[w].tunnel)
       IN  Calls(w, Remove(c, t, Nets(w)), RemoveHalf(c, t, Nets(w)))
    /\ \/ pc[w] = "remove1" /\ AfterFirst(w, "remove2") /\ UNCHANGED <<edge, drawn>>
       \/ pc[w] = "remove2" /\ job[w].op = "soft" /\ Reconnect(w)
       \/ pc[w] = "remove2" /\ job[w].op # "soft" /\ Return(w) /\ UNCHANGED <<edge, drawn>>
    /\ UNCHANGED <<subnets, updates, reported, crossed, doubled, wanted>>

\* A tunnel that is installed again has a register that counts from zero.
Recount(w) ==
    reported' = IF conc'[Target(w)] = conc[Target(w)] THEN reported
                ELSE {r \in reported : r[1] # Target(w) \/ r[2] # job[w].tunnel.id}

RenewAt(w) ==
    /\ pc[w] \in {"renew1", "renew2"}
    /\ LET c == conc[Target(w)]
           t == Message(job[w].tunnel)
       IN  Calls(w, Renew(c, t, Nets(w)), RenewHalf(c, t, Nets(w)))
    /\ Recount(w)
    /\ IF pc[w] = "renew1" THEN AfterFirst(w, "renew2") ELSE Return(w)
    /\ UNCHANGED <<subnets, edge, drawn, updates, crossed, doubled, wanted>>

-----------------------------------------------------------------------------
(* Commands and updates.                                                   *)

Connect(w, s) ==
    /\ pc[w] = "idle" /\ ~Commanding
    /\ InBudget /\ drawn' = drawn + 1
    /\ LET t == [id |-> drawn + 1, first |-> s, live |-> TRUE, nets |-> NoNets]
       IN  Save(t) /\ Run(w, "new1", [NoJob EXCEPT !.op = "connect", !.tunnel = t])
    /\ doubled' = (doubled \/ \E r \in Sites : conc[r].installed # {})
    /\ wanted' = TRUE
    /\ UNCHANGED <<conc, subnets, updates, reported, lost>>

\* The tunnel stays remembered.
Disconnect(w) ==
    /\ pc[w] = "idle" /\ ~Commanding
    /\ edge # NoTunnel
    /\ Run(w, "remove1", [NoJob EXCEPT !.op = "disconnect", !.tunnel = edge])
    /\ wanted' = FALSE
    /\ UNCHANGED <<conc, subnets, edge, drawn, updates, reported, lost, doubled>>

\* A tunnel that is remembered is renewed at both ends.
Refresh(w) ==
    \/ edge = NoTunnel /\ UNCHANGED <<pc, job, crossed>>
    \/ edge # NoTunnel /\ Run(w, "renew1", [NoJob EXCEPT !.op = "refresh", !.tunnel = edge])

AddSubnet(w, n) ==
    /\ pc[w] = "idle"
    /\ InBudget /\ updates' = updates + 1
    /\ subnets' = [subnets EXCEPT ![HomeOf[n]] = @ \union {n}]
    /\ Refresh(w)
    /\ UNCHANGED <<conc, edge, drawn, reported, lost, doubled, wanted>>

RemoveSubnet(w, n) ==
    /\ pc[w] = "idle"
    /\ n \in subnets[HomeOf[n]]
    /\ InBudget /\ updates' = updates + 1
    /\ subnets' = [subnets EXCEPT ![HomeOf[n]] = @ \ {n}]
    /\ Refresh(w)
    /\ UNCHANGED <<conc, edge, drawn, reported, lost, doubled, wanted>>

-----------------------------------------------------------------------------
(* Notifications.                                                          *)

\* A switch counts an encrypted packet up to a limit of its tunnel; the hard
\* limit comes after the soft one.
Limit(w, s, limit) ==
    /\ pc[w] = "idle"
    /\ \E n \in Subnets :
         LET t == conc[s].encrypt[n]
         IN  /\ t # NoTunnel
             /\ <<s, t.id, limit>> \notin reported
             /\ limit = "hard" => <<s, t.id, "soft">> \in reported
             /\ reported' = reported \union {<<s, t.id, limit>>}
             /\ pc' = [pc EXCEPT ![w] = "start"]
             /\ job' = [job EXCEPT ![w] = [NoJob EXCEPT !.op = limit, !.notice = t]]
    /\ UNCHANGED <<conc, subnets, edge, drawn, updates, history>>

\* renew and remove begin with disconnect, of the tunnel that is remembered now.
Begin(w) ==
    /\ pc[w] = "start"
    /\ Run(w, "remove1", [job[w] EXCEPT !.tunnel = edge])
    /\ UNCHANGED <<conc, subnets, edge, drawn, updates, reported, lost, doubled, wanted>>

-----------------------------------------------------------------------------
\* The sites have registered, with the subnets they have by then.
Init ==
    /\ conc = [s \in Sites |-> Fresh]
    /\ subnets \in [Sites -> SUBSET Subnets] /\ \A s \in Sites : subnets[s] \subseteq Home(s)
    /\ edge = NoTunnel
    /\ pc = [w \in Workers |-> "idle"] /\ job = [w \in Workers |-> NoJob]
    /\ drawn = 0 /\ updates = 0 /\ reported = {}
    /\ lost = <<>> /\ crossed = FALSE /\ met = FALSE /\ doubled = FALSE /\ wanted = FALSE

Step(w) ==
    \/ NewAt(w) \/ RemoveAt(w) \/ RenewAt(w) \/ Begin(w) \/ Disconnect(w)
    \/ \E s \in Sites : Connect(w, s) \/ \E limit \in Limits : Limit(w, s, limit)
    \/ \E n \in Subnets : AddSubnet(w, n) \/ RemoveSubnet(w, n)

Next == (\E w \in Workers : Step(w)) /\ met' = (met \/ Meeting')

Spec == Init /\ [][Next]_vars

-----------------------------------------------------------------------------
(* Properties.                                                             *)

Concentrators ==
    [installed : SUBSET (1..Budget), encrypt : [Subnets -> Messages \union {NoTunnel}],
     decrypt : SUBSET (1..Budget), free : 0..Registers]

\* The variables stay in their types.
TypeOK ==
    /\ conc \in [Sites -> Concentrators]
    /\ subnets \in [Sites -> SUBSET Subnets]
    /\ edge \in Tunnel \union {NoTunnel}
    /\ pc \in [Workers -> Steps]
    /\ job \in [Workers -> [op : Ops, tunnel : Tunnel \union {NoTunnel},
                            notice : Messages \union {NoTunnel}]]
    /\ \A w \in Workers :
         /\ Running(w) => job[w].tunnel # NoTunnel
         /\ job[w].op = "soft" => job[w].notice # NoTunnel
    /\ drawn \in 0..Budget /\ updates \in 0..Budget /\ Len(lost) <= Budget
    /\ reported \subseteq Sites \X (1..Budget) \X Limits
    /\ lost \in Seq({"call", "write"})
    /\ crossed \in BOOLEAN /\ met \in BOOLEAN /\ doubled \in BOOLEAN /\ wanted \in BOOLEAN

Quiet == \A w \in Workers : pc[w] \in {"idle", "start"}
LostOnly(what) == \A i \in DOMAIN lost : lost[i] \in what
Serial == ~crossed /\ lost = <<>> /\ updates = 0
Settled == \A s \in Sites : subnets[s] # {}

\* A concentrator can decrypt exactly the tunnels it remembers, also when an
\* encryption entry is refused or missing in the middle of new or remove, so
\* that remove finds what new left: whichever operations cross, whichever calls
\* are lost and however subnets change under a tunnel.
InstalledDecrypts ==
    ~met /\ LostOnly({"call"}) => \A s \in Sites : conc[s].installed = conc[s].decrypt

\* The entries of an end belong to one tunnel as a whole, or there are none: as
\* long as subnets stay, operations that cross and calls that are lost never
\* mix the keys of two tunnels at an end.
WholeTunnel ==
    ~met /\ LostOnly({"call"}) /\ updates = 0 =>
        \A s \in Sites :
            LET nets == subnets[Other(s)]
            IN  nets # {} =>
                  \/ conc[s].installed = {} /\ Entries(conc[s], Subnets) = {}
                  \/ \E t \in 1..Budget :
                       /\ conc[s].installed = {t}
                       /\ Entries(conc[s], Subnets) = nets
                       /\ \A n \in nets : conc[s].encrypt[n].id = t

\* Operations one after the other leave the same tunnel at both ends, through
\* renewals that both ends ask for, limits that are reported late, a pair that is
\* connected twice and a pool of registers that runs dry; each site has subnets.
SerialAgree ==
    Quiet /\ Serial /\ Settled => \A s, r \in Sites : conc[s].installed = conc[r].installed

\* A tunnel that is up is the one the WAN controller remembers and would
\* disconnect, if the pair was never connected over a tunnel that is up.
WanRemembers ==
    Quiet /\ Serial /\ ~doubled =>
        \A s \in Sites : conc[s].installed \subseteq {t.id : t \in {edge} \ {NoTunnel}}

-----------------------------------------------------------------------------
(* What the document says and the code does not do.                        *)

\* "You can disconnect them by running disconnect": a pair that was disconnected
\* last has no tunnel.  The code keeps the tunnel among those it remembers, and
\* installs it again when a subnet changes.
DisconnectedStaysDown ==
    Quiet /\ ~crossed /\ lost = <<>> /\ ~doubled /\ ~wanted =>
        \A s \in Sites : conc[s].installed = {}

=============================================================================
