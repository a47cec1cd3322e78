------------------------------ MODULE PortAccess ------------------------------
(***************************************************************************)
(* How a host gets access to a switch.  The authenticator                  *)
(* (local_lib/manager/authenticator.py) hands the EAP messages of a host   *)
(* to the RADIUS server, and the port authorizer                           *)
(* (local_lib/manager/port_authorizer.py) opens the host's port when the   *)
(* server accepts it.  A client (client_lib) that has access registers at  *)
(* the global controller, asks it for a MACsec rule for the link to the    *)
(* switch and then talks to the switch through MACsec only.                *)
(*                                                                         *)
(* Packets to the authenticator are handled one after the other by the     *)
(* thread that reads the switch's stream, so a packet is one step, with    *)
(* the two seconds it may wait for the server.  An exception ends it where *)
(* it is raised.                                                           *)
(***************************************************************************)
EXTENDS Naturals, Sequences, FiniteSets

CONSTANTS
    Hosts,      \* by MAC address
    Ports,
    SwitchMac, Broadcast,
    NoPort, NoSession, NoRule,
    MaxPackets, \* bound on EAP messages
    MaxRules,   \* bound on MACsec rules
    MaxFaults   \* bound on moves, crashes, late and lost answers, and writes and
                \* additions of rules that fail at the switch

ASSUME PortAccessAssumption ==
    /\ NoPort \notin Ports
    /\ SwitchMac \notin Hosts /\ Broadcast \notin Hosts /\ SwitchMac # Broadcast
    /\ MaxPackets \in Nat /\ MaxRules \in Nat /\ MaxFaults \in Nat
    /\ NoRule \notin 0..MaxRules

VARIABLES
    extern,    \* the ports that are open to all (extern_ports)
    at,        \* the port a host is plugged in
    sessions,  \* what the authenticator keeps of a host on a port (Supplicant)
    asked,     \* how many requests the RADIUS server got
    answers,   \* its answers that are in the socket
    mapping,   \* the port an authorized host is thought to be at
    entries,   \* the switch's authorizations by port and MAC, in and out
    phase,     \* what the program of a client does
    edge,      \* the port of the switch a client thinks it is at
    rule,      \* the MACsec rule of a client
    rules,     \* and of the port of a switch
    forced,    \* the ports that are open whoever sends
    slot,      \* which of the two keys of a rule the switch sends with
    timers,    \* the rules whose soft time limit is to come
    drawn, packets, faults,
    \* history, for the properties only
    approved,  \* where the server accepted a host last
    tried,     \* where a host has started to authenticate
    torn,      \* the hosts of which a write failed at a port, and none of the
               \* authorizations or their ends since has been whole
    failed,    \* the ports at which a rule could not be added
    strayed    \* whether a client was moved before it asked for a rule at the
               \* port it had found

authVars   == <<mapping, entries, torn>>
switchVars == <<sessions, asked, answers, authVars, approved, tried>>
macsecVars == <<edge, rule, rules, forced, slot, timers, drawn, failed, strayed>>
accessVars == <<extern, at, phase, packets, faults, switchVars, macsecVars>>

Session == [named : BOOLEAN, state : BOOLEAN]

Verdict == {"challenge", "accept", "reject"}

Way == {"in", "out"}

\* By the keys it was made with.
Rule == 1..MaxRules

\* What is left at a port when not all entries of a rule are written or deleted.
Half == 0

InFaults == faults < MaxFaults

Fault == InFaults /\ faults' = faults + 1

-----------------------------------------------------------------------------
(* The data plane.                                                         *)

\* Its packets pass the authorizer of the port.
Passes(way, h) == at[h] \in forced \/ <<way, at[h], h>> \in entries

\* A switch that has a rule for a port sends through MACsec only.
Hears(h) ==
    /\ at[h] # NoPort
    /\ rules[at[h]] = rule[h]
    /\ rule[h] # NoRule => slot[at[h]] = 1

Reaches(h) == Hears(h) /\ Passes("in", h) /\ Passes("out", h)

-----------------------------------------------------------------------------
(* The port authorizer.                                                    *)

\* Its entries for h on p, in the order they are written and deleted.
Authorization(p, h) ==
    <<<<"in", p, h>>, <<"in", p, SwitchMac>>, <<"out", p, h>>, <<"out", p, Broadcast>>>>

\* How many table operations are done before the first that is refused.
Done(todo, refused) ==
    CHOOSE n \in 0..Len(todo) :
        /\ \A k \in 1..n : todo[k] \notin refused
        /\ n < Len(todo) => todo[n + 1] \in refused

First(todo, n) == {todo[k] : k \in 1..n}

\* A write fails in the middle, done or not: the handler ends where it was.
LosesWrite(p, h) == Fault /\ UNCHANGED mapping /\ torn' = torn \union {<<p, h>>}

\* An entry that is there is refused, and the host is not mapped; a host that
\* was mapped to another port is not looked up.
Authorize(p, h) ==
    LET todo == Authorization(p, h)
        n    == Done(todo, entries)
    IN  \/ /\ entries' = entries \union First(todo, n) /\ UNCHANGED faults
           /\ IF n < Len(todo) THEN UNCHANGED <<mapping, torn>>
              ELSE mapping' = [mapping EXCEPT ![h] = p] /\ torn' = torn \ {<<p, h>>}
        \/ /\ LosesWrite(p, h)
           /\ \E k \in 0..n : entries' = entries \union First(todo, k)

\* Wrong on purpose: the entries for packets to the host stay.
Unauthorize_In(h) ==
    /\ entries' = {e \in entries : e[1] = "out" \/ e[2] # mapping[h]}
    /\ mapping' = [mapping EXCEPT ![h] = NoPort] /\ UNCHANGED <<torn, faults>>

\* Of a host that is mapped.
Unauthorize(h) ==
    LET todo == Authorization(mapping[h], h)
        n    == Done(todo, First(todo, Len(todo)) \ entries)
    IN  \/ /\ entries' = entries \ First(todo, n) /\ UNCHANGED faults
           /\ IF n < Len(todo) THEN UNCHANGED <<mapping, torn>>
              ELSE /\ mapping' = [mapping EXCEPT ![h] = NoPort]
                   /\ torn' = torn \ {<<mapping[h], h>>}
        \/ /\ LosesWrite(mapping[h], h)
           /\ \E k \in 0..n : entries' = entries \ First(todo, k)

-----------------------------------------------------------------------------
(* The authenticator.                                                      *)

SessionOf(h) == sessions[<<at[h], h>>]

SetSession(h, s) == sessions' = [sessions EXCEPT ![<<at[h], h>>] = s]

Packet(h) == at[h] # NoPort /\ packets < MaxPackets /\ packets' = packets + 1

\* A start makes a new supplicant and asks for the identity.
EapStart(h) ==
    /\ Packet(h)
    /\ SetSession(h, [named |-> FALSE, state |-> FALSE])
    /\ tried' = tried \union {<<at[h], h>>}
    /\ UNCHANGED <<extern, at, asked, answers, authVars, approved, phase, macsecVars, faults>>

Logoff(h) ==
    IF at[h] = NoPort \/ mapping[h] = NoPort THEN UNCHANGED <<sessions, authVars, faults>>
    ELSE IF SessionOf(h) = NoSession THEN UNCHANGED <<sessions, authVars, faults>>
    ELSE /\ Unauthorize(h)
         /\ IF mapping'[h] = NoPort THEN SetSession(h, NoSession) ELSE UNCHANGED sessions

EapLogoff(h) ==
    /\ Packet(h) /\ Logoff(h)
    /\ UNCHANGED <<extern, at, asked, answers, approved, tried, phase, macsecVars>>

\* The server accepts who was challenged and named.
Verdicts(s, kind) ==
    IF kind = "identity" THEN {"challenge", "reject"}
    ELSE IF s.named /\ s.state THEN Verdict ELSE {"reject"}

Apply(h, s, verdict) ==
    CASE verdict = "challenge" ->
           SetSession(h, [s EXCEPT !.state = TRUE]) /\ UNCHANGED <<authVars, faults>>
      [] verdict = "accept" -> SetSession(h, s) /\ Authorize(at[h], h)
      [] verdict = "reject" /\ mapping[h] # NoPort -> SetSession(h, s) /\ Unauthorize(h)
      [] OTHER -> SetSession(h, s) /\ UNCHANGED <<authVars, faults>>

\* Wrong on purpose: whatever comes is the answer.
Authentic_Any(answer, n) == TRUE

\* An answer is authenticated with the request that was sent last.
Authentic(answer, n) == answer.request = n

Decide(h, verdict) ==
    approved' = CASE verdict = "accept" -> approved \union {<<at[h], h>>}
                  [] verdict = "reject" -> approved \ {<<at[h], h>>}
                  [] OTHER -> approved

\* The next datagram in the socket is read; if there is none for two seconds the
\* handler ends.  An answer that is late is read for a later request; one that is
\* applied has come in time.
EapResponse(h, kind) ==
    LET s == [SessionOf(h) EXCEPT !.named = @ \/ kind = "identity"]
        n == asked + 1
    IN  /\ Packet(h) /\ Hears(h) /\ SessionOf(h) # NoSession
        /\ asked' = n
        /\ \E verdict \in Verdicts(s, kind), comes \in {"now", "late", "never"} :
             LET mine  == <<[request |-> n, verdict |-> verdict]>>
                 queue == answers \o IF comes = "now" THEN mine ELSE <<>>
                 after == IF comes = "late" THEN mine ELSE <<>>
             IN  /\ Decide(h, verdict)
                 /\ answers' = IF queue = <<>> THEN after ELSE Tail(queue) \o after
                 /\ IF queue # <<>> /\ Authentic(Head(queue), n)
                    THEN Apply(h, s, Head(queue).verdict)
                    ELSE /\ SetSession(h, s) /\ UNCHANGED authVars
                         /\ IF comes = "now" THEN UNCHANGED faults ELSE Fault
    /\ UNCHANGED <<extern, at, tried, phase, macsecVars>>

-----------------------------------------------------------------------------
(* A client.  It is gone when a call fails or an exception is raised.      *)

Goto(h, step) == phase' = [phase EXCEPT ![h] = step]

\* wpa_supplicant authenticates; the client waits for some lines of its output,
\* whatever they say.
Start(h) ==
    /\ phase[h] = "off" /\ at[h] # NoPort
    /\ Goto(h, "authenticate")
    /\ UNCHANGED <<extern, at, switchVars, macsecVars, packets, faults>>

Register(h) ==
    /\ phase[h] = "authenticate"
    /\ Goto(h, IF Reaches(h) THEN "find" ELSE "off")
    /\ UNCHANGED <<extern, at, switchVars, macsecVars, packets, faults>>

\* The BDDP packets that may come first, by whose key they are sealed with: those
\* the client asked for, or the site's.  None is sent on an extern port.
Bddp(h) == IF at[h] \in extern THEN {} ELSE {"client", "site"}

Readable(sealed) == sealed = "client"

\* A packet that cannot be read ends the client; without one it waits for ever.
Find(h) ==
    /\ phase[h] = "find"
    /\ \/ ~Reaches(h) /\ Goto(h, "off") /\ UNCHANGED edge
       \/ Reaches(h) /\ \E sealed \in Bddp(h) :
            IF Readable(sealed) THEN Goto(h, "request") /\ edge' = [edge EXCEPT ![h] = at[h]]
            ELSE Goto(h, "off") /\ UNCHANGED edge
    /\ UNCHANGED <<extern, at, switchVars, rule, rules, forced, slot, timers, drawn, failed,
                   strayed, packets, faults>>

\* At the switch a rule of a port that is open is removed first.  What is left at a
\* port that is not is refused, before and after the rollback.
Stuck(p) == rules[p] # NoRule /\ p \notin forced

AddRule(p, n) ==
    /\ ~Stuck(p)
    /\ rules' = [rules EXCEPT ![p] = n] /\ slot' = [slot EXCEPT ![p] = 1]
    /\ forced' = forced \union {p} /\ timers' = timers \union {p}
    /\ UNCHANGED failed

AddRefused(p) ==
    /\ Stuck(p)
    /\ timers' = timers \union {p} /\ failed' = failed \union {p}
    /\ UNCHANGED <<rules, slot, forced>>

\* A write fails, or there is no register: after the rollback and the second try
\* the port is not open.  Nobody is told.
AddFails(p, n) ==
    /\ ~Stuck(p)
    /\ \E left \in {NoRule, Half, n, rules[p]} : rules' = [rules EXCEPT ![p] = left]
    /\ slot' \in {slot, [slot EXCEPT ![p] = 1]}
    /\ forced' = forced \ {p} /\ timers' \in {timers, timers \union {p}}
    /\ failed' = failed \union {p}

\* The client sends through MACsec from now on.
InstallRule(h, n) == rule' = [rule EXCEPT ![h] = n]

\* Both get a rule of the same keys, the client whether or not the switch could
\* add it; the answer to the client may be lost.
RequestRule(h) ==
    /\ phase[h] = "request"
    /\ \/ /\ Reaches(h) /\ drawn < MaxRules /\ drawn' = drawn + 1
          /\ \/ /\ AddRule(edge[h], drawn + 1) \/ AddRefused(edge[h])
                /\ \/ Goto(h, "up") /\ InstallRule(h, drawn + 1) /\ UNCHANGED faults
                   \/ Goto(h, "off") /\ UNCHANGED rule /\ Fault
             \/ /\ AddFails(edge[h], drawn + 1) /\ Fault
                /\ Goto(h, "up") /\ InstallRule(h, drawn + 1)
       \/ /\ ~Reaches(h) /\ Goto(h, "off")
          /\ UNCHANGED <<rule, rules, forced, slot, timers, drawn, failed, faults>>
    /\ UNCHANGED <<extern, at, switchVars, edge, strayed, packets>>

\* Wrong on purpose: the switch gets a new key as for a link between switches.
Renewed_Any(p) == [rules EXCEPT ![p] = drawn + 1]

\* The global controller renews the links of its topology; a client's is not one.
Renewed(p) == rules

SoftLimit(p) ==
    /\ p \in timers /\ timers' = timers \ {p}
    /\ rules' = Renewed(p)
    /\ UNCHANGED <<extern, at, phase, switchVars, edge, rule, forced, slot, drawn, failed,
                   strayed, packets, faults>>

\* The switch has sent so many packets that it takes the other key, which is
\* random: the client's rule was never renewed.
HardLimit(p) ==
    /\ rules[p] # NoRule /\ slot[p] = 1
    /\ slot' = [slot EXCEPT ![p] = 2]
    /\ UNCHANGED <<extern, at, phase, switchVars, edge, rule, rules, forced, timers, drawn,
                   failed, strayed, packets, faults>>

\* Shutdown: first the logoff.
Stop(h) ==
    /\ phase[h] = "up"
    /\ Logoff(h) /\ Goto(h, "leave")
    /\ UNCHANGED <<extern, at, asked, answers, approved, tried, macsecVars, packets>>

\* The client's interface for MACsec is deleted.
UninstallRule(h) == rule' = [rule EXCEPT ![h] = NoRule] /\ edge' = [edge EXCEPT ![h] = NoPort]

\* At the switch: nothing more is removed if the port was not forced open.
RemoveRule(p) ==
    /\ forced' = forced \ {p}
    /\ rules' = IF p \in forced THEN [rules EXCEPT ![p] = NoRule] ELSE rules

\* A write fails after the port was closed.
RemoveFails(p) ==
    /\ p \in forced /\ forced' = forced \ {p}
    /\ \E left \in {rules[p], Half, NoRule} : rules' = [rules EXCEPT ![p] = left]

\* Then MACsec is taken down and the global controller asked to remove the rule;
\* the way to it may be closed by then.
Leave(h) ==
    /\ phase[h] = "leave"
    /\ Goto(h, "off") /\ UninstallRule(h)
    /\ \/ /\ at[h] # NoPort /\ Passes("in", h)
          /\ \/ RemoveRule(edge[h]) /\ UNCHANGED faults
             \/ RemoveFails(edge[h]) /\ Fault
       \/ UNCHANGED <<rules, forced, faults>>
    /\ UNCHANGED <<extern, at, switchVars, slot, timers, drawn, failed, strayed, packets>>

\* The host goes down without a word.
Crash(h) ==
    /\ phase[h] # "off" /\ Fault
    /\ Goto(h, "off") /\ UninstallRule(h)
    /\ UNCHANGED <<extern, at, switchVars, rules, forced, slot, timers, drawn, failed, strayed,
                   packets>>

Move(h) ==
    /\ Fault
    /\ \E p \in (Ports \union {NoPort}) \ {at[h]} : at' = [at EXCEPT ![h] = p]
    /\ strayed' = (strayed \/ phase[h] = "request")
    /\ UNCHANGED <<extern, phase, switchVars, edge, rule, rules, forced, slot, timers, drawn, failed,
                   packets>>

-----------------------------------------------------------------------------
AccessInit ==
    /\ extern \in SUBSET Ports /\ at \in [Hosts -> Ports \union {NoPort}]
    /\ sessions = [x \in Ports \X Hosts |-> NoSession]
    /\ asked = 0 /\ answers = <<>>
    /\ mapping = [h \in Hosts |-> NoPort] /\ entries = {}
    /\ approved = {} /\ tried = {} /\ torn = {} /\ failed = {}
    /\ phase = [h \in Hosts |-> "off"]
    /\ edge = [h \in Hosts |-> NoPort] /\ rule = [h \in Hosts |-> NoRule]
    /\ rules = [p \in Ports |-> NoRule] /\ forced = extern
    /\ slot = [p \in Ports |-> 1] /\ timers = {}
    /\ drawn = 0 /\ strayed = FALSE
    \* a behaviour may have fewer of them left than the bounds say
    /\ packets \in 0..MaxPackets /\ faults \in 0..MaxFaults

AccessStep(h) ==
    \/ EapStart(h) \/ EapLogoff(h) \/ \E kind \in {"identity", "method"} : EapResponse(h, kind)
    \/ Start(h) \/ Register(h) \/ Find(h) \/ RequestRule(h) \/ Stop(h) \/ Leave(h)
    \/ Crash(h) \/ Move(h)

AccessNext ==
    \/ \E h \in Hosts : AccessStep(h)
    \/ \E p \in Ports : SoftLimit(p) \/ HardLimit(p)

AccessSpec == AccessInit /\ [][AccessNext]_accessVars

-----------------------------------------------------------------------------
(* Properties.                                                             *)

AccessTypeOK ==
    /\ extern \subseteq Ports /\ at \in [Hosts -> Ports \union {NoPort}]
    /\ sessions \in [Ports \X Hosts -> Session \union {NoSession}]
    /\ asked \in 0..MaxPackets
    /\ answers \in Seq([request : 1..MaxPackets, verdict : Verdict])
    /\ mapping \in [Hosts -> Ports \union {NoPort}]
    /\ entries \subseteq Way \X Ports \X (Hosts \union {SwitchMac, Broadcast})
    /\ phase \in [Hosts -> {"off", "authenticate", "find", "request", "up", "leave"}]
    /\ edge \in [Hosts -> Ports \union {NoPort}]
    /\ rule \in [Hosts -> Rule \union {NoRule}]
    /\ rules \in [Ports -> Rule \union {Half, NoRule}]
    /\ forced \subseteq Ports /\ slot \in [Ports -> 1..2] /\ timers \subseteq Ports
    /\ drawn \in 0..MaxRules /\ packets \in 0..MaxPackets /\ faults \in 0..MaxFaults
    /\ approved \subseteq Ports \X Hosts /\ tried \subseteq Ports \X Hosts
    /\ torn \subseteq Ports \X Hosts /\ failed \subseteq Ports /\ strayed \in BOOLEAN

Gate == INSTANCE PortGate WITH open <- {x \in Ports \X Hosts : <<"in", x[1], x[2]>> \in entries}

\* The entries that let a host send change only with the server's answer to its
\* own request, or when it logs off: no answer that was late, was lost or was
\* meant for another request ever opens or closes a port.
GateKept == Gate!Spec

Tried(p, h) == {x \in tried : x[1] = p \/ x[2] = h} \subseteq {<<p, h>>}

\* A host that is authorized has all its entries, and one that is not has none,
\* whether it authenticates again and again, is rejected later or logs off: as
\* long as it has tried no other port and no other host has tried its port, and
\* no write to the switch was lost in the middle.  After a lost write, one that is
\* not authorized keeps the first few of its entries, and until it is all there
\* or all gone again only entries of its own are left.
AccessWhole ==
    \A p \in Ports, h \in Hosts :
        Tried(p, h) =>
            LET held == {e \in entries : e[2] = p}
                all  == First(Authorization(p, h), 4)
            IN  IF <<p, h>> \in torn
                THEN /\ held \subseteq all
                     /\ mapping[h] # p => \E n \in 0..4 : held = First(Authorization(p, h), n)
                ELSE held = IF mapping[h] = p THEN all ELSE {}

\* A client and the switch it is at hold the same rule for as long as the client
\* is up, and the port stays open: through clients that move, crash or share a
\* port, through limits that are reported and answers and removals that are lost;
\* as long as no client asks for a rule at a port that it was moved away from, and
\* at ports where every rule could be added: a client is not told that the switch
\* could not add its rule, and is up without one.
MacsecAgrees ==
    ~strayed =>
        \A h \in Hosts :
            phase[h] \in {"up", "leave"} /\ edge[h] \notin failed =>
                rules[edge[h]] = rule[h] /\ edge[h] \in forced
=============================================================================
