-------------------------- MODULE PortAccessProofs --------------------------
(***************************************************************************)
(* Proofs about PortAccess for any number of hosts, ports, packets, rules  *)
(* and faults: its types, that it implements PortGate, that a host has all *)
(* its entries or none unless a write was lost, and that a client and its  *)
(* switch agree on a rule that could be added.                             *)
(***************************************************************************)
EXTENDS PortAccess, SequenceTheorems, TLAPS

-----------------------------------------------------------------------------
(* Table operations that end at the first one that is refused.             *)

\* Of four operations, those before the first refused one are done.
LEMMA DoneOfFour ==
    ASSUME NEW todo, Len(todo) = 4, NEW refused
    PROVE  LET n == Done(todo, refused)
           IN  /\ n \in 0..4
               /\ \A k \in 1..n : todo[k] \notin refused
               /\ n < 4 => todo[n + 1] \in refused
<1>1. \E n \in 0..4 : /\ \A k \in 1..n : todo[k] \notin refused
                      /\ n < 4 => todo[n + 1] \in refused
  <2>1. CASE todo[1] \in refused
    BY <2>1
  <2>2. CASE todo[1] \notin refused /\ todo[2] \in refused
    BY <2>2
  <2>3. CASE todo[1] \notin refused /\ todo[2] \notin refused /\ todo[3] \in refused
    BY <2>3
  <2>4. CASE /\ todo[1] \notin refused /\ todo[2] \notin refused
             /\ todo[3] \notin refused /\ todo[4] \in refused
    BY <2>4
  <2>5. CASE /\ todo[1] \notin refused /\ todo[2] \notin refused
             /\ todo[3] \notin refused /\ todo[4] \notin refused
    BY <2>5
  <2> QED BY <2>1, <2>2, <2>3, <2>4, <2>5
<1> QED BY <1>1 DEF Done

\* The four entries of a host on a port.
LEMMA FourEntries ==
    ASSUME NEW p, NEW h
    PROVE  /\ Len(Authorization(p, h)) = 4
           /\ First(Authorization(p, h), 4) =
                {<<"in", p, h>>, <<"in", p, SwitchMac>>, <<"out", p, h>>, <<"out", p, Broadcast>>}
           /\ \A n \in 0..4 : First(Authorization(p, h), n) \subseteq First(Authorization(p, h), 4)
<1> DEFINE todo == Authorization(p, h)
<1>1. /\ Len(todo) = 4
      /\ todo[1] = <<"in", p, h>> /\ todo[2] = <<"in", p, SwitchMac>>
      /\ todo[3] = <<"out", p, h>> /\ todo[4] = <<"out", p, Broadcast>>
  BY DEF Authorization
<1> HIDE DEF todo
<1>2. 1..4 = {1, 2, 3, 4}
  OBVIOUS
<1>3. First(todo, 4) = {todo[1], todo[2], todo[3], todo[4]}
  BY <1>2 DEF First
<1>4. \A n \in 0..4 : First(todo, n) \subseteq First(todo, 4)
  BY DEF First
<1> QED BY <1>1, <1>3, <1>4 DEF todo

\* A write was lost: the mapping stays, and the pair is one with a part.
Torn(p, h) == mapping' = mapping /\ torn' = torn \union {<<p, h>>}

\* An authorization adds entries of the host, the switch and broadcasts on the
\* port, the first few where there were none and none where the first one was.  It
\* is whole and the host mapped, or some entry was there before, or a write is
\* lost.
LEMMA AuthorizeEffect ==
    ASSUME NEW p, NEW h, Authorize(p, h)
    PROVE  LET todo == Authorization(p, h)
               all  == First(todo, 4)
           IN  /\ \E k \in 0..4 : entries' = entries \union First(todo, k)
               /\ <<"in", p, h>> \in entries => UNCHANGED entries
               /\ \/ /\ mapping' = [mapping EXCEPT ![h] = p] /\ torn' = torn \ {<<p, h>>}
                     /\ entries' = entries \union all /\ all \intersect entries = {}
                  \/ UNCHANGED <<mapping, torn>> /\ all \intersect entries # {}
                  \/ Torn(p, h)
<1> DEFINE todo == Authorization(p, h)
           n    == Done(todo, entries)
<1>1. Len(todo) = 4 /\ todo[1] = <<"in", p, h>>
  BY DEF Authorization
<1>2. /\ n \in 0..4 /\ \A k \in 1..n : todo[k] \notin entries
      /\ n < 4 => todo[n + 1] \in entries
  <2> HIDE DEF todo
  <2> QED BY <1>1, DoneOfFour
<1>3. \/ /\ entries' = entries \union First(todo, n)
         /\ IF n < 4 THEN UNCHANGED <<mapping, torn>>
            ELSE mapping' = [mapping EXCEPT ![h] = p] /\ torn' = torn \ {<<p, h>>}
      \/ Torn(p, h) /\ \E k \in 0..n : entries' = entries \union First(todo, k)
  BY <1>1 DEF Authorize, LosesWrite, Torn
<1> HIDE DEF n, todo
<1>4. PICK k \in 0..n : entries' = entries \union First(todo, k)
  <2>1. n \in 0..n
    BY <1>2
  <2> QED BY <1>3, <2>1
<1>5. k \in 0..4
  BY <1>2
<1>6. ASSUME <<"in", p, h>> \in entries PROVE UNCHANGED entries
  <2>1. n = 0
    <3>1. n > 0 => 1 \in 1..n
      BY <1>2
    <3> QED BY <1>1, <1>2, <1>6, <3>1
  <2>2. First(todo, k) = {}
    BY <2>1 DEF First
  <2> QED BY <1>4, <2>2
<1>7. ASSUME n < 4 PROVE First(todo, 4) \intersect entries # {}
  <2>1. n + 1 \in 1..4
    BY <1>2, <1>7
  <2>2. todo[n + 1] \in First(todo, 4)
    BY <2>1 DEF First
  <2> QED BY <1>2, <1>7, <2>2
<1>8. ASSUME ~ n < 4 PROVE n = 4 /\ First(todo, 4) \intersect entries = {}
  <2>1. n = 4
    BY <1>2, <1>8
  <2> QED BY <1>2, <2>1 DEF First
<1>9. \/ /\ mapping' = [mapping EXCEPT ![h] = p] /\ torn' = torn \ {<<p, h>>}
         /\ entries' = entries \union First(todo, 4) /\ First(todo, 4) \intersect entries = {}
      \/ UNCHANGED <<mapping, torn>> /\ First(todo, 4) \intersect entries # {}
      \/ Torn(p, h)
  BY <1>3, <1>7, <1>8
<1> QED BY <1>4, <1>5, <1>6, <1>9 DEF todo

\* In short: what it adds, and to what.
LEMMA AuthorizeAdds ==
    ASSUME NEW p, NEW h, Authorize(p, h)
    PROVE  /\ entries \subseteq entries'
           /\ entries' \subseteq entries \union First(Authorization(p, h), 4)
           /\ mapping' \in {mapping, [mapping EXCEPT ![h] = p]}
           /\ torn' \in {torn, torn \union {<<p, h>>}, torn \ {<<p, h>>}}
<1> DEFINE todo == Authorization(p, h)
<1>1. PICK k \in 0..4 : entries' = entries \union First(todo, k)
  BY AuthorizeEffect
<1>2. First(todo, k) \subseteq First(todo, 4)
  BY FourEntries
<1>3. /\ mapping' \in {mapping, [mapping EXCEPT ![h] = p]}
      /\ torn' \in {torn, torn \union {<<p, h>>}, torn \ {<<p, h>>}}
  BY AuthorizeEffect DEF Torn
<1> HIDE DEF todo
<1>4. entries \subseteq entries' /\ entries' \subseteq entries \union First(todo, 4)
  BY <1>1, <1>2
<1> QED BY <1>3, <1>4 DEF todo

\* The end of an authorization takes away entries of that kind; the host is
\* mapped no more when all are gone.  Else one was missing, or a write is lost.
LEMMA UnauthorizeEffect ==
    ASSUME NEW h, Unauthorize(h)
    PROVE  LET all == First(Authorization(mapping[h], h), 4)
           IN  /\ entries' \subseteq entries /\ entries \subseteq entries' \union all
               /\ \/ /\ mapping' = [mapping EXCEPT ![h] = NoPort]
                     /\ torn' = torn \ {<<mapping[h], h>>}
                     /\ entries' = entries \ all /\ all \subseteq entries
                  \/ UNCHANGED <<mapping, torn>> /\ ~ all \subseteq entries
                  \/ Torn(mapping[h], h)
<1> DEFINE todo == Authorization(mapping[h], h)
           n    == Done(todo, First(todo, Len(todo)) \ entries)
<1>1. Len(todo) = 4 /\ \A m \in 0..4 : First(todo, m) \subseteq First(todo, 4)
  BY FourEntries
<1>2. /\ n \in 0..4 /\ \A k \in 1..n : todo[k] \notin First(todo, 4) \ entries
      /\ n < 4 => todo[n + 1] \in First(todo, 4) \ entries
  <2> HIDE DEF todo
  <2> QED BY <1>1, DoneOfFour
<1>3. \/ /\ entries' = entries \ First(todo, n)
         /\ IF n < 4 THEN UNCHANGED <<mapping, torn>>
            ELSE mapping' = [mapping EXCEPT ![h] = NoPort] /\ torn' = torn \ {<<mapping[h], h>>}
      \/ Torn(mapping[h], h) /\ \E k \in 0..n : entries' = entries \ First(todo, k)
  BY <1>1 DEF Unauthorize, LosesWrite, Torn
<1> HIDE DEF n, todo
<1>4. PICK k \in 0..n : entries' = entries \ First(todo, k)
  <2>1. n \in 0..n
    BY <1>2
  <2> QED BY <1>3, <2>1
<1>5. First(todo, k) \subseteq First(todo, 4)
  BY <1>1, <1>2
<1>6. n < 4 => ~ First(todo, 4) \subseteq entries
  BY <1>2
<1>7. ASSUME ~ n < 4 PROVE n = 4 /\ First(todo, 4) \subseteq entries
  <2>1. n = 4
    BY <1>2, <1>7
  <2> QED BY <1>2, <2>1 DEF First
<1>8. \/ /\ mapping' = [mapping EXCEPT ![h] = NoPort] /\ torn' = torn \ {<<mapping[h], h>>}
         /\ entries' = entries \ First(todo, 4) /\ First(todo, 4) \subseteq entries
      \/ UNCHANGED <<mapping, torn>> /\ ~ First(todo, 4) \subseteq entries
      \/ Torn(mapping[h], h)
  BY <1>3, <1>6, <1>7
<1> QED BY <1>4, <1>5, <1>8 DEF todo

\* Both count a lost write.
LEMMA AuthorizerFaults ==
    ASSUME faults \in 0..MaxFaults, NEW h,
           Unauthorize(h) \/ (\E p : Authorize(p, h)) \/ UNCHANGED faults
    PROVE  faults' \in 0..MaxFaults
BY PortAccessAssumption DEF Authorize, Unauthorize, LosesWrite, Fault, InFaults

-----------------------------------------------------------------------------
(* Types.                                                                  *)

AnswersTo(n) == [request : 1..n, verdict : Verdict]

\* What the socket holds answers earlier requests, and a client that asks for a
\* rule or has one has found its port.
AccessInv ==
    /\ AccessTypeOK
    /\ asked <= packets
    /\ answers \in Seq(AnswersTo(asked))
    /\ \A h \in Hosts : phase[h] \in {"request", "up", "leave"} => edge[h] \in Ports

\* A host starts without any access.
LEMMA InitAccessInv == AccessInit => AccessInv
<1> SUFFICES ASSUME AccessInit PROVE AccessInv
  OBVIOUS
<1>1. \A S : answers \in Seq(S)
  BY EmptySeq DEF AccessInit
<1>2. /\ extern \subseteq Ports /\ at \in [Hosts -> Ports \union {NoPort}]
      /\ sessions \in [Ports \X Hosts -> Session \union {NoSession}]
      /\ mapping \in [Hosts -> Ports \union {NoPort}]
      /\ entries \subseteq Way \X Ports \X (Hosts \union {SwitchMac, Broadcast})
      /\ phase \in [Hosts -> {"off", "authenticate", "find", "request", "up", "leave"}]
      /\ approved \subseteq Ports \X Hosts /\ tried \subseteq Ports \X Hosts
      /\ torn \subseteq Ports \X Hosts /\ failed \subseteq Ports /\ strayed \in BOOLEAN
  BY DEF AccessInit
<1>3. /\ edge \in [Hosts -> Ports \union {NoPort}]
      /\ rule \in [Hosts -> Rule \union {NoRule}] /\ rules \in [Ports -> Rule \union {Half, NoRule}]
      /\ forced \subseteq Ports /\ slot \in [Ports -> 1..2] /\ timers \subseteq Ports
  BY DEF AccessInit
<1>4. /\ drawn \in 0..MaxRules /\ packets \in 0..MaxPackets /\ faults \in 0..MaxFaults
      /\ asked \in 0..MaxPackets /\ asked <= packets
  BY PortAccessAssumption DEF AccessInit
<1>5. \A h \in Hosts : phase[h] = "off"
  BY DEF AccessInit
<1> QED BY <1>1, <1>2, <1>3, <1>4, <1>5 DEF AccessInv, AccessTypeOK

\* The names of hosts and of entries.
LEMMA AuthorizationType ==
    ASSUME NEW p \in Ports, NEW h \in Hosts
    PROVE  First(Authorization(p, h), 4) \subseteq Way \X Ports \X (Hosts \union {SwitchMac, Broadcast})
BY FourEntries DEF Way

\* What the handlers of EAP messages change, in its types.
HostTypes ==
    /\ sessions \in [Ports \X Hosts -> Session \union {NoSession}]
    /\ mapping \in [Hosts -> Ports \union {NoPort}]
    /\ entries \subseteq Way \X Ports \X (Hosts \union {SwitchMac, Broadcast})
    /\ torn \subseteq Ports \X Hosts

\* The port authorizer writes entries ...
LEMMA AuthorizeTypes ==
    ASSUME AccessInv, NEW p \in Ports, NEW h \in Hosts, Authorize(p, h)
    PROVE  /\ mapping' \in [Hosts -> Ports \union {NoPort}]
           /\ entries' \subseteq Way \X Ports \X (Hosts \union {SwitchMac, Broadcast})
           /\ torn' \subseteq Ports \X Hosts /\ faults' \in 0..MaxFaults
<1> DEFINE all == First(Authorization(p, h), 4)
<1>1. /\ entries' \subseteq entries \union all /\ mapping' \in {mapping, [mapping EXCEPT ![h] = p]}
      /\ torn' \subseteq torn \union {<<p, h>>}
  BY AuthorizeAdds
<1>2. all \subseteq Way \X Ports \X (Hosts \union {SwitchMac, Broadcast})
  BY AuthorizationType
<1> HIDE DEF all
<1>3. mapping' \in [Hosts -> Ports \union {NoPort}]
  BY <1>1 DEF AccessInv, AccessTypeOK
<1>4. faults' \in 0..MaxFaults
  BY AuthorizerFaults DEF AccessInv, AccessTypeOK
<1> QED BY <1>1, <1>2, <1>3, <1>4 DEF AccessInv, AccessTypeOK

\* ... and deletes them.
LEMMA UnauthorizeTypes ==
    ASSUME AccessInv, NEW h \in Hosts, mapping[h] # NoPort, Unauthorize(h)
    PROVE  /\ mapping' \in [Hosts -> Ports \union {NoPort}]
           /\ entries' \subseteq Way \X Ports \X (Hosts \union {SwitchMac, Broadcast})
           /\ torn' \subseteq Ports \X Hosts /\ faults' \in 0..MaxFaults
<1>1. /\ entries' \subseteq entries /\ mapping' \in {mapping, [mapping EXCEPT ![h] = NoPort]}
      /\ torn' \subseteq torn \union {<<mapping[h], h>>}
  BY UnauthorizeEffect DEF Torn
<1>2. mapping[h] \in Ports
  BY DEF AccessInv, AccessTypeOK
<1>3. faults' \in 0..MaxFaults
  BY AuthorizerFaults DEF AccessInv, AccessTypeOK
<1> QED BY <1>1, <1>2, <1>3 DEF AccessInv, AccessTypeOK

\* A session is changed.
LEMMA SetSessionType ==
    ASSUME AccessInv, NEW h \in Hosts, at[h] # NoPort, NEW s \in Session \union {NoSession},
           SetSession(h, s)
    PROVE  sessions' \in [Ports \X Hosts -> Session \union {NoSession}]
BY DEF AccessInv, AccessTypeOK, SetSession

\* A logoff.
LEMMA LogoffTypes ==
    ASSUME AccessInv, NEW h \in Hosts, Logoff(h)
    PROVE  HostTypes' /\ faults' \in 0..MaxFaults
<1>1. CASE UNCHANGED <<sessions, authVars, faults>>
  BY <1>1 DEF AccessInv, AccessTypeOK, HostTypes, authVars
<1>2. CASE /\ at[h] # NoPort /\ mapping[h] # NoPort /\ Unauthorize(h)
           /\ IF mapping'[h] = NoPort THEN SetSession(h, NoSession) ELSE UNCHANGED sessions
  BY <1>2, UnauthorizeTypes, SetSessionType DEF AccessInv, AccessTypeOK, HostTypes
<1> QED BY <1>1, <1>2 DEF Logoff

\* What the server decided is applied.
LEMMA ApplyTypes ==
    ASSUME AccessInv, NEW h \in Hosts, at[h] # NoPort, NEW s \in Session, NEW verdict \in Verdict,
           Apply(h, s, verdict)
    PROVE  HostTypes' /\ faults' \in 0..MaxFaults
<1>0. at[h] \in Ports /\ faults \in 0..MaxFaults
  BY DEF AccessInv, AccessTypeOK
<1>1. ASSUME NEW t \in Session, SetSession(h, t), UNCHANGED <<authVars, faults>>
      PROVE  HostTypes' /\ faults' \in 0..MaxFaults
  BY <1>0, <1>1, SetSessionType DEF AccessInv, AccessTypeOK, HostTypes, authVars
<1>2. CASE verdict = "challenge"
  <2>1. [s EXCEPT !.state = TRUE] \in Session
    BY DEF Session
  <2> QED BY <1>1, <1>2, <2>1 DEF Apply
<1>3. CASE verdict = "accept"
  BY <1>0, <1>3, SetSessionType, AuthorizeTypes DEF Apply, HostTypes
<1>4. CASE verdict = "reject" /\ mapping[h] # NoPort
  BY <1>4, SetSessionType, UnauthorizeTypes DEF Apply, HostTypes
<1>5. CASE verdict = "reject" /\ mapping[h] = NoPort
  BY <1>1, <1>5 DEF Apply
<1> QED BY <1>2, <1>3, <1>4, <1>5 DEF Verdict

\* The socket of the authenticator.
AnswerTypes ==
    /\ asked \in 0..MaxPackets /\ packets \in 0..MaxPackets /\ asked <= packets
    /\ answers \in Seq([request : 1..MaxPackets, verdict : Verdict])
    /\ answers \in Seq(AnswersTo(asked))

\* Clients, and their rules at the switch.
ClientTypes ==
    /\ phase \in [Hosts -> {"off", "authenticate", "find", "request", "up", "leave"}]
    /\ edge \in [Hosts -> Ports \union {NoPort}]
    /\ rule \in [Hosts -> Rule \union {NoRule}]
    /\ rules \in [Ports -> Rule \union {Half, NoRule}]
    /\ forced \subseteq Ports /\ slot \in [Ports -> 1..2] /\ timers \subseteq Ports
    /\ drawn \in 0..MaxRules /\ failed \subseteq Ports
    /\ \A h \in Hosts : phase[h] \in {"request", "up", "leave"} => edge[h] \in Ports

\* Cables, and history.
PlaceTypes ==
    /\ extern \subseteq Ports /\ at \in [Hosts -> Ports \union {NoPort}]
    /\ faults \in 0..MaxFaults
    /\ approved \subseteq Ports \X Hosts /\ tried \subseteq Ports \X Hosts
    /\ strayed \in BOOLEAN

\* The parts are all of it.
LEMMA AccessParts == AccessInv <=> HostTypes /\ AnswerTypes /\ ClientTypes /\ PlaceTypes
BY DEF AccessInv, AccessTypeOK, HostTypes, AnswerTypes, ClientTypes, PlaceTypes

\* The same of the next state.
LEMMA PartsOfNext == (HostTypes /\ AnswerTypes /\ ClientTypes /\ PlaceTypes)' => AccessInv'
BY DEF AccessInv, AccessTypeOK, HostTypes, AnswerTypes, ClientTypes, PlaceTypes

\* Steps that leave a part alone.
LEMMA SamePart ==
    /\ HostTypes /\ UNCHANGED <<sessions, authVars>> => HostTypes'
    /\ ClientTypes /\ UNCHANGED <<phase, macsecVars>> => ClientTypes'
    /\ AnswerTypes /\ UNCHANGED <<asked, answers, packets>> => AnswerTypes'
    /\ PlaceTypes /\ UNCHANGED <<extern, at, faults, approved, tried, strayed>> => PlaceTypes'
<1>1. HostTypes /\ UNCHANGED <<sessions, authVars>> => HostTypes'
  BY DEF HostTypes, authVars
<1>2. ClientTypes /\ UNCHANGED <<phase, macsecVars>> => ClientTypes'
  BY DEF ClientTypes, macsecVars
<1>3. AnswerTypes /\ UNCHANGED <<asked, answers, packets>> => AnswerTypes'
  BY DEF AnswerTypes
<1>4. PlaceTypes /\ UNCHANGED <<extern, at, faults, approved, tried, strayed>> => PlaceTypes'
  BY DEF PlaceTypes
<1> QED BY <1>1, <1>2, <1>3, <1>4

\* A packet is counted.
LEMMA PacketTypes ==
    ASSUME AnswerTypes, NEW h, Packet(h), UNCHANGED <<asked, answers>>
    PROVE  AnswerTypes'
<1>1. packets' \in 0..MaxPackets /\ asked' <= packets'
  BY PortAccessAssumption DEF AnswerTypes, Packet
<1> QED BY <1>1 DEF AnswerTypes

\* A fault is counted.
LEMMA FaultTypes ==
    ASSUME PlaceTypes, Fault
    PROVE  faults' \in 0..MaxFaults
BY PortAccessAssumption DEF PlaceTypes, Fault, InFaults

\* The handlers of starts and logoffs.
LEMMA EapKeepsTypes ==
    ASSUME AccessInv, NEW h \in Hosts, EapStart(h) \/ EapLogoff(h) \/ Stop(h)
    PROVE  AccessInv'
<1>0. HostTypes /\ AnswerTypes /\ ClientTypes /\ PlaceTypes
  BY AccessParts
<1>1. CASE EapStart(h)
  <2>1. HostTypes'
    BY <1>0, <1>1, SetSessionType DEF EapStart, Packet, Session, HostTypes, authVars
  <2>2. AnswerTypes' /\ ClientTypes'
    BY <1>0, <1>1, PacketTypes, SamePart DEF EapStart
  <2>3. PlaceTypes'
    BY <1>0, <1>1 DEF EapStart, Packet, PlaceTypes, macsecVars
  <2> QED BY <2>1, <2>2, <2>3, PartsOfNext
<1>2. CASE EapLogoff(h)
  <2>1. HostTypes' /\ AnswerTypes' /\ ClientTypes' /\ PlaceTypes'
    <3>1. HostTypes' /\ faults' \in 0..MaxFaults
      BY <1>2, LogoffTypes DEF EapLogoff
    <3>2. AnswerTypes' /\ ClientTypes'
      BY <1>0, <1>2, PacketTypes, SamePart DEF EapLogoff
    <3>3. PlaceTypes'
      BY <1>0, <1>2, <3>1 DEF EapLogoff, PlaceTypes, macsecVars
    <3> QED BY <3>1, <3>2, <3>3
  <2> QED BY <2>1, PartsOfNext
<1>3. CASE Stop(h)
  <2>1. HostTypes' /\ AnswerTypes' /\ PlaceTypes'
    <3>1. HostTypes' /\ faults' \in 0..MaxFaults
      BY <1>3, LogoffTypes DEF Stop
    <3>2. AnswerTypes'
      BY <1>0, <1>3, SamePart DEF Stop
    <3>3. PlaceTypes'
      BY <1>0, <1>3, <3>1 DEF Stop, PlaceTypes, macsecVars
    <3> QED BY <3>1, <3>2, <3>3
  <2>2. ClientTypes'
    BY <1>0, <1>3 DEF Stop, Goto, ClientTypes, macsecVars
  <2> QED BY <2>1, <2>2, PartsOfNext
<1> QED BY <1>1, <1>2, <1>3

-----------------------------------------------------------------------------
(* The handler of a response, which reads the socket.                      *)

\* The server may challenge, accept or reject.
LEMMA VerdictType ==
    ASSUME NEW s, NEW kind, NEW verdict \in Verdicts(s, kind)
    PROVE  verdict \in Verdict
BY DEF Verdicts, Verdict

\* After an answer was put in the socket, or will be later, and the first one was
\* read: what is left, and whose answer was read.
LEMMA ReadAnswer ==
    ASSUME NEW n \in Nat \ {0}, answers \in Seq(AnswersTo(n - 1)), NEW verdict \in Verdict,
           NEW comes \in {"now", "late", "never"},
           NEW queue, NEW after,
           LET mine == <<[request |-> n, verdict |-> verdict]>>
           IN  /\ queue = answers \o IF comes = "now" THEN mine ELSE <<>>
               /\ after = IF comes = "late" THEN mine ELSE <<>>,
           answers' = IF queue = <<>> THEN after ELSE Tail(queue) \o after
    PROVE  /\ answers' \in Seq(AnswersTo(n))
           /\ queue # <<>> /\ Authentic(Head(queue), n) => Head(queue).verdict = verdict
<1> DEFINE answer == [request |-> n, verdict |-> verdict]
           mine   == <<answer>>
           put    == IF comes = "now" THEN mine ELSE <<>>
<1>1. answer \in AnswersTo(n) /\ answer.verdict = verdict
  BY DEF AnswersTo
<1> HIDE DEF answer
<1>2. mine \in Seq(AnswersTo(n)) /\ Len(mine) = 1 /\ Head(mine) = answer
  BY <1>1
<1>3. answers \in Seq(AnswersTo(n))
  <2>1. AnswersTo(n - 1) \subseteq AnswersTo(n)
    BY DEF AnswersTo
  <2> QED BY <2>1, SeqMonotonic
<1> HIDE DEF mine
<1>4. put \in Seq(AnswersTo(n)) /\ after \in Seq(AnswersTo(n))
  BY <1>2, EmptySeq DEF mine, answer
<1>5. queue = answers \o put
  BY DEF mine, answer
<1>6. queue \in Seq(AnswersTo(n))
  BY <1>3, <1>4, <1>5, ConcatProperties
<1>7. answers' \in Seq(AnswersTo(n))
  <2>1. CASE queue = <<>>
    BY <1>4, <2>1
  <2>2. CASE queue # <<>>
    <3>1. Tail(queue) \in Seq(AnswersTo(n))
      BY <1>6, <2>2
    <3>2. Tail(queue) \o after \in Seq(AnswersTo(n))
      BY <1>4, <3>1, ConcatProperties
    <3> QED BY <2>2, <3>2
  <2> QED BY <2>1, <2>2
<1>8. ASSUME queue # <<>>, Authentic(Head(queue), n) PROVE Head(queue).verdict = verdict
  <2>1. CASE answers # <<>>
    <3>1. answers[1] \in AnswersTo(n - 1) /\ Len(answers) \in Nat \ {0}
      BY <2>1, EmptySeq, ElementOfSeq
    <3>2. Head(queue) = answers[1]
      BY <1>3, <1>4, <1>5, <3>1
    <3> QED BY <1>8, <3>1, <3>2 DEF Authentic, AnswersTo
  <2>2. CASE answers = <<>>
    <3>1. queue = put
      BY <1>4, <1>5, <2>2, ConcatEmptySeq
    <3>2. queue = mine
      BY <1>8, <3>1
    <3> QED BY <1>1, <1>2, <3>2
  <2> QED BY <2>1, <2>2
<1> QED BY <1>7, <1>8

\* What a response comes to: the server decides, and its decision is applied to
\* the session of the host that asked or nothing happens to anybody.
LEMMA Response ==
    ASSUME AccessInv, NEW h \in Hosts, NEW kind \in {"identity", "method"}, EapResponse(h, kind)
    PROVE  /\ at[h] \in Ports /\ SessionOf(h) # NoSession
           /\ \E s \in Session, verdict \in Verdict :
                /\ Decide(h, verdict)
                /\ \/ Apply(h, s, verdict)
                   \/ SetSession(h, s) /\ UNCHANGED authVars
           /\ AnswerTypes' /\ faults' \in 0..MaxFaults
<1> DEFINE s == [SessionOf(h) EXCEPT !.named = @ \/ kind = "identity"]
           n == asked + 1
<1>1. at[h] \in Ports /\ SessionOf(h) # NoSession /\ SessionOf(h) \in Session
  BY DEF EapResponse, Packet, AccessInv, AccessTypeOK, SessionOf
<1>2. s \in Session
  BY <1>1 DEF Session
<1>3. /\ n \in 1..MaxPackets /\ n <= packets' /\ packets' \in 0..MaxPackets /\ asked' = n
  <2>1. packets < MaxPackets /\ packets' = packets + 1 /\ asked' = n
    BY DEF EapResponse, Packet
  <2>2. /\ MaxPackets \in Nat
        /\ asked \in 0..MaxPackets /\ asked <= packets /\ packets \in 0..MaxPackets
    BY PortAccessAssumption DEF AccessInv, AccessTypeOK
  <2> HIDE DEF s
  <2> QED BY <2>1, <2>2
<1>4. PICK verdict \in Verdicts(s, kind), comes \in {"now", "late", "never"} :
         LET mine  == <<[request |-> n, verdict |-> verdict]>>
             queue == answers \o IF comes = "now" THEN mine ELSE <<>>
             after == IF comes = "late" THEN mine ELSE <<>>
         IN  /\ Decide(h, verdict)
             /\ answers' = IF queue = <<>> THEN after ELSE Tail(queue) \o after
             /\ IF queue # <<>> /\ Authentic(Head(queue), n)
                THEN Apply(h, s, Head(queue).verdict)
                ELSE /\ SetSession(h, s) /\ UNCHANGED authVars
                     /\ IF comes = "now" THEN UNCHANGED faults ELSE Fault
  BY DEF EapResponse
<1> DEFINE mine  == <<[request |-> n, verdict |-> verdict]>>
           queue == answers \o IF comes = "now" THEN mine ELSE <<>>
           after == IF comes = "late" THEN mine ELSE <<>>
<1>5. verdict \in Verdict
  BY <1>4, VerdictType
<1> HIDE DEF s
<1>6. /\ answers' \in Seq(AnswersTo(n))
      /\ queue # <<>> /\ Authentic(Head(queue), n) => Head(queue).verdict = verdict
  <2>1. n \in Nat \ {0} /\ answers \in Seq(AnswersTo(n - 1))
    BY <1>3 DEF AccessInv, AccessTypeOK
  <2>2. answers' = IF queue = <<>> THEN after ELSE Tail(queue) \o after
    BY <1>4
  <2> HIDE DEF n
  <2> QED BY <1>5, <2>1, <2>2, ReadAnswer
<1>7. AnswerTypes'
  <2>1. ASSUME NEW m \in 1..MaxPackets
        PROVE  AnswersTo(m) \subseteq [request : 1..MaxPackets, verdict : Verdict]
    BY PortAccessAssumption DEF AnswersTo
  <2>2. answers' \in Seq([request : 1..MaxPackets, verdict : Verdict])
    BY <1>3, <1>6, <2>1, SeqMonotonic
  <2> QED BY <1>3, <1>6, <2>2 DEF AnswerTypes
<1>8. \/ Apply(h, s, verdict)
      \/ /\ SetSession(h, s) /\ UNCHANGED authVars
         /\ UNCHANGED faults \/ Fault
  <2> HIDE DEF queue, after
  <2>1. CASE queue # <<>> /\ Authentic(Head(queue), n)
    BY <1>4, <1>6, <2>1 DEF queue, after
  <2>2. CASE ~(queue # <<>> /\ Authentic(Head(queue), n))
    BY <1>4, <2>2 DEF queue, after
  <2> QED BY <2>1, <2>2
<1>9. faults' \in 0..MaxFaults
  <2>1. faults \in 0..MaxFaults /\ at[h] # NoPort
    BY <1>1, PortAccessAssumption DEF AccessInv, AccessTypeOK
  <2>2. Fault => faults' \in 0..MaxFaults
    BY FaultTypes, AccessParts
  <2> QED BY <1>2, <1>5, <1>8, <2>1, <2>2, ApplyTypes
<1> QED BY <1>1, <1>2, <1>4, <1>5, <1>7, <1>8, <1>9

\* The handler of a response.
LEMMA ResponseKeepsTypes ==
    ASSUME AccessInv, NEW h \in Hosts, NEW kind \in {"identity", "method"}, EapResponse(h, kind)
    PROVE  AccessInv'
<1>0. HostTypes /\ AnswerTypes /\ ClientTypes /\ PlaceTypes
  BY AccessParts
<1>1. /\ at[h] \in Ports
      /\ \E s \in Session, verdict \in Verdict :
           /\ Decide(h, verdict)
           /\ \/ Apply(h, s, verdict)
              \/ SetSession(h, s) /\ UNCHANGED authVars
      /\ AnswerTypes' /\ faults' \in 0..MaxFaults
  BY Response
<1>2. at[h] # NoPort
  BY DEF EapResponse, Packet
<1>3. HostTypes'
  BY <1>0, <1>1, <1>2, ApplyTypes, SetSessionType DEF HostTypes, authVars
<1>4. PlaceTypes'
  <2>1. approved' \subseteq Ports \X Hosts
    BY <1>0, <1>1 DEF Decide, Verdict, PlaceTypes
  <2> QED BY <1>0, <1>1, <2>1 DEF EapResponse, PlaceTypes, macsecVars
<1>5. AnswerTypes' /\ ClientTypes'
  BY <1>0, <1>1, SamePart DEF EapResponse
<1> QED BY <1>3, <1>4, <1>5, PartsOfNext

-----------------------------------------------------------------------------
(* The client's own steps, and the limits of its rule.                     *)

\* Steps in which only the program of a client goes on.
LEMMA ProgramKeepsTypes ==
    ASSUME AccessInv, NEW h \in Hosts, Start(h) \/ Register(h) \/ Find(h)
    PROVE  AccessInv'
<1>0. HostTypes /\ AnswerTypes /\ ClientTypes /\ PlaceTypes
  BY AccessParts
<1>1. HostTypes' /\ AnswerTypes' /\ PlaceTypes'
  BY <1>0, SamePart DEF Start, Register, Find, switchVars, macsecVars
<1>2. ClientTypes'
  <2>1. CASE Start(h) \/ Register(h)
    BY <1>0, <2>1 DEF Start, Register, Goto, ClientTypes, macsecVars
  <2>2. CASE Find(h) /\ Goto(h, "off") /\ UNCHANGED edge
    BY <1>0, <2>2 DEF Find, Goto, ClientTypes
  <2>3. CASE Find(h) /\ Reaches(h) /\ Goto(h, "request") /\ edge' = [edge EXCEPT ![h] = at[h]]
    <3>1. at[h] \in Ports
      BY <1>0, <2>3 DEF Reaches, Hears, PlaceTypes
    <3> QED BY <1>0, <2>3, <3>1 DEF Find, Goto, ClientTypes
  <2>4. Find(h) => \/ Goto(h, "off") /\ UNCHANGED edge
                   \/ Reaches(h) /\ Goto(h, "request") /\ edge' = [edge EXCEPT ![h] = at[h]]
    BY DEF Find
  <2> QED BY <2>1, <2>2, <2>3, <2>4
<1> QED BY <1>1, <1>2, PartsOfNext

\* A rule is drawn for both ends.
LEMMA RequestKeepsTypes ==
    ASSUME AccessInv, NEW h \in Hosts, RequestRule(h)
    PROVE  AccessInv'
<1>0. HostTypes /\ AnswerTypes /\ ClientTypes /\ PlaceTypes
  BY AccessParts
<1>1. HostTypes' /\ AnswerTypes'
  BY <1>0, SamePart DEF RequestRule, switchVars
<1>2. PlaceTypes'
  BY <1>0, FaultTypes DEF RequestRule, PlaceTypes, switchVars
<1>3. ClientTypes'
  <2>1. CASE ~Reaches(h)
    BY <1>0, <2>1 DEF RequestRule, Goto, ClientTypes
  <2>2. CASE Reaches(h)
    <3>1. edge[h] \in Ports /\ drawn + 1 \in Rule /\ drawn + 1 \in 0..MaxRules
      BY <1>0, <2>2, PortAccessAssumption DEF RequestRule, ClientTypes, Rule
    <3>2. /\ drawn' \in 0..MaxRules
          /\ rules' \in [Ports -> Rule \union {Half, NoRule}] /\ slot' \in [Ports -> 1..2]
          /\ forced' \subseteq Ports /\ timers' \subseteq Ports /\ failed' \subseteq Ports
      <4>1. drawn' \in 0..MaxRules /\ (\/ AddRule(edge[h], drawn + 1) \/ AddRefused(edge[h])
                                     \/ AddFails(edge[h], drawn + 1))
        BY <2>2, <3>1 DEF RequestRule
      <4>2. CASE AddRule(edge[h], drawn + 1)
        BY <1>0, <3>1, <4>1, <4>2 DEF AddRule, ClientTypes
      <4>3. CASE AddRefused(edge[h])
        BY <1>0, <3>1, <4>1, <4>3 DEF AddRefused, ClientTypes
      <4>4. CASE AddFails(edge[h], drawn + 1)
        BY <1>0, <3>1, <4>1, <4>4 DEF AddFails, ClientTypes
      <4> QED BY <4>1, <4>2, <4>3, <4>4
    <3>3. /\ phase' \in [Hosts -> {"off", "authenticate", "find", "request", "up", "leave"}]
          /\ rule' \in [Hosts -> Rule \union {NoRule}] /\ edge' = edge
          /\ \A g \in Hosts : phase'[g] \in {"request", "up", "leave"} =>
               phase[g] \in {"request", "up", "leave"}
      BY <1>0, <2>2, <3>1 DEF RequestRule, Goto, InstallRule, ClientTypes
    <3> QED BY <1>0, <3>2, <3>3 DEF ClientTypes
  <2> QED BY <2>1, <2>2
<1> QED BY <1>1, <1>2, <1>3, PartsOfNext

\* A client leaves, orderly or not.
LEMMA LeaveKeepsTypes ==
    ASSUME AccessInv, NEW h \in Hosts, Leave(h) \/ Crash(h)
    PROVE  AccessInv'
<1>0. HostTypes /\ AnswerTypes /\ ClientTypes /\ PlaceTypes
  BY AccessParts
<1>1. HostTypes' /\ AnswerTypes'
  BY <1>0, SamePart DEF Leave, Crash, switchVars
<1>2. PlaceTypes'
  BY <1>0, FaultTypes DEF Leave, Crash, PlaceTypes, switchVars
<1>3. ClientTypes'
  <2>1. /\ forced' \subseteq Ports /\ rules' \in [Ports -> Rule \union {Half, NoRule}]
        /\ slot' \in [Ports -> 1..2] /\ timers' \subseteq Ports /\ drawn' \in 0..MaxRules
        /\ failed' \subseteq Ports
    BY <1>0 DEF Leave, Crash, RemoveRule, RemoveFails, ClientTypes
  <2>2. /\ phase' = [phase EXCEPT ![h] = "off"]
        /\ rule' = [rule EXCEPT ![h] = NoRule] /\ edge' = [edge EXCEPT ![h] = NoPort]
    BY DEF Leave, Crash, Goto, UninstallRule
  <2> QED BY <1>0, <2>1, <2>2 DEF ClientTypes
<1> QED BY <1>1, <1>2, <1>3, PartsOfNext

\* A host is plugged in elsewhere; limits are reached.
LEMMA OthersKeepTypes ==
    ASSUME AccessInv,
           (\E h \in Hosts : Move(h)) \/ (\E p \in Ports : SoftLimit(p) \/ HardLimit(p))
    PROVE  AccessInv'
<1>0. HostTypes /\ AnswerTypes /\ ClientTypes /\ PlaceTypes
  BY AccessParts
<1>1. ASSUME NEW h \in Hosts, Move(h) PROVE AccessInv'
  <2>1. HostTypes' /\ AnswerTypes'
    BY <1>0, <1>1, SamePart DEF Move, switchVars
  <2>2. ClientTypes'
    BY <1>0, <1>1 DEF Move, ClientTypes
  <2>3. at' \in [Hosts -> Ports \union {NoPort}] /\ strayed' \in BOOLEAN
    BY <1>0, <1>1 DEF Move, PlaceTypes
  <2>4. PlaceTypes'
    BY <1>0, <1>1, <2>3, FaultTypes DEF Move, PlaceTypes, switchVars
  <2> QED BY <2>1, <2>2, <2>4, PartsOfNext
<1>2. ASSUME NEW p \in Ports, SoftLimit(p) \/ HardLimit(p) PROVE AccessInv'
  <2>1. HostTypes' /\ AnswerTypes' /\ PlaceTypes'
    BY <1>0, <1>2, SamePart DEF SoftLimit, HardLimit, switchVars
  <2>2. ClientTypes'
    BY <1>0, <1>2 DEF SoftLimit, HardLimit, Renewed, ClientTypes
  <2> QED BY <2>1, <2>2, PartsOfNext
<1> QED BY <1>1, <1>2

\* Every step keeps the types.
LEMMA NextAccessInv == AccessInv /\ [AccessNext]_accessVars => AccessInv'
<1> SUFFICES ASSUME AccessInv, [AccessNext]_accessVars PROVE AccessInv'
  OBVIOUS
<1>1. ASSUME NEW h \in Hosts, AccessStep(h) PROVE AccessInv'
  <2>1. CASE EapStart(h) \/ EapLogoff(h) \/ Stop(h)
    BY <2>1, EapKeepsTypes
  <2>2. CASE \E kind \in {"identity", "method"} : EapResponse(h, kind)
    BY <2>2, ResponseKeepsTypes
  <2>3. CASE Start(h) \/ Register(h) \/ Find(h)
    BY <2>3, ProgramKeepsTypes
  <2>4. CASE RequestRule(h)
    BY <2>4, RequestKeepsTypes
  <2>5. CASE Leave(h) \/ Crash(h)
    BY <2>5, LeaveKeepsTypes
  <2>6. CASE Move(h)
    BY <2>6, OthersKeepTypes
  <2> QED BY <1>1, <2>1, <2>2, <2>3, <2>4, <2>5, <2>6 DEF AccessStep
<1>2. ASSUME NEW p \in Ports, SoftLimit(p) \/ HardLimit(p) PROVE AccessInv'
  BY <1>2, OthersKeepTypes
<1>3. CASE UNCHANGED accessVars
  <2>1. HostTypes /\ AnswerTypes /\ ClientTypes /\ PlaceTypes
    BY AccessParts
  <2>2. HostTypes' /\ AnswerTypes' /\ ClientTypes' /\ PlaceTypes'
    BY <1>3, <2>1, SamePart DEF accessVars, switchVars, macsecVars
  <2> QED BY <2>2, PartsOfNext
<1> QED BY <1>1, <1>2, <1>3 DEF AccessNext

\* The state of an access switch and its hosts stays in its types, for any number
\* of hosts and ports and through any number of packets, moves, crashes and late
\* or lost answers.
THEOREM AccessTypes == AccessSpec => []AccessTypeOK
<1>1. AccessInv => AccessTypeOK
  BY DEF AccessInv
<1> QED BY <1>1, InitAccessInv, NextAccessInv, PTL DEF AccessSpec

-----------------------------------------------------------------------------
(* The gate: PortAccess implements PortGate.                               *)

\* Who may send where.
Open == {x \in Ports \X Hosts : <<"in", x[1], x[2]>> \in entries}

\* Whether a host may send on a port, by the entry for it.
LEMMA OpenPair ==
    ASSUME NEW p \in Ports, NEW h \in Hosts
    PROVE  /\ <<p, h>> \in Open <=> <<"in", p, h>> \in entries
           /\ <<p, h>> \in Open' <=> <<"in", p, h>> \in entries'
BY DEF Open

\* Of the entries of a host, one alone is about who may send: its own.
LEMMA OwnEntry ==
    ASSUME NEW p, NEW h, NEW q, NEW g \in Hosts,
           <<"in", q, g>> \in First(Authorization(p, h), 4)
    PROVE  q = p /\ g = h
BY FourEntries, PortAccessAssumption

\* An authorization opens the port to its host or to nobody.
LEMMA AuthorizeOpens ==
    ASSUME NEW p \in Ports, NEW h \in Hosts, Authorize(p, h)
    PROVE  Open' \in {Open, Open \union {<<p, h>>}}
<1> DEFINE all == First(Authorization(p, h), 4)
<1>1. entries \subseteq entries' /\ entries' \subseteq entries \union all
  BY AuthorizeAdds
<1>2. \A q \in Ports, g \in Hosts : <<"in", q, g>> \in all => q = p /\ g = h
  BY OwnEntry
<1> HIDE DEF all
<1>3. Open \subseteq Open' /\ Open' \subseteq Ports \X Hosts
  BY <1>1 DEF Open
<1>4. ASSUME NEW q \in Ports, NEW g \in Hosts, <<q, g>> \in Open'
      PROVE  <<q, g>> \in Open \/ (q = p /\ g = h)
  BY <1>1, <1>2, <1>4, OpenPair
<1>5. Open' \subseteq Open \union {<<p, h>>}
  BY <1>3, <1>4
<1> QED BY <1>3, <1>5

\* Its end closes ports to its host or to nobody.
LEMMA UnauthorizeCloses ==
    ASSUME AccessInv, NEW h \in Hosts, Unauthorize(h)
    PROVE  \E lost \in SUBSET Gate!Of(h) : Open' = Open \ lost
<1> DEFINE all  == First(Authorization(mapping[h], h), 4)
           lost == Open \ Open'
<1>1. entries' \subseteq entries /\ entries \subseteq entries' \union all
  BY UnauthorizeEffect
<1>2. \A q \in Ports, g \in Hosts : <<"in", q, g>> \in all => g = h
  BY OwnEntry
<1> HIDE DEF all
<1>3. Open' \subseteq Open /\ Open \subseteq Ports \X Hosts
  BY <1>1 DEF Open
<1>4. ASSUME NEW q \in Ports, NEW g \in Hosts, <<q, g>> \in lost
      PROVE  <<q, g>> \in Gate!Of(h)
  <2>1. g = h
    BY <1>1, <1>2, <1>4, OpenPair
  <2> QED BY <2>1 DEF Gate!Of, Gate!Pairs
<1>5. lost \in SUBSET Gate!Of(h)
  BY <1>3, <1>4
<1>6. Open' = Open \ lost
  BY <1>3
<1> QED BY <1>5, <1>6

\* A logoff is a departure, or nothing.
LEMMA LogoffLeaves ==
    ASSUME AccessInv, NEW h \in Hosts, Logoff(h), UNCHANGED approved
    PROVE  Gate!Leave(h)
<1>0. UNCHANGED authVars => UNCHANGED entries
  BY DEF authVars
<1>1. \E lost \in SUBSET Gate!Of(h) : Open' = Open \ lost
  <2>1. CASE UNCHANGED entries
    <3>1. Open' = Open \ {}
      BY <2>1 DEF Open
    <3> QED BY <3>1
  <2>2. CASE Unauthorize(h)
    BY <2>2, UnauthorizeCloses
  <2> QED BY <1>0, <2>1, <2>2 DEF Logoff
<1> QED BY <1>1 DEF Gate!Leave, Open

\* A response is the server's decision: at once, later or never applied.
LEMMA ResponseDecides ==
    ASSUME AccessInv, NEW h \in Hosts, NEW kind \in {"identity", "method"}, EapResponse(h, kind)
    PROVE  \/ Gate!Approve(at[h], h) /\ at[h] \in Ports
           \/ Gate!Reject(at[h], h) /\ at[h] \in Ports
           \/ UNCHANGED <<approved, Open>>
<1>1. /\ at[h] \in Ports
      /\ \E s \in Session, verdict \in Verdict :
           /\ Decide(h, verdict)
           /\ \/ Apply(h, s, verdict)
              \/ SetSession(h, s) /\ UNCHANGED authVars
  BY Response
<1>2. PICK s \in Session, verdict \in Verdict :
         /\ Decide(h, verdict)
         /\ \/ Apply(h, s, verdict)
            \/ SetSession(h, s) /\ UNCHANGED authVars
  BY <1>1
<1>0. UNCHANGED authVars => UNCHANGED entries
  BY DEF authVars
<1>3. UNCHANGED entries => UNCHANGED Open
  BY DEF Open
<1>4. CASE verdict = "challenge"
  BY <1>0, <1>2, <1>3, <1>4 DEF Decide, Apply
<1>5. CASE verdict = "accept"
  <2>1. Open' \in {Open, Open \union {<<at[h], h>>}}
    BY <1>0, <1>1, <1>2, <1>3, <1>5, AuthorizeOpens DEF Apply
  <2>2. approved' = approved \union {<<at[h], h>>}
    BY <1>2, <1>5 DEF Decide
  <2> QED BY <1>1, <2>1, <2>2 DEF Gate!Approve, Open
<1>6. CASE verdict = "reject"
  <2>1. \E lost \in SUBSET Gate!Of(h) : Open' = Open \ lost
    <3>1. CASE Unauthorize(h)
      BY <3>1, UnauthorizeCloses
    <3>2. CASE UNCHANGED entries
      <4>1. Open' = Open \ {}
        BY <1>3, <3>2
      <4> QED BY <4>1
    <3> QED BY <1>0, <1>2, <1>6, <3>1, <3>2 DEF Apply
  <2>2. approved' = approved \ {<<at[h], h>>}
    BY <1>2, <1>6 DEF Decide
  <2> QED BY <1>1, <2>1, <2>2 DEF Gate!Reject, Open
<1> QED BY <1>4, <1>5, <1>6 DEF Verdict

\* Every step is one of the gate's, or none.
LEMMA StepOfGate ==
    AccessInv /\ [AccessNext]_accessVars => [Gate!Next]_<<approved, Open>>
<1> SUFFICES ASSUME AccessInv, [AccessNext]_accessVars, ~UNCHANGED <<approved, Open>>
             PROVE  Gate!Next
  OBVIOUS
<1>1. UNCHANGED <<approved, entries>> => UNCHANGED <<approved, Open>>
  BY DEF Open
<1>2. ASSUME NEW h \in Hosts, AccessStep(h) PROVE Gate!Next
  <2>1. CASE EapLogoff(h) \/ Stop(h)
    BY <2>1, LogoffLeaves DEF EapLogoff, Stop, Gate!Next
  <2>2. CASE \E kind \in {"identity", "method"} : EapResponse(h, kind)
    BY <2>2, ResponseDecides DEF Gate!Next
  <2>3. CASE \/ EapStart(h) \/ Start(h) \/ Register(h) \/ Find(h) \/ RequestRule(h) \/ Leave(h)
             \/ Crash(h) \/ Move(h)
    BY <1>1, <2>3 DEF EapStart, Start, Register, Find, RequestRule, Leave, Crash, Move, switchVars,
                      authVars
  <2> QED BY <1>2, <2>1, <2>2, <2>3 DEF AccessStep
<1>3. ASSUME NEW p \in Ports, SoftLimit(p) \/ HardLimit(p) PROVE Gate!Next
  BY <1>1, <1>3 DEF SoftLimit, HardLimit, switchVars, authVars
<1>4. CASE UNCHANGED accessVars
  BY <1>1, <1>4 DEF accessVars, switchVars, authVars
<1> QED BY <1>2, <1>3, <1>4 DEF AccessNext

\* Ports open to a host by the server's answer to its own request or not at all,
\* and close to it only: the authenticator and the port authorizer implement the
\* gate of 802.1X, whatever answers are late, lost or left in the socket and
\* however hosts share ports and move.
THEOREM PortAccessKeepsGate == AccessSpec => GateKept
<1>1. AccessInit => Gate!Init
  BY DEF AccessInit, Gate!Init
<1>2. AccessInv /\ [AccessNext]_accessVars =>
        [Gate!Next]_<<approved, {x \in Ports \X Hosts : <<"in", x[1], x[2]>> \in entries}>>
  BY StepOfGate DEF Open
<1> QED BY <1>1, <1>2, InitAccessInv, NextAccessInv, PTL DEF AccessSpec, GateKept, Gate!Spec

-----------------------------------------------------------------------------
(* All entries of a host or none.                                          *)

\* A host has a session, and is mapped, only where it has tried.
TriedFirst ==
    /\ \A p \in Ports, h \in Hosts : sessions[<<p, h>>] # NoSession => <<p, h>> \in tried
    /\ \A h \in Hosts : mapping[h] # NoPort => <<mapping[h], h>> \in tried

\* What there is on a port.
EntriesAt(p) == {e \in entries : e[2] = p}

\* All entries of a host are on its port.
LEMMA OnItsPort ==
    ASSUME NEW p, NEW h, NEW e \in First(Authorization(p, h), 4)
    PROVE  e[2] = p
BY FourEntries

\* A host that has tried on a port leaves no other pair of them alone there.
LEMMA TriedAlone ==
    ASSUME NEW p \in Ports, NEW h \in Hosts, <<p, h>> \in tried,
           NEW q \in Ports, NEW g \in Hosts, Tried(q, g)
    PROVE  p = q <=> h = g
BY DEF Tried

\* What AccessWhole says of a host on a port that both are alone.
Whole(p, h) ==
    LET all == First(Authorization(p, h), 4)
    IN  IF <<p, h>> \in torn
        THEN /\ EntriesAt(p) \subseteq all
             /\ mapping[h] # p => \E n \in 0..4 : EntriesAt(p) = First(Authorization(p, h), n)
        ELSE EntriesAt(p) = IF mapping[h] = p THEN all ELSE {}

\* By port and host.
LEMMA WholeParts ==
    AccessWhole <=> \A p \in Ports, h \in Hosts : Tried(p, h) => Whole(p, h)
BY DEF AccessWhole, Whole, EntriesAt

\* The same of the next state, when what was tried stays.
LEMMA WholeNext ==
    ASSUME \A p \in Ports, h \in Hosts : Tried(p, h) => Whole(p, h)', tried \subseteq tried'
    PROVE  AccessWhole'
<1>1. \A p \in Ports, h \in Hosts : Tried(p, h)' => Tried(p, h)
  BY DEF Tried
<1>2. \A p \in Ports, h \in Hosts : Tried(p, h)' => Whole(p, h)'
  BY <1>1
<1> QED BY <1>2 DEF AccessWhole, Whole, EntriesAt

\* A host and a port of which nothing changes.
LEMMA SamePair ==
    ASSUME NEW p \in Ports, NEW h \in Hosts, Whole(p, h), EntriesAt(p)' = EntriesAt(p),
           mapping'[h] = mapping[h], <<p, h>> \in torn' <=> <<p, h>> \in torn
    PROVE  Whole(p, h)'
<1>1. EntriesAt(p)' = EntriesAt(p)
  OBVIOUS
<1> QED BY <1>1 DEF Whole

\* Some of the first entries are none of them, or the first is among them.
LEMMA FirstFew ==
    ASSUME NEW p, NEW h, NEW n \in 0..4
    PROVE  /\ First(Authorization(p, h), n) \subseteq First(Authorization(p, h), 4)
           /\ \/ First(Authorization(p, h), n) = {}
              \/ <<"in", p, h>> \in First(Authorization(p, h), n)
<1> DEFINE todo == Authorization(p, h)
<1>1. todo[1] = <<"in", p, h>>
  BY DEF Authorization
<1> HIDE DEF todo
<1>2. First(todo, n) = {} \/ todo[1] \in First(todo, n)
  BY DEF First
<1> QED BY <1>1, <1>2, FourEntries DEF todo

\* An authorization of a host that is alone on its port: the first few entries are
\* there, or all.
LEMMA AuthorizeAlone ==
    ASSUME AccessInv, NEW p \in Ports, NEW h \in Hosts, Authorize(p, h), Whole(p, h)
    PROVE  Whole(p, h)'
<1> DEFINE todo == Authorization(p, h)
           all  == First(todo, 4)
           pair == <<p, h>>
<1>1. PICK k \in 0..4 : entries' = entries \union First(todo, k)
  BY AuthorizeEffect
<1>2. /\ <<"in", p, h>> \in entries => UNCHANGED entries
      /\ \/ /\ mapping' = [mapping EXCEPT ![h] = p] /\ torn' = torn \ {pair}
            /\ entries' = entries \union all /\ all \intersect entries = {}
         \/ UNCHANGED <<mapping, torn>> /\ all \intersect entries # {}
         \/ Torn(p, h)
  BY AuthorizeEffect
<1>3. /\ \A e \in all : e[2] = p
      /\ <<"in", p, h>> \in all /\ First(todo, k) \subseteq all
  BY OnItsPort, FourEntries
<1>4. mapping \in [Hosts -> Ports \union {NoPort}]
  BY DEF AccessInv, AccessTypeOK
<1>5. \A n \in 0..4 : First(todo, n) = {} \/ <<"in", p, h>> \in First(todo, n)
  BY FirstFew
<1>6. /\ pair \in torn => /\ EntriesAt(p) \subseteq all
                          /\ mapping[h] # p => \E n \in 0..4 : EntriesAt(p) = First(todo, n)
      /\ pair \notin torn => EntriesAt(p) = IF mapping[h] = p THEN all ELSE {}
  BY DEF Whole
<1> HIDE DEF todo, all
<1>7. EntriesAt(p)' = EntriesAt(p) \union First(todo, k)
  BY <1>1, <1>3 DEF EntriesAt
<1>8. EntriesAt(p) \subseteq all /\ all \intersect entries = all \intersect EntriesAt(p)
  BY <1>3, <1>6 DEF EntriesAt
<1>9. CASE /\ mapping' = [mapping EXCEPT ![h] = p] /\ torn' = torn \ {pair}
           /\ entries' = entries \union all /\ all \intersect entries = {}
  <2>1. EntriesAt(p)' = all
    BY <1>3, <1>8, <1>9 DEF EntriesAt
  <2>2. mapping'[h] = p /\ pair \notin torn'
    BY <1>4, <1>9
  <2> QED BY <2>1, <2>2 DEF Whole, all, todo
<1>10. CASE UNCHANGED <<mapping, torn>> /\ all \intersect entries # {}
  <2>1. <<"in", p, h>> \in entries \/ mapping[h] = p
    BY <1>5, <1>6, <1>8, <1>10 DEF EntriesAt
  <2>2. CASE <<"in", p, h>> \in entries
    <3>1. EntriesAt(p)' = EntriesAt(p)
      BY <1>2, <2>2 DEF EntriesAt
    <3> QED BY <1>10, <3>1, SamePair
  <2>3. CASE mapping[h] = p /\ <<"in", p, h>> \notin entries
    <3>1. pair \in torn
      BY <1>3, <1>6, <2>3 DEF EntriesAt
    <3>2. EntriesAt(p)' \subseteq all
      BY <1>3, <1>7, <1>8
    <3> QED BY <1>10, <2>3, <3>1, <3>2 DEF Whole, all, todo
  <2> QED BY <2>1, <2>2, <2>3
<1>11. CASE Torn(p, h)
  <2>1. mapping' = mapping /\ pair \in torn'
    BY <1>11 DEF Torn
  <2>2. EntriesAt(p)' \subseteq all
    BY <1>3, <1>7, <1>8
  <2>3. ASSUME mapping[h] # p PROVE \E n \in 0..4 : EntriesAt(p)' = First(todo, n)
    <3>1. PICK n \in 0..4 : EntriesAt(p) = First(todo, n)
      <4>1. First(todo, 0) = {} /\ 0 \in 0..4
        BY DEF First
      <4> QED BY <1>6, <2>3, <4>1
    <3>2. CASE EntriesAt(p) = {}
      BY <1>7, <3>2
    <3>3. CASE EntriesAt(p) # {}
      <4>1. <<"in", p, h>> \in entries
        BY <1>5, <3>1, <3>3 DEF EntriesAt
      <4>2. EntriesAt(p)' = EntriesAt(p)
        BY <1>2, <4>1 DEF EntriesAt
      <4> QED BY <3>1, <4>2
    <3> QED BY <3>2, <3>3
  <2> QED BY <2>1, <2>2, <2>3 DEF Whole, all, todo
<1> QED BY <1>2, <1>9, <1>10, <1>11

\* The end of an authorization on a port of its own: all entries go, or a write is
\* lost.
LEMMA UnauthorizeAlone ==
    ASSUME AccessInv, NEW p \in Ports, NEW h \in Hosts, mapping[h] = p, Unauthorize(h), Whole(p, h)
    PROVE  Whole(p, h)'
<1> DEFINE all  == First(Authorization(p, h), 4)
           pair == <<p, h>>
<1>1. /\ entries' \subseteq entries
      /\ \/ /\ mapping' = [mapping EXCEPT ![h] = NoPort] /\ torn' = torn \ {pair}
            /\ entries' = entries \ all /\ all \subseteq entries
         \/ UNCHANGED <<mapping, torn>> /\ ~ all \subseteq entries
         \/ Torn(p, h)
  BY UnauthorizeEffect
<1>2. mapping \in [Hosts -> Ports \union {NoPort}]
  BY DEF AccessInv, AccessTypeOK
<1>3. EntriesAt(p) \subseteq all /\ (pair \notin torn => EntriesAt(p) = all)
  BY DEF Whole
<1> HIDE DEF all
<1>4. EntriesAt(p)' \subseteq EntriesAt(p)
  BY <1>1 DEF EntriesAt
<1>5. CASE /\ mapping' = [mapping EXCEPT ![h] = NoPort] /\ torn' = torn \ {pair}
           /\ entries' = entries \ all /\ all \subseteq entries
  <2>1. EntriesAt(p)' = {}
    BY <1>3, <1>5 DEF EntriesAt
  <2>2. mapping'[h] # p /\ pair \notin torn'
    BY <1>2, <1>5, PortAccessAssumption
  <2> QED BY <2>1, <2>2 DEF Whole
<1>6. CASE UNCHANGED <<mapping, torn>> /\ ~ all \subseteq entries
  <2>1. pair \in torn
    BY <1>3, <1>6 DEF EntriesAt
  <2> QED BY <1>3, <1>4, <1>6, <2>1 DEF Whole, all
<1>7. CASE Torn(p, h)
  <2>1. mapping'[h] = p /\ pair \in torn'
    BY <1>7 DEF Torn
  <2> QED BY <1>3, <1>4, <2>1 DEF Whole, all
<1> QED BY <1>1, <1>5, <1>6, <1>7

\* An authorization, of a host that has tried there.
LEMMA AuthorizeWhole ==
    ASSUME AccessInv, AccessWhole, TriedFirst, NEW p \in Ports, NEW h \in Hosts,
           <<p, h>> \in tried, Authorize(p, h), UNCHANGED tried
    PROVE  AccessWhole' /\ \A g \in Hosts : mapping'[g] # NoPort => <<mapping'[g], g>> \in tried'
<1> DEFINE all == First(Authorization(p, h), 4)
<1>1. /\ entries \subseteq entries' /\ entries' \subseteq entries \union all
      /\ mapping' \in {mapping, [mapping EXCEPT ![h] = p]}
      /\ torn' \in {torn, torn \union {<<p, h>>}, torn \ {<<p, h>>}}
  BY AuthorizeAdds
<1>2. \A e \in all : e[2] = p
  BY OnItsPort
<1>3. mapping \in [Hosts -> Ports \union {NoPort}]
  BY DEF AccessInv, AccessTypeOK
<1>4. \A g \in Hosts : mapping'[g] # NoPort => <<mapping'[g], g>> \in tried'
  BY <1>1, <1>3 DEF TriedFirst
<1>5. ASSUME NEW q \in Ports, NEW g \in Hosts, Tried(q, g) PROVE Whole(q, g)'
  <2>0. Whole(q, g)
    BY <1>5, WholeParts
  <2>1. CASE q = p
    <3>1. g = h
      BY <1>5, <2>1, TriedAlone
    <3> QED BY <2>0, <2>1, <3>1, AuthorizeAlone
  <2>2. CASE q # p
    <3>1. g # h
      BY <1>5, <2>2, TriedAlone
    <3>2. mapping'[g] = mapping[g] /\ (<<q, g>> \in torn' <=> <<q, g>> \in torn)
      BY <1>1, <1>3, <3>1
    <3> HIDE DEF all
    <3>3. EntriesAt(q)' = EntriesAt(q)
      BY <1>1, <1>2, <2>2 DEF EntriesAt
    <3> QED BY <2>0, <3>2, <3>3, SamePair
  <2> QED BY <2>1, <2>2
<1> QED BY <1>4, <1>5, WholeNext

\* Its end.
LEMMA UnauthorizeWhole ==
    ASSUME AccessInv, AccessWhole, TriedFirst, NEW h \in Hosts, mapping[h] # NoPort,
           Unauthorize(h), UNCHANGED tried
    PROVE  AccessWhole' /\ \A g \in Hosts : mapping'[g] # NoPort => <<mapping'[g], g>> \in tried'
<1>0. PICK p \in Ports : p = mapping[h]
  BY DEF AccessInv, AccessTypeOK
<1> DEFINE all == First(Authorization(p, h), 4)
<1>1. /\ entries' \subseteq entries /\ entries \subseteq entries' \union all
      /\ mapping' \in {mapping, [mapping EXCEPT ![h] = NoPort]}
      /\ torn' \in {torn, torn \union {<<p, h>>}, torn \ {<<p, h>>}}
  BY <1>0, UnauthorizeEffect DEF Torn
<1>2. \A e \in all : e[2] = p
  BY OnItsPort
<1>3. mapping \in [Hosts -> Ports \union {NoPort}] /\ <<p, h>> \in tried
  BY <1>0 DEF AccessInv, AccessTypeOK, TriedFirst
<1>4. \A g \in Hosts : mapping'[g] # NoPort => <<mapping'[g], g>> \in tried'
  BY <1>1, <1>3 DEF TriedFirst
<1>5. ASSUME NEW q \in Ports, NEW g \in Hosts, Tried(q, g) PROVE Whole(q, g)'
  <2>0. Whole(q, g)
    BY <1>5, WholeParts
  <2>1. CASE q = p
    <3>1. g = h
      BY <1>3, <1>5, <2>1, TriedAlone
    <3> QED BY <1>0, <2>0, <2>1, <3>1, UnauthorizeAlone
  <2>2. CASE q # p
    <3>1. g # h
      BY <1>3, <1>5, <2>2, TriedAlone
    <3>2. mapping'[g] = mapping[g] /\ (<<q, g>> \in torn' <=> <<q, g>> \in torn)
      BY <1>1, <1>3, <3>1
    <3> HIDE DEF all
    <3>3. EntriesAt(q)' = EntriesAt(q)
      BY <1>1, <1>2, <2>2 DEF EntriesAt
    <3> QED BY <2>0, <3>2, <3>3, SamePair
  <2> QED BY <2>1, <2>2
<1> QED BY <1>4, <1>5, WholeNext

\* Neither the mapping nor the entries change, and what was tried stays.
LEMMA SameWhole ==
    ASSUME AccessWhole, TriedFirst, UNCHANGED authVars, tried \subseteq tried'
    PROVE  AccessWhole' /\ \A g \in Hosts : mapping'[g] # NoPort => <<mapping'[g], g>> \in tried'
<1>1. UNCHANGED <<mapping, entries, torn>>
  BY DEF authVars
<1>2. ASSUME NEW p \in Ports, NEW h \in Hosts, Tried(p, h) PROVE Whole(p, h)'
  <2>1. EntriesAt(p)' = EntriesAt(p)
    BY <1>1 DEF EntriesAt
  <2> QED BY <1>1, <1>2, <2>1, SamePair, WholeParts
<1> QED BY <1>1, <1>2, WholeNext DEF TriedFirst

\* A session that is set is one of a host that has tried.
LEMMA SetSessionTried ==
    ASSUME AccessInv, TriedFirst, NEW h \in Hosts, at[h] \in Ports, <<at[h], h>> \in tried',
           NEW s, SetSession(h, s), tried \subseteq tried'
    PROVE  \A q \in Ports, g \in Hosts : sessions'[<<q, g>>] # NoSession => <<q, g>> \in tried'
<1>1. sessions \in [Ports \X Hosts -> Session \union {NoSession}]
  BY DEF AccessInv, AccessTypeOK
<1>2. ASSUME NEW q \in Ports, NEW g \in Hosts, sessions'[<<q, g>>] # NoSession
      PROVE  <<q, g>> \in tried'
  <2>1. CASE <<q, g>> = <<at[h], h>>
    BY <2>1
  <2>2. CASE <<q, g>> # <<at[h], h>>
    <3>1. sessions'[<<q, g>>] = sessions[<<q, g>>]
      BY <1>1, <2>2 DEF SetSession
    <3> QED BY <1>2, <3>1 DEF TriedFirst
  <2> QED BY <2>1, <2>2
<1> QED BY <1>2

\* A logoff.
LEMMA LogoffWhole ==
    ASSUME AccessInv, AccessWhole, TriedFirst, NEW h \in Hosts, Logoff(h), UNCHANGED tried
    PROVE  AccessWhole' /\ TriedFirst'
<1>1. CASE UNCHANGED <<sessions, authVars>>
  BY <1>1, SameWhole DEF TriedFirst
<1>2. CASE /\ at[h] # NoPort /\ mapping[h] # NoPort /\ SessionOf(h) # NoSession
           /\ Unauthorize(h)
           /\ IF mapping'[h] = NoPort THEN SetSession(h, NoSession) ELSE UNCHANGED sessions
  <2>1. AccessWhole' /\ \A g \in Hosts : mapping'[g] # NoPort => <<mapping'[g], g>> \in tried'
    BY <1>2, UnauthorizeWhole
  <2>2. at[h] \in Ports /\ <<at[h], h>> \in tried'
    BY <1>2 DEF AccessInv, AccessTypeOK, TriedFirst, SessionOf
  <2>3. \A q \in Ports, g \in Hosts : sessions'[<<q, g>>] # NoSession => <<q, g>> \in tried'
    BY <1>2, <2>2, SetSessionTried DEF TriedFirst
  <2> QED BY <2>1, <2>3 DEF TriedFirst
<1> QED BY <1>1, <1>2 DEF Logoff

\* The handler of a response.
LEMMA ResponseWhole ==
    ASSUME AccessInv, AccessWhole, TriedFirst,
           NEW h \in Hosts, NEW kind \in {"identity", "method"}, EapResponse(h, kind)
    PROVE  AccessWhole' /\ TriedFirst'
<1>1. /\ at[h] \in Ports
      /\ \E s \in Session, verdict \in Verdict :
           \/ Apply(h, s, verdict)
           \/ SetSession(h, s) /\ UNCHANGED authVars
  BY Response
<1>2. SessionOf(h) # NoSession /\ UNCHANGED tried
  BY DEF EapResponse
<1>3. <<at[h], h>> \in tried
  BY <1>1, <1>2 DEF TriedFirst, SessionOf
<1>4. PICK s \in Session, verdict \in Verdict :
         \/ Apply(h, s, verdict)
         \/ SetSession(h, s) /\ UNCHANGED authVars
  BY <1>1
<1>5. \E t : SetSession(h, t)
  BY <1>4 DEF Apply, Verdict
<1>6. \A q \in Ports, g \in Hosts : sessions'[<<q, g>>] # NoSession => <<q, g>> \in tried'
  BY <1>1, <1>2, <1>3, <1>5, SetSessionTried
<1>7. \/ UNCHANGED authVars
      \/ Authorize(at[h], h)
      \/ mapping[h] # NoPort /\ Unauthorize(h)
  BY <1>4 DEF Apply, Verdict
<1>8. AccessWhole' /\ \A g \in Hosts : mapping'[g] # NoPort => <<mapping'[g], g>> \in tried'
  BY <1>1, <1>2, <1>3, <1>7, SameWhole, AuthorizeWhole, UnauthorizeWhole
<1> QED BY <1>6, <1>8 DEF TriedFirst

\* Every step keeps it.
LEMMA NextWhole ==
    AccessInv /\ AccessWhole /\ TriedFirst /\ [AccessNext]_accessVars => AccessWhole' /\ TriedFirst'
<1> SUFFICES ASSUME AccessInv, AccessWhole, TriedFirst, [AccessNext]_accessVars
             PROVE  AccessWhole' /\ TriedFirst'
  OBVIOUS
<1>1. UNCHANGED <<sessions, authVars, tried>> => AccessWhole' /\ TriedFirst'
  BY SameWhole DEF TriedFirst
<1>2. ASSUME NEW h \in Hosts, EapStart(h) PROVE AccessWhole' /\ TriedFirst'
  <2>1. at[h] \in Ports /\ <<at[h], h>> \in tried' /\ tried \subseteq tried'
    BY <1>2 DEF EapStart, Packet, AccessInv, AccessTypeOK
  <2>2. \E t : SetSession(h, t)
    BY <1>2 DEF EapStart
  <2>3. \A q \in Ports, g \in Hosts : sessions'[<<q, g>>] # NoSession => <<q, g>> \in tried'
    BY <2>1, <2>2, SetSessionTried
  <2>4. AccessWhole' /\ \A g \in Hosts : mapping'[g] # NoPort => <<mapping'[g], g>> \in tried'
    BY <1>2, <2>1, SameWhole DEF EapStart
  <2> QED BY <2>3, <2>4 DEF TriedFirst
<1>3. ASSUME NEW h \in Hosts, AccessStep(h) PROVE AccessWhole' /\ TriedFirst'
  <2>1. CASE EapLogoff(h) \/ Stop(h)
    BY <2>1, LogoffWhole DEF EapLogoff, Stop
  <2>2. CASE \E kind \in {"identity", "method"} : EapResponse(h, kind)
    BY <2>2, ResponseWhole
  <2>3. CASE Start(h) \/ Register(h) \/ Find(h) \/ RequestRule(h) \/ Leave(h) \/ Crash(h) \/ Move(h)
    BY <1>1, <2>3 DEF Start, Register, Find, RequestRule, Leave, Crash, Move, switchVars
  <2> QED BY <1>2, <1>3, <2>1, <2>2, <2>3 DEF AccessStep
<1>4. ASSUME NEW p \in Ports, SoftLimit(p) \/ HardLimit(p) PROVE AccessWhole' /\ TriedFirst'
  BY <1>1, <1>4 DEF SoftLimit, HardLimit, switchVars
<1>5. CASE UNCHANGED accessVars
  BY <1>1, <1>5 DEF accessVars, switchVars
<1> QED BY <1>3, <1>4, <1>5 DEF AccessNext

\* A host that shares neither its port nor itself with others has all its entries
\* when it is authorized and none when it is not: operations that are refused, late
\* answers and rejections never leave half an authorization behind.  Only a write
\* that is lost does: what it leaves is the host's own, the first few of its entries
\* when it is not authorized, until an authorization or its end is whole again.
THEOREM AccessIsWhole == AccessSpec => []AccessWhole
<1>1. AccessInit => AccessWhole /\ TriedFirst
  <2> SUFFICES ASSUME AccessInit PROVE AccessWhole /\ TriedFirst
    OBVIOUS
  <2>1. \A p \in Ports, h \in Hosts : mapping[h] # p /\ sessions[<<p, h>>] = NoSession
    BY PortAccessAssumption DEF AccessInit
  <2> QED BY <2>1 DEF AccessInit, AccessWhole, TriedFirst
<1> QED BY <1>1, InitAccessInv, NextAccessInv, NextWhole, PTL DEF AccessSpec

-----------------------------------------------------------------------------
(* A client and its switch agree on a rule.                                *)

HasRule(h) == phase[h] \in {"up", "leave"}

\* A client asks at the port it is plugged in; one that is up alone has a rule, and
\* it is the port's; and no two that are up share a port.  All of it at ports where
\* every rule could be added.
OneRule ==
    ~strayed =>
        \A h \in Hosts :
            /\ phase[h] = "request" => edge[h] = at[h]
            /\ ~HasRule(h) => rule[h] = NoRule
            /\ HasRule(h) =>
                 /\ rule[h] \in Rule
                 /\ edge[h] \notin failed => rules[edge[h]] = rule[h] /\ edge[h] \in forced
            /\ \A g \in Hosts \ {h} :
                 HasRule(g) /\ HasRule(h) /\ edge[h] \notin failed => edge[g] # edge[h]

\* It holds of a client that does not take part in a step, when its port's rule
\* stays as it is.
OneRuleOf(h) ==
    /\ phase[h] = "request" => edge[h] = at[h]
    /\ ~HasRule(h) => rule[h] = NoRule
    /\ HasRule(h) =>
         /\ rule[h] \in Rule
         /\ edge[h] \notin failed => rules[edge[h]] = rule[h] /\ edge[h] \in forced

Apart(g, h) == HasRule(g) /\ HasRule(h) /\ edge[h] \notin failed => edge[g] # edge[h]

\* By client, and by two of them.
LEMMA OneRuleParts ==
    OneRule <=> (~strayed => /\ \A h \in Hosts : OneRuleOf(h)
                             /\ \A h \in Hosts : \A g \in Hosts \ {h} : Apart(g, h))
BY DEF OneRule, OneRuleOf, Apart

\* The same of the next state.
LEMMA OneRuleNext ==
    ASSUME ~strayed' => /\ \A h \in Hosts : OneRuleOf(h)'
                        /\ \A h \in Hosts : \A g \in Hosts \ {h} : Apart(g, h)'
    PROVE  OneRule'
BY DEF OneRule, OneRuleOf, Apart

\* Steps of a client that has no rule and gets none.
LEMMA WithoutRule ==
    ASSUME AccessInv, OneRule, NEW h \in Hosts,
           Start(h) \/ Register(h) \/ Find(h)
    PROVE  OneRule'
<1> SUFFICES ASSUME ~strayed' PROVE OneRule'
  BY DEF OneRule
<1>1. ~strayed /\ UNCHANGED <<at, rule, rules, forced, failed, strayed>>
  BY DEF Start, Register, Find, macsecVars
<1>2. /\ phase \in [Hosts -> {"off", "authenticate", "find", "request", "up", "leave"}]
      /\ edge \in [Hosts -> Ports \union {NoPort}]
  BY DEF AccessInv, AccessTypeOK
<1>3. /\ ~HasRule(h) /\ ~HasRule(h)'
      /\ phase'[h] = "request" => edge'[h] = at'[h]
      /\ \A g \in Hosts \ {h} : phase'[g] = phase[g] /\ edge'[g] = edge[g]
  <2>1. CASE Start(h) \/ Register(h)
    BY <1>2, <2>1 DEF Start, Register, Goto, HasRule, macsecVars
  <2>2. CASE Find(h)
    BY <1>2, <2>2 DEF Find, Goto, HasRule
  <2> QED BY <2>1, <2>2
<1>4. ASSUME NEW g \in Hosts PROVE OneRuleOf(g)'
  <2>1. OneRuleOf(g)
    BY <1>1, OneRuleParts
  <2>2. CASE g = h
    BY <1>1, <1>3, <2>1, <2>2 DEF OneRuleOf
  <2>3. CASE g # h
    BY <1>1, <1>3, <2>1, <2>3 DEF OneRuleOf, HasRule
  <2> QED BY <2>2, <2>3
<1>5. ASSUME NEW f \in Hosts, NEW g \in Hosts \ {f} PROVE Apart(g, f)'
  <2>1. Apart(g, f)
    BY <1>1, OneRuleParts
  <2>2. CASE g = h \/ f = h
    BY <1>3, <2>2 DEF Apart
  <2>3. CASE g # h /\ f # h
    BY <1>1, <1>3, <2>1, <2>3 DEF Apart, HasRule
  <2> QED BY <2>2, <2>3
<1> QED BY <1>4, <1>5, OneRuleNext

\* A client that hears its switch without a rule is alone at the port it found, if
\* every rule could be added there.
LEMMA NobodyAt ==
    ASSUME AccessInv, OneRule, ~strayed, NEW h \in Hosts, phase[h] = "request", Reaches(h),
           NEW g \in Hosts, HasRule(g), edge[g] \notin failed
    PROVE  edge[g] # edge[h]
<1>1. rules[edge[h]] = NoRule
  BY DEF OneRule, Reaches, Hears, HasRule
<1>2. rules[edge[g]] \in Rule
  BY DEF OneRule
<1> QED BY <1>1, <1>2, PortAccessAssumption DEF Rule

\* A client asks for a rule.
LEMMA RequestOneRule ==
    ASSUME AccessInv, OneRule, NEW h \in Hosts, RequestRule(h)
    PROVE  OneRule'
<1> SUFFICES ASSUME ~strayed' PROVE OneRule'
  BY DEF OneRule
<1>1. ~strayed /\ phase[h] = "request" /\ UNCHANGED <<at, edge, strayed>>
  BY DEF RequestRule
<1>2. /\ phase \in [Hosts -> {"off", "authenticate", "find", "request", "up", "leave"}]
      /\ rule \in [Hosts -> Rule \union {NoRule}] /\ rules \in [Ports -> Rule \union {Half, NoRule}]
      /\ edge[h] \in Ports
  BY <1>1 DEF AccessInv, AccessTypeOK
<1>3. CASE ~Reaches(h)
  <2>1. Goto(h, "off") /\ UNCHANGED <<rule, rules, forced, failed>>
    BY <1>3 DEF RequestRule
  <2>2. ~HasRule(h) /\ ~HasRule(h)' /\ phase'[h] # "request"
    BY <1>1, <1>2, <2>1 DEF Goto, HasRule
  <2>3. \A g \in Hosts \ {h} : phase'[g] = phase[g]
    BY <1>2, <2>1 DEF Goto
  <2>4. ASSUME NEW g \in Hosts PROVE OneRuleOf(g)'
    <3>1. OneRuleOf(g)
      BY <1>1, OneRuleParts
    <3>2. CASE g = h
      BY <1>1, <2>1, <2>2, <3>1, <3>2 DEF OneRuleOf
    <3>3. CASE g # h
      BY <1>1, <2>1, <2>3, <3>1, <3>3 DEF OneRuleOf, HasRule
    <3> QED BY <3>2, <3>3
  <2>5. ASSUME NEW f \in Hosts, NEW g \in Hosts \ {f} PROVE Apart(g, f)'
    <3>1. Apart(g, f)
      BY <1>1, OneRuleParts
    <3> QED BY <1>1, <2>1, <2>2, <2>3, <3>1 DEF Apart, HasRule
  <2> QED BY <2>4, <2>5, OneRuleNext
<1>4. CASE Reaches(h)
  <2>1. PICK n \in Rule :
          /\ \/ AddRule(edge[h], n) \/ AddRefused(edge[h]) \/ AddFails(edge[h], n)
          /\ \/ Goto(h, "up") /\ InstallRule(h, n)
             \/ Goto(h, "off") /\ UNCHANGED rule
    <3>1. drawn + 1 \in Rule
      BY <1>1, <1>4, PortAccessAssumption DEF RequestRule, AccessInv, AccessTypeOK, Rule
    <3> QED BY <1>4, <3>1 DEF RequestRule
  <2>2. /\ \A p \in Ports \ {edge[h]} : rules'[p] = rules[p] /\ (p \in forced => p \in forced')
        /\ failed \subseteq failed'
        /\ edge[h] \in failed' \/ (rules'[edge[h]] = n /\ edge[h] \in forced' /\ failed' = failed)
    <3>1. CASE AddRule(edge[h], n)
      BY <1>2, <3>1 DEF AddRule
    <3>2. CASE AddRefused(edge[h])
      BY <1>2, <3>2 DEF AddRefused
    <3>3. CASE AddFails(edge[h], n)
      BY <1>2, <3>3 DEF AddFails
    <3> QED BY <2>1, <3>1, <3>2, <3>3
  <2>3. \A g \in Hosts \ {h} : phase'[g] = phase[g] /\ rule'[g] = rule[g]
    BY <1>2, <2>1 DEF Goto, InstallRule
  <2>4. rule[h] = NoRule
    BY <1>1 DEF OneRule, HasRule
  <2>5. \/ phase'[h] = "up" /\ rule'[h] = n
        \/ phase'[h] = "off" /\ rule'[h] = NoRule
    BY <1>2, <2>1, <2>4 DEF Goto, InstallRule
  <2>6. OneRuleOf(h)'
    BY <1>1, <2>2, <2>5 DEF OneRuleOf, HasRule
  <2>7. ASSUME NEW g \in Hosts \ {h}
        PROVE  OneRuleOf(g)' /\ (HasRule(g)' /\ edge'[g] \notin failed' => edge'[g] # edge'[h])
    <3>1. OneRuleOf(g) /\ (HasRule(g)' <=> HasRule(g))
      BY <1>1, <2>3, OneRuleParts DEF HasRule
    <3>2. CASE HasRule(g) /\ edge[g] \notin failed'
      <4>1. edge[g] \in Ports \ {edge[h]}
        BY <1>1, <1>4, <2>2, <3>2, NobodyAt DEF HasRule, AccessInv
      <4>2. rules'[edge[g]] = rules[edge[g]]
        BY <2>2, <4>1
      <4>3. edge[g] \in forced'
        BY <2>2, <3>1, <3>2, <4>1 DEF OneRuleOf
      <4> QED BY <1>1, <2>2, <2>3, <3>1, <3>2, <4>1, <4>2, <4>3 DEF OneRuleOf, HasRule
    <3>3. CASE HasRule(g) /\ edge[g] \in failed'
      BY <1>1, <2>3, <3>1, <3>3 DEF OneRuleOf, HasRule
    <3>4. CASE ~HasRule(g)
      BY <1>1, <2>3, <3>1, <3>4 DEF OneRuleOf, HasRule
    <3> QED BY <3>2, <3>3, <3>4
  <2>8. ASSUME NEW f \in Hosts, NEW g \in Hosts \ {f} PROVE Apart(g, f)'
    <3>1. CASE g = h \/ f = h
      BY <2>7, <3>1 DEF Apart
    <3>2. CASE g # h /\ f # h
      <4>1. Apart(g, f)
        BY <1>1, OneRuleParts
      <4> QED BY <1>1, <2>2, <2>3, <3>2, <4>1 DEF Apart, HasRule
    <3> QED BY <3>1, <3>2
  <2> QED BY <2>6, <2>7, <2>8, OneRuleNext
<1> QED BY <1>3, <1>4

\* A client that is up starts to leave.
LEMMA StopOneRule ==
    ASSUME AccessInv, OneRule, NEW h \in Hosts, Stop(h)
    PROVE  OneRule'
<1>1. UNCHANGED <<at, edge, rule, rules, forced, failed, strayed>>
  BY DEF Stop, macsecVars
<1>2. \A g \in Hosts : /\ HasRule(g)' <=> HasRule(g)
                       /\ phase'[g] = "request" => phase[g] = "request"
  BY DEF Stop, Goto, HasRule, AccessInv, AccessTypeOK
<1> HIDE DEF HasRule
<1> QED BY <1>1, <1>2 DEF OneRule

\* A client leaves, orderly or not.
LEMMA LeaveOneRule ==
    ASSUME AccessInv, OneRule, NEW h \in Hosts, Leave(h) \/ Crash(h)
    PROVE  OneRule'
<1> SUFFICES ASSUME ~strayed' PROVE OneRule'
  BY DEF OneRule
<1>1. /\ ~strayed /\ UNCHANGED <<at, failed, strayed>>
      /\ phase' = [phase EXCEPT ![h] = "off"]
      /\ rule' = [rule EXCEPT ![h] = NoRule] /\ edge' = [edge EXCEPT ![h] = NoPort]
  BY DEF Leave, Crash, Goto, UninstallRule
<1>2. /\ phase \in [Hosts -> {"off", "authenticate", "find", "request", "up", "leave"}]
      /\ rule \in [Hosts -> Rule \union {NoRule}] /\ rules \in [Ports -> Rule \union {Half, NoRule}]
      /\ edge \in [Hosts -> Ports \union {NoPort}]
  BY DEF AccessInv, AccessTypeOK
<1>3. \/ UNCHANGED <<rules, forced>>
      \/ HasRule(h) /\ (RemoveRule(edge[h]) \/ RemoveFails(edge[h]))
  BY DEF Leave, Crash, HasRule
<1>4. ~HasRule(h)' /\ phase'[h] = "off" /\ rule'[h] = NoRule
  BY <1>1, <1>2 DEF HasRule
<1>5. \A g \in Hosts \ {h} : phase'[g] = phase[g] /\ rule'[g] = rule[g] /\ edge'[g] = edge[g]
  BY <1>1, <1>2
<1>6. ASSUME NEW g \in Hosts \ {h}, HasRule(g), edge[g] \notin failed
      PROVE  rules'[edge[g]] = rules[edge[g]] /\ (edge[g] \in forced => edge[g] \in forced')
  <2>1. CASE UNCHANGED <<rules, forced>>
    BY <2>1
  <2>2. CASE HasRule(h) /\ (RemoveRule(edge[h]) \/ RemoveFails(edge[h]))
    <3>1. edge[g] # edge[h] /\ edge[g] \in Ports
      BY <1>1, <1>6, <2>2 DEF OneRule, HasRule, AccessInv
    <3> QED BY <1>2, <2>2, <3>1 DEF RemoveRule, RemoveFails
  <2> QED BY <1>3, <2>1, <2>2
<1>7. ASSUME NEW g \in Hosts PROVE OneRuleOf(g)'
  <2>1. CASE g = h
    BY <1>4, <2>1 DEF OneRuleOf
  <2>2. CASE g # h /\ HasRule(g)
    <3>1. OneRuleOf(g)
      BY <1>1, OneRuleParts
    <3> QED BY <1>1, <1>5, <1>6, <2>2, <3>1 DEF OneRuleOf, HasRule
  <2>3. CASE g # h /\ ~HasRule(g)
    <3>1. OneRuleOf(g)
      BY <1>1, OneRuleParts
    <3> QED BY <1>1, <1>5, <2>3, <3>1 DEF OneRuleOf, HasRule
  <2> QED BY <2>1, <2>2, <2>3
<1>8. ASSUME NEW f \in Hosts, NEW g \in Hosts \ {f} PROVE Apart(g, f)'
  <2>1. Apart(g, f)
    BY <1>1, OneRuleParts
  <2>2. CASE g = h \/ f = h
    BY <1>4, <2>2 DEF Apart
  <2>3. CASE g # h /\ f # h
    BY <1>1, <1>5, <2>1, <2>3 DEF Apart, HasRule
  <2> QED BY <2>2, <2>3
<1> QED BY <1>7, <1>8, OneRuleNext

\* Cables are moved.
LEMMA MoveOneRule ==
    ASSUME AccessInv, OneRule, NEW h \in Hosts, Move(h)
    PROVE  OneRule'
<1> SUFFICES ASSUME ~strayed' PROVE OneRule'
  BY DEF OneRule
<1>1. /\ ~strayed /\ phase[h] # "request"
      /\ UNCHANGED <<phase, edge, rule, rules, forced, failed>>
  BY DEF Move
<1>2. \A g \in Hosts \ {h} : at'[g] = at[g]
  BY DEF Move, AccessInv, AccessTypeOK
<1> QED BY <1>1, <1>2 DEF OneRule, HasRule

\* Every step keeps it.
LEMMA NextOneRule == AccessInv /\ OneRule /\ [AccessNext]_accessVars => OneRule'
<1> SUFFICES ASSUME AccessInv, OneRule, [AccessNext]_accessVars PROVE OneRule'
  OBVIOUS
<1>1. UNCHANGED <<at, phase, edge, rule, rules, forced, failed, strayed>> => OneRule'
  BY DEF OneRule, HasRule
<1>2. ASSUME NEW h \in Hosts, AccessStep(h) PROVE OneRule'
  <2>1. CASE EapStart(h) \/ EapLogoff(h) \/ \E kind \in {"identity", "method"} : EapResponse(h, kind)
    BY <1>1, <2>1 DEF EapStart, EapLogoff, EapResponse, macsecVars
  <2>2. CASE Start(h) \/ Register(h) \/ Find(h)
    BY <2>2, WithoutRule
  <2>3. CASE RequestRule(h)
    BY <2>3, RequestOneRule
  <2>4. CASE Stop(h)
    BY <2>4, StopOneRule
  <2>5. CASE Leave(h) \/ Crash(h)
    BY <2>5, LeaveOneRule
  <2>6. CASE Move(h)
    BY <2>6, MoveOneRule
  <2> QED BY <1>2, <2>1, <2>2, <2>3, <2>4, <2>5, <2>6 DEF AccessStep
<1>3. ASSUME NEW p \in Ports, SoftLimit(p) \/ HardLimit(p) PROVE OneRule'
  BY <1>1, <1>3 DEF SoftLimit, HardLimit, Renewed
<1>4. CASE UNCHANGED accessVars
  BY <1>1, <1>4 DEF accessVars, macsecVars
<1> QED BY <1>2, <1>3, <1>4 DEF AccessNext

\* As long as no client is moved between the moment it finds its port and the one
\* it asks for a rule there, a client that is up and the switch hold the same rule
\* and the port stays open, at every port where no addition of a rule has failed:
\* no other host that authenticates at the port can replace the rule, and no other
\* that leaves can take it away.
THEOREM ClientsAgree == AccessSpec => []MacsecAgrees
<1>1. AccessInit => OneRule
  BY DEF AccessInit, OneRule, HasRule
<1>2. OneRule => MacsecAgrees
  BY DEF OneRule, MacsecAgrees, HasRule
<1> QED BY <1>1, <1>2, InitAccessInv, NextAccessInv, NextOneRule, PTL DEF AccessSpec

=============================================================================
