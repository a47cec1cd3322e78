---------------------------- MODULE LinkKeysProofs ----------------------------
(***************************************************************************)
(* Proofs about LinkKeys for any number of worker threads, topology        *)
(* updates, rules and lost calls: its types, what holds when calls come    *)
(* one after the other, what holds of renewals that cross, and that an     *)
(* edge gets rules at both ends or at none.                                *)
(***************************************************************************)
EXTENDS LinkKeys, FiniteSetTheorems, TLAPS

\* The controller at the other end of an edge.
LEMMA TwoEnds ==
    ASSUME NEW e \in Ends
    PROVE  /\ Other(e) \in Ends /\ Other(e) # e /\ Other(Other(e)) = e
           /\ \A f \in Ends : f = e \/ f = Other(e)
<1>1. PICK a \in Ends, b \in Ends : a # b /\ Ends = {a, b}
  BY LinkKeysAssumption
<1>2. \A g \in Ends : Other(g) \in Ends /\ Other(g) # g
  BY <1>1 DEF Other
<1> QED BY <1>1, <1>2

-----------------------------------------------------------------------------
(* Types.                                                                  *)

\* An end that has a rule has a key state and an edge.
EndTypes ==
    /\ port \in [Ends -> PortStates]
    /\ slots \in [Ends -> [Slots -> 0..MaxRules]]
    /\ current \in [Ends -> 0..MaxRules]
    /\ keyState \in [Ends -> Slots \union {"none"}]
    /\ edge \in [Ends -> Ends \union {NoEnd}] /\ timers \in [Ends -> Ends \union {NoEnd}]
    /\ \A e \in Ends : Up(e) => keyState[e] \in Slots /\ edge[e] \in Ends

\* A thread that brings something out knows the edge, and the rule it has drawn.
ThreadTypes ==
    /\ pc \in [Workers -> Steps] /\ job \in [Workers -> Job]
    /\ \A w \in Workers : pc[w] # "idle" => job[w].first \in Ends
    /\ \A w \in Workers : pc[w] \in {"add1", "add2", "renew1", "renew2"} => job[w].rule \in 1..MaxRules

CountTypes ==
    /\ known \in BOOLEAN
    /\ updates \in 0..MaxUpdates /\ drawn \in 0..MaxRules
    /\ crossed \in BOOLEAN

LostTypes == lost \in Seq(Calls) /\ Len(lost) <= MaxLost

LinkInv == EndTypes /\ ThreadTypes /\ CountTypes /\ LostTypes /\ met \in BOOLEAN

\* It contains the types.
LEMMA LinkInvTypes == LinkInv => TypeOK
BY DEF LinkInv, EndTypes, ThreadTypes, CountTypes, LostTypes, TypeOK

\* The keys of a rule, and those of none, ...
LEMMA KeyTypes ==
    /\ NoKeys \in [Slots -> 0..MaxRules]
    /\ \A rule \in 0..MaxRules : Fresh(rule) \in [Slots -> 0..MaxRules]
BY LinkKeysAssumption DEF Slots, RandomKey, NoKeys, Fresh

\* ... and the time limits an end may have set.
LEMMA TimedTypes ==
    ASSUME EndTypes, NEW e \in Ends, NEW first \in Ends
    PROVE  Timed(e, first) \in [Ends -> Ends \union {NoEnd}]
BY DEF EndTypes, Timed

\* A port is closed, and keeps which entries it keeps.
LEMMA CloseTypes ==
    ASSUME EndTypes, NEW e \in Ends, NEW state \in PortStates, Close(e, state)
    PROVE  port' \in [Ends -> PortStates] /\ slots' \in [Ends -> [Slots -> 0..MaxRules]]
<1> HIDE DEF PortStates
<1> QED BY KeyTypes DEF EndTypes, Close

\* What is remembered of a rule stays or goes.
LEMMA ForgetTypes ==
    ASSUME EndTypes, NEW e \in Ends, Forget(e) \/ UNCHANGED <<current, keyState, edge>>
    PROVE  /\ current' \in [Ends -> 0..MaxRules]
           /\ keyState' \in [Ends -> Slots \union {"none"}]
           /\ edge' \in [Ends -> Ends \union {NoEnd}]
           /\ \A f \in Ends : Up(f)' => keyState'[f] \in Slots /\ edge'[f] \in Ends
BY LinkKeysAssumption DEF EndTypes, Forget, Up, NoRule

\* A rule is installed at an end, or its installation fails there, ...
LEMMA InstallTypes ==
    ASSUME EndTypes, NEW e \in Ends, NEW rule \in 1..MaxRules, NEW first \in Ends,
           Add(e, rule, first) \/ AddFails(e, first)
    PROVE  EndTypes'
<1>1. CASE Install(e, rule, first)
  <2>1. slots' \in [Ends -> [Slots -> 0..MaxRules]]
    BY <1>1, KeyTypes DEF EndTypes, Install
  <2>2. timers' \in [Ends -> Ends \union {NoEnd}]
    BY <1>1, TimedTypes DEF Install
  <2>3. port' \in [Ends -> PortStates]
    BY <1>1 DEF EndTypes, Install, PortStates
  <2> QED BY <1>1, <2>1, <2>2, <2>3 DEF EndTypes, Install, Up, Slots
<1>2. CASE AddRefused(e, first) \/ AddFails(e, first)
  <2>1. timers' \in [Ends -> Ends \union {NoEnd}]
    BY <1>2, TimedTypes DEF AddRefused, AddFails, EndTypes
  <2>2. PICK state \in PortStates : Close(e, state)
    BY <1>2 DEF AddRefused, AddFails, EndTypes, PortStates
  <2>3. Forget(e) \/ UNCHANGED <<current, keyState, edge>>
    BY <1>2 DEF AddRefused, AddFails
  <2> QED BY <2>1, <2>2, <2>3, CloseTypes, ForgetTypes DEF EndTypes
<1> QED BY <1>1, <1>2 DEF Add

\* ... removed from it, or its removal fails, ...
LEMMA UninstallTypes ==
    ASSUME EndTypes, NEW e \in Ends, Uninstall(e) \/ RemoveFails(e)
    PROVE  EndTypes'
<1>1. UNCHANGED <<port, slots>> \/ \E state \in PortStates : Close(e, state)
  BY DEF Uninstall, RemoveFails, PortStates
<1>2. port' \in [Ends -> PortStates] /\ slots' \in [Ends -> [Slots -> 0..MaxRules]]
  BY <1>1, CloseTypes DEF EndTypes
<1>3. timers' = timers /\ (Forget(e) \/ UNCHANGED <<current, keyState, edge>>)
  BY DEF Uninstall, RemoveFails
<1> QED BY <1>2, <1>3, ForgetTypes DEF EndTypes

\* ... or renewed there, or its renewal fails.
LEMMA RenewTypes ==
    ASSUME EndTypes, NEW e \in Ends, Up(e), NEW rule \in 1..MaxRules, NEW first \in Ends,
           Renew(e, rule, first) \/ RenewHalf(e, rule)
    PROVE  EndTypes'
<1>1. keyState[e] \in Slots /\ Toggle(keyState[e]) \in Slots
  BY DEF EndTypes, Toggle, Slots
<1>2. slots' \in [Ends -> [Slots -> 0..MaxRules]]
  <2>1. [s \in Slots |-> IF s = RenewedSlot(e) THEN rule ELSE current[e]] \in [Slots -> 0..MaxRules]
    BY DEF EndTypes
  <2>2. UNCHANGED slots \/ RenewSlots(e, rule)
    BY DEF Renew, RenewHalf
  <2> QED BY <2>1, <2>2 DEF EndTypes, RenewSlots
<1>3. CASE Renew(e, rule, first)
  <2>1. timers' \in [Ends -> Ends \union {NoEnd}]
    BY <1>3, TimedTypes DEF Renew
  <2>2. /\ current' \in [Ends -> 0..MaxRules] /\ keyState' \in [Ends -> Slots \union {"none"}]
        /\ edge' \in [Ends -> Ends \union {NoEnd}] /\ port' = port
    BY <1>1, <1>3 DEF EndTypes, Renew, NextState, RenewedSlot
  <2>3. ASSUME NEW f \in Ends, Up(f)' PROVE keyState'[f] \in Slots /\ edge'[f] \in Ends
    BY <1>1, <1>3, <2>3 DEF EndTypes, Renew, Up, NextState, RenewedSlot
  <2> QED BY <1>2, <2>1, <2>2, <2>3 DEF EndTypes
<1>4. CASE RenewHalf(e, rule)
  BY <1>1, <1>2, <1>4 DEF EndTypes, RenewHalf, Up, NextState, RenewedSlot
<1> QED BY <1>3, <1>4

\* A call is lost.
LEMMA LoseTypes ==
    ASSUME LostTypes, NEW op \in Calls, Lose(op)
    PROVE  LostTypes' /\ lost' # <<>>
BY LinkKeysAssumption DEF LostTypes, Lose

\* A thread begins, ...
LEMMA BeginTypes ==
    ASSUME ThreadTypes, NEW w \in Workers, NEW step \in Steps \ {"idle"},
           NEW newJob \in Job, newJob.first \in Ends,
           step \in {"add1", "add2", "renew1", "renew2"} => newJob.rule \in 1..MaxRules,
           Begin(w, step, newJob)
    PROVE  ThreadTypes'
BY DEF ThreadTypes, Begin

\* ... goes on, ...
LEMMA GotoTypes ==
    ASSUME ThreadTypes, NEW w \in Workers, NEW step \in Steps \ {"idle"}, pc[w] # "idle",
           step \in {"add1", "add2", "renew1", "renew2"} => job[w].rule \in 1..MaxRules,
           Goto(w, step)
    PROVE  ThreadTypes'
BY DEF ThreadTypes, Goto

\* ... and returns.
LEMMA ReturnTypes ==
    ASSUME ThreadTypes, NEW w \in Workers, Return(w)
    PROVE  ThreadTypes'
<1>1. NoJob \in Job /\ "idle" \in Steps
  BY LinkKeysAssumption DEF NoJob, Job, NoRule, Steps
<1> HIDE DEF NoJob
<1> QED BY <1>1 DEF ThreadTypes, Return

\* A call is made to one of the ends.
LEMMA TargetType ==
    ASSUME ThreadTypes, NEW w \in Workers, pc[w] # "idle"
    PROVE  Target(w) \in Ends /\ Target(w) \in {job[w].first, Other(job[w].first)}
BY TwoEnds DEF ThreadTypes, Target

\* An update of the topology begins, or a rule is drawn or the edge taken out.
LEMMA UpdateTypes ==
    ASSUME LinkInv, NEW w \in Workers,
           \/ \E e \in Ends : CallAdd(w, e) \/ CallRemove(w, e)
           \/ Draw(w) \/ TakeOut(w)
    PROVE  EndTypes' /\ ThreadTypes' /\ CountTypes' /\ LostTypes'
<1>0. EndTypes /\ ThreadTypes /\ CountTypes /\ LostTypes
  BY DEF LinkInv
<1>1. EndTypes'
  BY <1>0 DEF CallAdd, CallRemove, Draw, TakeOut, endVars, EndTypes, Up
<1>2. LostTypes'
  <2>1. UNCHANGED lost \/ Lose("topology")
    BY DEF CallAdd, CallRemove, Draw, TakeOut
  <2> QED BY <1>0, <2>1, LoseTypes DEF LostTypes, Calls
<1>3. CountTypes'
  <2>1. updates' \in 0..MaxUpdates /\ drawn' \in 0..MaxRules
    <3>1. \/ updates' = updates
          \/ updates < MaxUpdates /\ updates' = updates + 1
      BY DEF CallAdd, CallRemove, Draw, TakeOut
    <3>2. CASE Draw(w)
      BY <1>0, <3>1, <3>2, LinkKeysAssumption DEF Draw, CountTypes
    <3>3. CASE TakeOut(w) \/ \E e \in Ends : CallAdd(w, e) \/ CallRemove(w, e)
      <4>1. drawn' = drawn
        BY <3>3 DEF TakeOut, CallAdd, CallRemove
      <4>2. updates \in 0..MaxUpdates /\ drawn \in 0..MaxRules
        BY <1>0 DEF CountTypes
      <4> QED BY <3>1, <4>1, <4>2, LinkKeysAssumption
    <3> QED BY <3>2, <3>3
  <2>2. known' \in BOOLEAN
    BY <1>0 DEF CallAdd, CallRemove, Draw, TakeOut, CountTypes
  <2>3. crossed' \in BOOLEAN
    BY <1>0 DEF CallAdd, CallRemove, Draw, TakeOut, Update, Begin, CountTypes
  <2> QED BY <2>1, <2>2, <2>3 DEF CountTypes
<1>4. ThreadTypes'
  <2>1. ASSUME NEW e \in Ends, NEW step \in {"adding", "removing"}, Update(w, step, e)
        PROVE  ThreadTypes'
    <3> DEFINE new == [rule |-> NoRule, first |-> e]
    <3>1. new \in Job /\ new.first \in Ends
      BY LinkKeysAssumption DEF Job, NoRule
    <3>2. Begin(w, step, new)
      BY <2>1 DEF Update
    <3> HIDE DEF new
    <3> QED BY <1>0, <3>1, <3>2, BeginTypes DEF Steps
  <2>2. CASE \E e \in Ends : CallAdd(w, e) \/ CallRemove(w, e)
    BY <1>0, <2>1, <2>2 DEF CallAdd, CallRemove, ThreadTypes
  <2>3. CASE TakeOut(w)
    BY <1>0, <2>3, GotoTypes, ReturnTypes DEF TakeOut, Steps
  <2>4. CASE Draw(w) /\ Return(w)
    BY <1>0, <2>4, ReturnTypes
  <2>5. CASE /\ pc[w] = "adding" /\ drawn < MaxRules
             /\ pc' = [pc EXCEPT ![w] = "add1"] /\ job' = [job EXCEPT ![w].rule = drawn + 1]
    <3>1. drawn + 1 \in 1..MaxRules
      BY <1>0, <2>5, LinkKeysAssumption DEF CountTypes
    <3>2. pc' \in [Workers -> Steps] /\ job' \in [Workers -> Job]
      BY <1>0, <2>5, <3>1 DEF ThreadTypes, Steps, Job
    <3>3. job'[w].rule = drawn + 1 /\ job'[w].first = job[w].first
      BY <1>0, <2>5 DEF ThreadTypes, Job
    <3>4. \A v \in Workers \ {w} : pc'[v] = pc[v] /\ job'[v] = job[v]
      BY <1>0, <2>5 DEF ThreadTypes
    <3> QED BY <1>0, <2>5, <3>1, <3>2, <3>3, <3>4 DEF ThreadTypes
  <2> QED BY <2>2, <2>3, <2>4, <2>5 DEF Draw
<1> QED BY <1>1, <1>2, <1>3, <1>4

\* A call brings a rule to an end, or removes one.
LEMMA CallTypes ==
    ASSUME LinkInv, NEW w \in Workers, AddAt(w) \/ RemoveAt(w) \/ RenewAt(w)
    PROVE  EndTypes' /\ ThreadTypes' /\ CountTypes' /\ LostTypes'
<1>0. EndTypes /\ ThreadTypes /\ CountTypes /\ LostTypes
  BY DEF LinkInv
<1>1. /\ pc[w] # "idle" /\ job[w].first \in Ends /\ Target(w) \in Ends
      /\ pc[w] \in {"add1", "add2", "renew1", "renew2"} => job[w].rule \in 1..MaxRules
  BY <1>0, TargetType DEF AddAt, RemoveAt, RenewAt, ThreadTypes
<1>2. CountTypes'
  BY <1>0 DEF AddAt, RemoveAt, RenewAt, CountTypes
<1>3. LostTypes'
  <2>1. UNCHANGED lost \/ \E op \in Calls : Lose(op)
    BY DEF AddAt, RemoveAt, RenewAt, Calls
  <2> QED BY <1>0, <2>1, LoseTypes DEF LostTypes
<1>4. EndTypes'
  <2>1. CASE UNCHANGED endVars
    BY <1>0, <2>1 DEF endVars, EndTypes, Up
  <2>2. CASE /\ AddAt(w)
             /\ \/ Add(Target(w), job[w].rule, job[w].first)
                \/ AddFails(Target(w), job[w].first)
    BY <1>0, <1>1, <2>2, InstallTypes DEF AddAt
  <2>3. CASE Uninstall(Target(w)) \/ RemoveFails(Target(w))
    BY <1>0, <1>1, <2>3, UninstallTypes
  <2>4. CASE /\ RenewAt(w) /\ Up(Target(w))
             /\ \/ Renew(Target(w), job[w].rule, job[w].first)
                \/ RenewHalf(Target(w), job[w].rule)
    BY <1>0, <1>1, <2>4, RenewTypes DEF RenewAt
  <2> QED BY <2>1, <2>2, <2>3, <2>4 DEF AddAt, RemoveAt, RenewAt
<1>5. ThreadTypes'
  <2>1. CASE Return(w)
    BY <1>0, <2>1, ReturnTypes
  <2>2. CASE \E step \in {"remove1", "remove2"} : Goto(w, step)
    BY <1>0, <1>1, <2>2, GotoTypes DEF Steps
  <2>3. CASE /\ pc[w] \in {"add1", "add2", "renew1", "renew2"}
             /\ \E step \in {"add2", "renew2"} : Goto(w, step)
    BY <1>0, <1>1, <2>3, GotoTypes DEF Steps
  <2> QED BY <2>1, <2>2, <2>3 DEF AddAt, AddReturns, RemoveAt, RenewAt, AfterFirst, Rollback
<1> QED BY <1>2, <1>3, <1>4, <1>5

\* A limit is reported.
LEMMA LimitTypes ==
    ASSUME LinkInv, NEW w \in Workers, NEW e \in Ends, SoftTimeLimit(w, e) \/ SoftPacketLimit(w, e)
    PROVE  EndTypes' /\ ThreadTypes' /\ CountTypes' /\ LostTypes'
<1>0. EndTypes /\ ThreadTypes /\ CountTypes /\ LostTypes
  BY DEF LinkInv
<1>1. PICK first \in Ends : Notified(w, first)
  BY <1>0 DEF SoftTimeLimit, SoftPacketLimit, EndTypes
<1>2. EndTypes'
  BY <1>0 DEF SoftTimeLimit, SoftPacketLimit, Notified, EndTypes, Up
<1>3. LostTypes' /\ CountTypes'
  BY <1>0, <1>1, LinkKeysAssumption DEF Notified, Begin, LostTypes, CountTypes
<1>4. ThreadTypes'
  <2> DEFINE new == [rule |-> drawn + 1, first |-> first]
  <2>1. CASE drawn < MaxRules /\ Begin(w, "renew1", new)
    <3>1. drawn + 1 \in 1..MaxRules
      BY <1>0, <2>1, LinkKeysAssumption DEF CountTypes
    <3>2. new \in Job /\ new.first \in Ends /\ new.rule \in 1..MaxRules
      BY <3>1 DEF Job
    <3> HIDE DEF new
    <3> QED BY <1>0, <2>1, <3>2, BeginTypes DEF Steps
  <2>2. CASE UNCHANGED <<pc, job>>
    BY <1>0, <2>2 DEF ThreadTypes
  <2> QED BY <1>1, <2>1, <2>2 DEF Notified
<1> QED BY <1>2, <1>3, <1>4

\* An edge is up or not at first.
LEMMA InitLinkInv == Init => LinkInv
<1> SUFFICES ASSUME Init PROVE LinkInv
  OBVIOUS
<1>1. drawn \in 0..MaxRules /\ (known => drawn \in 1..MaxRules) /\ (~known => drawn = 0)
  BY LinkKeysAssumption DEF Init, NoRule
<1>2. slots \in [Ends -> [Slots -> 0..MaxRules]]
  BY <1>1, KeyTypes DEF Init
<1>3. port \in [Ends -> PortStates]
  BY DEF Init, PortStates
<1>4. EndTypes
  BY <1>1, <1>2, <1>3 DEF Init, EndTypes, Slots, Up, NoRule
<1>5. ThreadTypes
  <2>1. NoJob \in Job
    BY LinkKeysAssumption DEF NoJob, Job, NoRule
  <2> HIDE DEF NoJob
  <2> QED BY <2>1 DEF Init, ThreadTypes, Steps
<1>6. CountTypes /\ LostTypes /\ met \in BOOLEAN
  <2>1. updates \in 0..MaxUpdates /\ lost = <<>> /\ Len(lost) <= MaxLost
    BY LinkKeysAssumption DEF Init
  <2>2. known \in BOOLEAN /\ crossed \in BOOLEAN /\ met \in BOOLEAN
    BY DEF Init
  <2> QED BY <1>1, <2>1, <2>2 DEF CountTypes, LostTypes
<1> QED BY <1>4, <1>5, <1>6 DEF LinkInv

\* Every step keeps the types.
LEMMA NextLinkInv == LinkInv /\ [Next]_vars => LinkInv'
<1> SUFFICES ASSUME LinkInv, [Next]_vars PROVE LinkInv'
  OBVIOUS
<1>1. CASE Next
  <2>1. PICK w \in Workers : Step(w)
    BY <1>1 DEF Next
  <2>2. EndTypes' /\ ThreadTypes' /\ CountTypes' /\ LostTypes'
    BY <2>1, UpdateTypes, CallTypes, LimitTypes DEF Step
  <2>3. met' \in BOOLEAN
    BY <1>1 DEF Next
  <2> QED BY <2>2, <2>3 DEF LinkInv
<1>2. CASE UNCHANGED vars
  BY <1>2 DEF vars, endVars, history, LinkInv, EndTypes, ThreadTypes, CountTypes, LostTypes, Up
<1> QED BY <1>1, <1>2

\* The state of an edge stays in its types, for any number of threads, updates,
\* renewals and lost calls: a renewal always finds a key state at an end that has
\* a rule, and a notification an edge.
THEOREM LinkKeysTypes == Spec => []TypeOK
BY InitLinkInv, NextLinkInv, LinkInvTypes, PTL DEF Spec

-----------------------------------------------------------------------------
(* What steps have in common.                                              *)

\* What a call does to the rules of the ends.
LEMMA UpAfter ==
    ASSUME EndTypes, NEW e \in Ends, NEW rule \in 1..MaxRules, NEW first
    PROVE  /\ Install(e, rule, first) => Up(e)' /\ \A f \in Ends \ {e} : Up(f)' <=> Up(f)
           /\ Uninstall(e) => ~Up(e)' /\ \A f \in Ends \ {e} : Up(f)' <=> Up(f)
           /\ Up(e) /\ Renew(e, rule, first) => \A f \in Ends : Up(f)' <=> Up(f)
           /\ RenewHalf(e, rule) \/ UNCHANGED endVars => \A f \in Ends : Up(f)' <=> Up(f)
BY DEF EndTypes, Install, Uninstall, Forget, Renew, RenewHalf, Up, NoRule, endVars

\* The other threads stay where they are.
OthersWait(w) == \A v \in Workers \ {w} : pc'[v] = pc[v] /\ job'[v] = job[v]

\* A step is one of a single thread.
LEMMA OthersStay ==
    ASSUME ThreadTypes, NEW w \in Workers, Step(w)
    PROVE  OthersWait(w)
<1>1. ASSUME NEW step, Goto(w, step) PROVE OthersWait(w)
  BY <1>1 DEF Goto, ThreadTypes, OthersWait
<1>2. ASSUME NEW step, NEW newJob, Begin(w, step, newJob) PROVE OthersWait(w)
  BY <1>2 DEF Begin, ThreadTypes, OthersWait
<1>3. Return(w) => OthersWait(w)
  BY DEF Return, ThreadTypes, OthersWait
<1>4. UNCHANGED <<pc, job>> => OthersWait(w)
  BY DEF OthersWait
<1>5. CASE AddAt(w) \/ RemoveAt(w) \/ RenewAt(w) \/ TakeOut(w)
  BY <1>1, <1>3, <1>5 DEF AddAt, AddReturns, RemoveAt, RenewAt, TakeOut, AfterFirst, Rollback
<1>6. CASE Draw(w)
  BY <1>3, <1>6 DEF Draw, ThreadTypes, OthersWait
<1>7. CASE \E e \in Ends : \/ CallAdd(w, e) \/ CallRemove(w, e)
                           \/ SoftTimeLimit(w, e) \/ SoftPacketLimit(w, e)
  BY <1>2, <1>4, <1>7 DEF CallAdd, CallRemove, Update, SoftTimeLimit, SoftPacketLimit, Notified
<1> QED BY <1>5, <1>6, <1>7 DEF Step

\* A call is lost, or none; which kinds were lost.
LEMMA LostBefore ==
    ASSUME LostTypes, NEW w \in Workers, Step(w), NEW ops, LostOnly(ops)'
    PROVE  /\ LostOnly(ops)
           /\ \A op \in Calls : Lose(op) => op \in ops
<1>1. ASSUME NEW op \in Calls, Lose(op) PROVE op \in ops /\ LostOnly(ops)
  <2>1. /\ lost' = Append(lost, op)
        /\ Len(lost) \in Nat /\ DOMAIN lost = 1..Len(lost)
    BY <1>1 DEF Lose, LostTypes
  <2>2. /\ DOMAIN lost' = 1..(Len(lost) + 1)
        /\ lost'[Len(lost) + 1] = op
        /\ \A i \in 1..Len(lost) : lost'[i] = lost[i]
    BY <1>1, <2>1 DEF LostTypes
  <2> QED BY <2>1, <2>2 DEF LostOnly
<1>2. UNCHANGED lost \/ \E op \in Calls : Lose(op)
  BY DEF Step, CallAdd, CallRemove, Draw, TakeOut, AddAt, RemoveAt, RenewAt, SoftTimeLimit,
         SoftPacketLimit, Notified, Calls
<1>3. UNCHANGED lost => LostOnly(ops)
  BY DEF LostOnly
<1> QED BY <1>1, <1>2, <1>3

\* As long as nothing fails at a switch, an end has its port open exactly when it
\* remembers a rule, and leaves no entries behind a closed one.
Sound(e) == port[e] = IF Up(e) THEN "open" ELSE "closed"

NoSwitchFailed == LostOnly(Calls \ {"switch"})

SoundInv == NoSwitchFailed => \A e \in Ends : Sound(e)

\* Every step keeps that.
LEMMA NextSound == LinkInv /\ SoundInv /\ [Next]_vars => SoundInv'
<1> SUFFICES ASSUME LinkInv, SoundInv, [Next]_vars, NoSwitchFailed' PROVE \A e \in Ends : Sound(e)'
  BY DEF SoundInv
<1>0. EndTypes /\ ThreadTypes /\ LostTypes
  BY DEF LinkInv
<1>1. CASE UNCHANGED vars
  BY <1>1 DEF vars, endVars, history, SoundInv, Sound, Up, NoSwitchFailed, LostOnly
<1>2. CASE Next
  <2>1. PICK w \in Workers : Step(w)
    BY <1>2 DEF Next
  <2>2. NoSwitchFailed /\ ~Lose("switch")
    <3>1. LostOnly(Calls \ {"switch"})'
      BY DEF NoSwitchFailed
    <3> QED BY <1>0, <2>1, <3>1, LostBefore DEF NoSwitchFailed, Calls
  <2>3. \A e \in Ends : Sound(e)
    BY <2>2 DEF SoundInv
  <2>4. UNCHANGED <<port, current>> => \A e \in Ends : Sound(e)'
    BY <2>3 DEF Sound, Up
  <2>5. CASE AddAt(w) \/ RemoveAt(w) \/ RenewAt(w)
    <3>1. PICK e \in Ends : e = Target(w)
      BY <1>0, <2>5, TargetType DEF AddAt, RemoveAt, RenewAt
    <3>2. ~Stuck(e) /\ (Up(e) => port[e] = "open")
      BY <2>3 DEF Sound, Stuck
    <3>3. \A first : \A rule \in 1..MaxRules : Install(e, rule, first) => \A f \in Ends : Sound(f)'
      BY <1>0, <2>3 DEF EndTypes, Install, Sound, Up, NoRule
    <3>4. Uninstall(e) => \A f \in Ends : Sound(f)'
      BY <1>0, <2>3 DEF EndTypes, Uninstall, Close, Forget, Sound, Up, NoRule
    <3>5. \A first : \A rule \in 1..MaxRules : Up(e) /\ Renew(e, rule, first) => \A f \in Ends : Sound(f)'
      BY <1>0, <2>3 DEF EndTypes, Renew, Sound, Up, NoRule
    <3>6. \A rule : RenewHalf(e, rule) \/ UNCHANGED endVars => UNCHANGED <<port, current>>
      BY DEF RenewHalf, endVars
    <3>7. CASE AddAt(w)
      <4>1. job[w].rule \in 1..MaxRules
        BY <1>0, <3>7 DEF AddAt, ThreadTypes
      <4>2. Install(e, job[w].rule, job[w].first) \/ UNCHANGED endVars
        BY <2>2, <3>1, <3>2, <3>7 DEF AddAt, Add
      <4> QED BY <2>4, <3>3, <3>6, <4>1, <4>2
    <3>8. CASE RemoveAt(w)
      <4>1. Uninstall(e) \/ UNCHANGED endVars
        BY <2>2, <3>1, <3>8 DEF RemoveAt
      <4> QED BY <2>4, <3>4, <3>6, <4>1
    <3>9. CASE RenewAt(w)
      <4>1. job[w].rule \in 1..MaxRules
        BY <1>0, <3>9 DEF RenewAt, ThreadTypes
      <4>2. \/ Up(e) /\ Renew(e, job[w].rule, job[w].first)
            \/ RenewHalf(e, job[w].rule) \/ UNCHANGED endVars
        BY <3>1, <3>9 DEF RenewAt
      <4> QED BY <2>4, <3>5, <3>6, <4>1, <4>2
    <3> QED BY <2>5, <3>7, <3>8, <3>9
  <2>6. CASE \/ Draw(w) \/ TakeOut(w)
             \/ \E e \in Ends : \/ CallAdd(w, e) \/ CallRemove(w, e)
                                \/ SoftTimeLimit(w, e) \/ SoftPacketLimit(w, e)
    <3>1. UNCHANGED <<port, current>>
      BY <2>6 DEF Draw, TakeOut, CallAdd, CallRemove, SoftTimeLimit, SoftPacketLimit, Notified, endVars
    <3> QED BY <2>4, <3>1
  <2> QED BY <2>1, <2>5, <2>6 DEF Step
<1> QED BY <1>1, <1>2

\* It holds at first.
LEMMA InitSound == Init => SoundInv
<1> SUFFICES ASSUME Init, NEW e \in Ends PROVE Sound(e)
  BY DEF SoundInv
<1>1. Up(e) <=> known
  BY DEF Init, Up, NoRule
<1>2. port[e] = IF known THEN "open" ELSE "closed"
  BY DEF Init
<1> QED BY <1>1, <1>2 DEF Sound

\* What the calls to an end do as long as nothing fails at its switch.
LEMMA SoundCalls ==
    ASSUME LinkInv, SoundInv, NoSwitchFailed, ~Lose("switch"), NEW w \in Workers
    PROVE  /\ AddAt(w) =>
                /\ pc[w] \in {"add1", "add2"}
                /\ \/ Install(Target(w), job[w].rule, job[w].first) /\ AddReturns(w) /\ UNCHANGED lost
                   \/ /\ Lose("add") /\ Rollback(w)
                      /\ UNCHANGED endVars \/ Install(Target(w), job[w].rule, job[w].first)
           /\ RemoveAt(w) =>
                /\ pc[w] \in {"remove1", "remove2"}
                /\ IF pc[w] = "remove1" THEN Goto(w, "remove2") ELSE Return(w)
                /\ \/ Uninstall(Target(w)) /\ UNCHANGED lost
                   \/ ~Up(Target(w)) /\ UNCHANGED <<endVars, lost>>
                   \/ Lose("remove") /\ UNCHANGED endVars
           /\ RenewAt(w) =>
                /\ pc[w] \in {"renew1", "renew2"}
                /\ \/ /\ Up(Target(w)) /\ port[Target(w)] = "open"
                      /\ Renew(Target(w), job[w].rule, job[w].first)
                      /\ IF pc[w] = "renew1" THEN AfterFirst(w, "renew2") ELSE Return(w)
                      /\ UNCHANGED lost
                   \/ ~Up(Target(w)) /\ Return(w) /\ UNCHANGED <<endVars, lost>>
                   \/ /\ Lose("renew") /\ Up(Target(w)) /\ Return(w)
                      /\ \/ UNCHANGED endVars \/ RenewHalf(Target(w), job[w].rule)
                         \/ Renew(Target(w), job[w].rule, job[w].first)
<1>0. EndTypes /\ ThreadTypes
  BY DEF LinkInv
<1>1. pc[w] # "idle" => Sound(Target(w)) /\ Target(w) \in Ends
  BY <1>0, TargetType DEF SoundInv
<1>2. pc[w] # "idle" => /\ ~Stuck(Target(w))
                        /\ Up(Target(w)) <=> port[Target(w)] = "open"
  BY <1>1 DEF Sound, Stuck
<1>3. AddAt(w) => /\ pc[w] \in {"add1", "add2"}
                  /\ \/ Install(Target(w), job[w].rule, job[w].first) /\ AddReturns(w) /\ UNCHANGED lost
                     \/ /\ Lose("add") /\ Rollback(w)
                        /\ UNCHANGED endVars \/ Install(Target(w), job[w].rule, job[w].first)
  BY <1>2 DEF AddAt, Add
<1>4. RemoveAt(w) => /\ pc[w] \in {"remove1", "remove2"}
                     /\ IF pc[w] = "remove1" THEN Goto(w, "remove2") ELSE Return(w)
                     /\ \/ Uninstall(Target(w)) /\ UNCHANGED lost
                        \/ ~Up(Target(w)) /\ UNCHANGED <<endVars, lost>>
                        \/ Lose("remove") /\ UNCHANGED endVars
  BY <1>2 DEF RemoveAt
<1> QED BY <1>2, <1>3, <1>4 DEF RenewAt

-----------------------------------------------------------------------------
(* Rules at both ends or at none.                                          *)

\* A thread that has been at the first end of its edge.
Second(w) == pc[w] \in {"add2", "remove2", "renew2"}

\* One thread at most has been at its first end.  An add leaves a rule there; a
\* removal leaves none, unless an add that failed in the meantime is yet to be
\* undone; and the ends differ only as long as such a thread has not been at both.
Together ==
    /\ \A v, w \in Workers : Second(v) /\ Second(w) => v = w
    /\ \A w \in Workers : pc[w] = "add2" => Up(job[w].first)
    /\ \A w \in Workers :
         pc[w] = "remove2" => ~Up(job[w].first) \/ \E v \in Workers : pc[v] = "remove1"
    /\ \/ \A e, f \in Ends : Up(e) <=> Up(f)
       \/ \E w \in Workers : pc[w] \in {"add2", "remove1", "remove2"}

NoRemoveLost == LostOnly({"topology", "add", "renew"})

TogetherInv ==
    /\ Meeting => met
    /\ ~met /\ NoRemoveLost => Together

\* A thread that goes on to its second end, where it meets nobody, is alone.
LEMMA AloneAtSecond ==
    ASSUME ThreadTypes, ThreadTypes', ~Meeting, ~Meeting', NEW w \in Workers, OthersWait(w),
           Calling(w), Calling(w)', Target(w)' = Other(Target(w))
    PROVE  \A v \in Workers \ {w} : ~Calling(v)
<1> SUFFICES ASSUME NEW v \in Workers \ {w}, Calling(v) PROVE FALSE
  OBVIOUS
<1>1. Target(v) \in Ends /\ Target(w) \in Ends
  BY TargetType DEF Calling
<1>2. Target(v) # Target(w)
  BY DEF Meeting
<1>3. Target(v) = Other(Target(w))
  BY <1>1, <1>2, TwoEnds
<1>4. Calling(v)' /\ Target(v)' = Target(v)
  BY DEF OthersWait, Calling, Target
<1> QED BY <1>3, <1>4 DEF Meeting

\* A thread that begins, or returns without having brought a rule.
LEMMA SameTogether ==
    ASSUME Together, NEW w \in Workers, OthersWait(w),
           pc[w] \notin {"add2", "remove1", "remove2"}, ~Second(w)',
           \A e \in Ends : Up(e)' <=> Up(e),
           ThreadTypes
    PROVE  Together'
<1>1. \A v \in Workers \ {w} : /\ pc'[v] = pc[v] /\ job'[v] = job[v] /\ (Second(v)' <=> Second(v))
                               /\ (pc[v] \in {"add2", "remove2"} => job[v].first \in Ends)
  BY DEF OthersWait, Second, ThreadTypes
<1>2. \A u, v \in Workers : Second(u)' /\ Second(v)' => u = v
  BY <1>1 DEF Together
<1>3. ASSUME NEW v \in Workers, pc'[v] = "add2" PROVE Up(job[v].first)' /\ job'[v] = job[v]
  BY <1>1, <1>3 DEF Together, Second
<1>4. ASSUME NEW v \in Workers, pc'[v] = "remove2"
      PROVE  ~Up(job[v].first)' \/ \E u \in Workers : pc'[u] = "remove1"
  BY <1>1, <1>4 DEF Together, Second
<1>5. \/ \A e, f \in Ends : Up(e)' <=> Up(f)'
      \/ \E v \in Workers : pc'[v] \in {"add2", "remove1", "remove2"}
  BY <1>1 DEF Together
<1> QED BY <1>2, <1>3, <1>4, <1>5 DEF Together

\* A call goes on to the second end, and nothing is lost.
LEMMA OnTogether ==
    ASSUME LinkInv, LinkInv', ~Meeting, ~Meeting', Together, NEW w \in Workers, OthersWait(w),
           \/ /\ pc[w] = "add1" /\ Install(Target(w), job[w].rule, job[w].first)
              /\ Goto(w, "add2")
           \/ /\ pc[w] = "remove1" /\ Goto(w, "remove2")
              /\ Uninstall(Target(w)) \/ (~Up(Target(w)) /\ UNCHANGED endVars)
           \/ /\ pc[w] = "renew1" /\ Up(Target(w))
              /\ Renew(Target(w), job[w].rule, job[w].first) /\ Goto(w, "renew2")
    PROVE  Together'
<1>0. EndTypes /\ ThreadTypes /\ ThreadTypes'
  BY DEF LinkInv
<1>1. Calling(w) /\ Calling(w)' /\ Target(w)' = Other(Target(w)) /\ job' = job
  BY <1>0 DEF Goto, ThreadTypes, Calling, Target
<1>2. \A v \in Workers \ {w} : ~Calling(v)
  BY <1>0, <1>1, AloneAtSecond
<1>3. \A v \in Workers \ {w} : /\ ~Second(v)' /\ pc'[v] \notin {"add2", "remove1", "remove2"}
                               /\ ~Second(v) /\ pc[v] \notin {"add2", "remove1", "remove2"}
  BY <1>2 DEF OthersWait, Second, Calling
<1>4. \A u, v \in Workers : Second(u)' /\ Second(v)' => u = v
  BY <1>3
<1>5. Target(w) = job[w].first /\ Target(w) \in Ends
  BY <1>0, <1>1, TargetType DEF Target, Calling
<1>6. CASE pc[w] = "add1" /\ Install(Target(w), job[w].rule, job[w].first) /\ Goto(w, "add2")
  <2>1. Up(job[w].first)' /\ pc'[w] = "add2"
    BY <1>0, <1>1, <1>5, <1>6, UpAfter DEF ThreadTypes, Goto
  <2> QED BY <1>3, <1>4, <2>1 DEF Together
<1>7. CASE /\ pc[w] = "remove1" /\ Goto(w, "remove2")
           /\ Uninstall(Target(w)) \/ (~Up(Target(w)) /\ UNCHANGED endVars)
  <2>1. ~Up(job[w].first)' /\ pc'[w] = "remove2"
    BY <1>0, <1>1, <1>5, <1>7 DEF ThreadTypes, Goto, Uninstall, Forget, Up, EndTypes, endVars
  <2> QED BY <1>3, <1>4, <2>1 DEF Together
<1>8. CASE /\ pc[w] = "renew1" /\ Up(Target(w))
           /\ Renew(Target(w), job[w].rule, job[w].first) /\ Goto(w, "renew2")
  <2>1. (\A e \in Ends : Up(e)' <=> Up(e)) /\ pc'[w] = "renew2"
    BY <1>0, <1>5, <1>8, UpAfter DEF ThreadTypes, Goto
  <2>2. \A e, f \in Ends : Up(e) <=> Up(f)
    BY <1>3, <1>8 DEF Together
  <2> QED BY <1>3, <1>4, <2>1, <2>2 DEF Together
<1> QED BY <1>6, <1>7, <1>8

\* A call has been at both ends.
LEMMA DoneTogether ==
    ASSUME LinkInv, Together, NEW w \in Workers, OthersWait(w), Return(w),
           \/ pc[w] = "add2" /\ Install(Target(w), job[w].rule, job[w].first)
           \/ /\ pc[w] = "remove2"
              /\ Uninstall(Target(w)) \/ (~Up(Target(w)) /\ UNCHANGED endVars)
    PROVE  Together'
<1>0. EndTypes /\ ThreadTypes
  BY DEF LinkInv
<1>1. /\ \A v \in Workers \ {w} : ~Second(v) /\ ~Second(v)' /\ pc'[v] = pc[v]
      /\ pc'[w] = "idle"
  BY <1>0 DEF Together, Second, OthersWait, Return, ThreadTypes
<1>2. job[w].first \in Ends /\ Target(w) = Other(job[w].first)
  BY <1>0 DEF ThreadTypes, Target
<1>3. Target(w) \in Ends /\ \A e \in Ends : e = Target(w) \/ e = job[w].first
  BY <1>2, TwoEnds
<1>4. Target(w) # job[w].first
  BY <1>2, TwoEnds
<1>5. CASE pc[w] = "add2" /\ Install(Target(w), job[w].rule, job[w].first)
  <2>1. Up(job[w].first)
    BY <1>5 DEF Together
  <2>2. \A e \in Ends : Up(e)'
    <3>1. job[w].rule \in 1..MaxRules
      BY <1>0, <1>5 DEF ThreadTypes
    <3> QED BY <1>0, <1>2, <1>3, <1>4, <1>5, <2>1, <3>1, UpAfter
  <2> QED BY <1>1, <2>2 DEF Together, Second
<1>6. CASE /\ pc[w] = "remove2"
           /\ Uninstall(Target(w)) \/ (~Up(Target(w)) /\ UNCHANGED endVars)
  <2>0. PICK f \in Ends, o \in Ends : f = job[w].first /\ o = Target(w)
    BY <1>2, <1>3
  <2>1. ~Up(o)' /\ (Up(f)' <=> Up(f))
    BY <1>0, <1>4, <1>6, <2>0 DEF EndTypes, Uninstall, Forget, Up, endVars
  <2>2. ~Up(job[w].first) \/ \E v \in Workers : pc[v] = "remove1"
    BY <1>6 DEF Together
  <2>3. \/ \A d, e \in Ends : Up(d)' <=> Up(e)'
        \/ \E v \in Workers : pc'[v] = "remove1"
    <3>1. CASE ~Up(f)
      BY <1>3, <2>0, <2>1, <3>1
    <3>2. CASE \E v \in Workers : pc[v] = "remove1"
      BY <1>1, <1>6, <3>2
    <3> QED BY <2>0, <2>2, <3>1, <3>2
  <2> QED BY <1>1, <2>3 DEF Together, Second
<1> QED BY <1>5, <1>6

\* An add fails, arrived or not, and is going to be undone.
LEMMA UndoTogether ==
    ASSUME LinkInv, Together, NEW w \in Workers, OthersWait(w), pc[w] \in {"add1", "add2"},
           Goto(w, "remove1"),
           UNCHANGED endVars \/ Install(Target(w), job[w].rule, job[w].first)
    PROVE  Together'
<1>0. EndTypes /\ ThreadTypes
  BY DEF LinkInv
<1>1. pc'[w] = "remove1" /\ job' = job
  BY <1>0 DEF Goto, ThreadTypes
<1>2. \A e \in Ends : Up(e) => Up(e)'
  <2>1. Target(w) \in Ends /\ job[w].rule \in 1..MaxRules
    BY <1>0, TargetType DEF ThreadTypes
  <2> QED BY <1>0, <2>1, UpAfter
<1>3. \A u, v \in Workers : Second(u)' /\ Second(v)' => u = v
  BY <1>1 DEF Together, Second, OthersWait
<1>4. ASSUME NEW v \in Workers, pc'[v] = "add2" PROVE Up(job[v].first)'
  <2>1. pc[v] = "add2"
    BY <1>1, <1>4 DEF OthersWait
  <2>2. Up(job[v].first) /\ job[v].first \in Ends
    BY <1>0, <2>1 DEF Together, ThreadTypes
  <2> QED BY <1>1, <1>2, <2>2
<1> QED BY <1>1, <1>3, <1>4 DEF Together

\* Every step keeps it.
LEMMA NextTogether ==
    LinkInv /\ LinkInv' /\ SoundInv /\ TogetherInv /\ [Next]_vars => TogetherInv'
<1> SUFFICES ASSUME LinkInv, LinkInv', SoundInv, TogetherInv, [Next]_vars PROVE TogetherInv'
  OBVIOUS
<1>0. EndTypes /\ ThreadTypes /\ LostTypes
  BY DEF LinkInv
<1>1. CASE Next
  <2>1. Meeting' => met'
    BY <1>1 DEF Next
  <2>2. ASSUME ~met', NoRemoveLost' PROVE Together'
    <3>1. ~met /\ ~Meeting /\ ~Meeting'
      BY <1>1, <2>2 DEF Next, TogetherInv
    <3>2. PICK w \in Workers : Step(w)
      BY <1>1 DEF Next
    <3>3. OthersWait(w)
      BY <1>0, <3>2, OthersStay
    <3>4. NoRemoveLost /\ ~Lose("remove") /\ ~Lose("switch")
      <4>1. LostOnly({"topology", "add", "renew"})'
        BY <2>2 DEF NoRemoveLost
      <4> QED BY <1>0, <3>2, <4>1, LostBefore DEF NoRemoveLost, Calls
    <3>5. Together /\ NoSwitchFailed
      BY <3>1, <3>4 DEF TogetherInv, NoRemoveLost, NoSwitchFailed, LostOnly, Calls
    <3>6. CASE AddAt(w)
      <4>0. /\ pc[w] \in {"add1", "add2"}
            /\ \/ Install(Target(w), job[w].rule, job[w].first) /\ AddReturns(w) /\ UNCHANGED lost
               \/ /\ Lose("add") /\ Rollback(w)
                  /\ UNCHANGED endVars \/ Install(Target(w), job[w].rule, job[w].first)
        BY <3>4, <3>5, <3>6, SoundCalls
      <4>1. CASE pc[w] = "add1" /\ Install(Target(w), job[w].rule, job[w].first) /\ Goto(w, "add2")
        BY <3>1, <3>3, <3>5, <4>1, OnTogether
      <4>2. CASE pc[w] = "add2" /\ Install(Target(w), job[w].rule, job[w].first) /\ Return(w)
        BY <3>3, <3>5, <4>2, DoneTogether
      <4>3. CASE /\ pc[w] \in {"add1", "add2"} /\ Goto(w, "remove1")
                 /\ UNCHANGED endVars \/ Install(Target(w), job[w].rule, job[w].first)
        BY <3>3, <3>5, <4>3, UndoTogether
      <4> QED BY <4>0, <4>1, <4>2, <4>3 DEF AddReturns, AfterFirst, Rollback
    <3>7. CASE RemoveAt(w)
      <4>0. /\ pc[w] \in {"remove1", "remove2"}
            /\ IF pc[w] = "remove1" THEN Goto(w, "remove2") ELSE Return(w)
            /\ Uninstall(Target(w)) \/ (~Up(Target(w)) /\ UNCHANGED endVars)
        BY <3>4, <3>5, <3>7, SoundCalls
      <4>1. CASE pc[w] = "remove1" /\ Goto(w, "remove2")
        BY <3>1, <3>3, <3>5, <4>0, <4>1, OnTogether
      <4>2. CASE pc[w] = "remove2" /\ Return(w)
        BY <3>3, <3>5, <4>0, <4>2, DoneTogether
      <4> QED BY <4>0, <4>1, <4>2
    <3>8. CASE RenewAt(w)
      <4>1. /\ Target(w) \in Ends
            /\ job[w].rule \in 1..MaxRules
        BY <1>0, <3>8, TargetType DEF RenewAt, ThreadTypes
      <4>2. CASE /\ pc[w] = "renew1" /\ Up(Target(w))
                 /\ Renew(Target(w), job[w].rule, job[w].first) /\ Goto(w, "renew2")
        BY <3>1, <3>3, <3>5, <4>2, OnTogether
      <4>3. CASE /\ Return(w)
                 /\ \/ UNCHANGED endVars \/ RenewHalf(Target(w), job[w].rule)
                    \/ Up(Target(w)) /\ Renew(Target(w), job[w].rule, job[w].first)
        <5>1. \A e \in Ends : Up(e)' <=> Up(e)
          BY <1>0, <4>1, <4>3, UpAfter
        <5>2. pc[w] \notin {"add2", "remove1", "remove2"} /\ ~Second(w)'
          BY <1>0, <3>8, <4>3 DEF RenewAt, Return, Second, ThreadTypes
        <5> QED BY <1>0, <3>3, <3>5, <5>1, <5>2, SameTogether
      <4> QED BY <3>8, <4>2, <4>3 DEF RenewAt, AfterFirst
    <3>9. CASE \/ Draw(w) \/ TakeOut(w)
               \/ \E e \in Ends : \/ CallAdd(w, e) \/ CallRemove(w, e)
                                  \/ SoftTimeLimit(w, e) \/ SoftPacketLimit(w, e)
      <4>1. \A e \in Ends : Up(e)' <=> Up(e)
        BY <3>9 DEF Draw, TakeOut, CallAdd, CallRemove, SoftTimeLimit, SoftPacketLimit, Notified,
                    endVars, Up
      <4>2. pc[w] \in {"idle", "adding", "removing"} /\ ~Second(w)'
        <5>1. CASE Draw(w) \/ TakeOut(w)
          BY <1>0, <5>1 DEF Draw, TakeOut, Goto, Return, Second, ThreadTypes
        <5>2. CASE \E e \in Ends : CallAdd(w, e) \/ CallRemove(w, e)
          BY <1>0, <5>2 DEF CallAdd, CallRemove, Update, Begin, Second, ThreadTypes
        <5>3. CASE \E e \in Ends : SoftTimeLimit(w, e) \/ SoftPacketLimit(w, e)
          BY <1>0, <5>3 DEF SoftTimeLimit, SoftPacketLimit, Notified, Begin, Second, ThreadTypes
        <5> QED BY <3>9, <5>1, <5>2, <5>3
      <4> QED BY <1>0, <3>3, <3>5, <4>1, <4>2, SameTogether
    <3> QED BY <3>2, <3>6, <3>7, <3>8, <3>9 DEF Step
  <2> QED BY <2>1, <2>2 DEF TogetherInv
<1>2. CASE UNCHANGED vars
  BY <1>2 DEF vars, endVars, history, TogetherInv, Together, Second, Up, NoRemoveLost, LostOnly,
              Meeting, Calling, Target
<1> QED BY <1>1, <1>2

\* An edge ends up with rules at both ends or at none: through any number of
\* updates and renewals that cross each other without meeting at an end, through
\* calls of adds that are lost at either end, before or after they got there, and
\* undone, and through renewals that are lost or fail at a switch; as long as no add
\* or remove fails at a switch, which the end would not report.
THEOREM EndsTogether == Spec => []InstalledTogether
<1>1. Init => TogetherInv
  BY DEF Init, TogetherInv, Together, Second, Up, Meeting, Calling
<1>2. LinkInv /\ TogetherInv => InstalledTogether
  <2> SUFFICES ASSUME LinkInv, TogetherInv, Quiet, ~met, NoRemoveLost
               PROVE  \A e, f \in Ends : Up(e) = Up(f)
    BY DEF InstalledTogether, NoRemoveLost
  <2>1. \A e, f \in Ends : Up(e) <=> Up(f)
    BY DEF TogetherInv, Together, Quiet
  <2> QED BY <2>1 DEF Up
<1> QED BY <1>1, <1>2, InitLinkInv, NextLinkInv, InitSound, NextSound, NextTogether, PTL DEF Spec

-----------------------------------------------------------------------------
(* Renewals that cross.                                                    *)

\* The renewals that have been at one end and not yet at the other.
Half == {w \in Workers : pc[w] = "renew2"}

SameState == \A e, f \in Ends : keyState[e] = keyState[f]

\* Every renewal toggles both key states once, so that the ends are in step when an
\* even number of renewals is half done.
Phase ==
    /\ \A w \in Workers : pc[w] \in {"idle", "renew1", "renew2"}
    /\ IsFiniteSet(Half)
    /\ BothUp => (SameState <=> Cardinality(Half) % 2 = 0)

PhaseInv == updates = 0 /\ lost = <<>> => Phase

\* One key state is toggled.
LEMMA ToggleOne ==
    ASSUME EndTypes, BothUp, NEW e \in Ends, keyState' = [keyState EXCEPT ![e] = NextState(e)]
    PROVE  SameState' <=> ~SameState
<1>1. keyState[e] \in Slots /\ keyState[Other(e)] \in Slots
  BY TwoEnds DEF EndTypes, BothUp
<1>2. keyState'[e] = Toggle(keyState[e]) /\ keyState'[Other(e)] = keyState[Other(e)]
  BY TwoEnds DEF EndTypes, NextState, RenewedSlot
<1>3. SameState <=> keyState[e] = keyState[Other(e)]
  BY TwoEnds DEF SameState
<1>4. SameState' <=> keyState'[e] = keyState'[Other(e)]
  BY TwoEnds DEF SameState
<1>5. Toggle(keyState[e]) \in Slots /\ Toggle(keyState[e]) # keyState[e]
  BY <1>1 DEF Toggle, Slots
<1>6. keyState'[e] = keyState'[Other(e)] <=> keyState[e] # keyState[Other(e)]
  BY <1>1, <1>2, <1>5 DEF Slots
<1> QED BY <1>3, <1>4, <1>6

\* One renewal more or less is half done.
LEMMA HalfMore ==
    ASSUME IsFiniteSet(Half), NEW w \in Workers,
           \/ w \notin Half /\ Half' = Half \union {w}
           \/ w \in Half /\ Half' = Half \ {w}
    PROVE  IsFiniteSet(Half') /\ (Cardinality(Half') % 2 = 0 <=> Cardinality(Half) % 2 # 0)
<1>1. CASE w \notin Half /\ Half' = Half \union {w}
  <2>1. IsFiniteSet(Half') /\ Cardinality(Half') = Cardinality(Half) + 1
    BY <1>1, FS_AddElement
  <2>2. Cardinality(Half) \in Nat
    BY FS_CardinalityType
  <2> HIDE DEF Half
  <2>3. \A n \in Nat : (n + 1) % 2 = 0 <=> n % 2 # 0
    OBVIOUS
  <2> QED BY <2>1, <2>2, <2>3
<1>2. CASE w \in Half /\ Half' = Half \ {w}
  <2>1. IsFiniteSet(Half') /\ Cardinality(Half') = Cardinality(Half) - 1
    BY <1>2, FS_RemoveElement
  <2>2. Cardinality(Half) \in Nat /\ Cardinality(Half') \in Nat
    BY <2>1, FS_CardinalityType
  <2> HIDE DEF Half
  <2>3. \A n \in Nat : n - 1 \in Nat => ((n - 1) % 2 = 0 <=> n % 2 # 0)
    OBVIOUS
  <2> QED BY <2>1, <2>2, <2>3
<1> QED BY <1>1, <1>2

\* A renewal is brought to an end.
LEMMA RenewPhase ==
    ASSUME LinkInv, SoundInv, NoSwitchFailed, Phase, NEW w \in Workers, OthersWait(w), RenewAt(w),
           UNCHANGED lost
    PROVE  Phase'
<1>0. EndTypes /\ ThreadTypes /\ LostTypes /\ Target(w) \in Ends /\ job[w].rule \in 1..MaxRules
  BY TargetType DEF LinkInv, RenewAt, ThreadTypes
<1>1. ~\E op \in Calls : Lose(op)
  BY <1>0, LoseTypes DEF Lose, LostTypes
<1>2. CASE ~Up(Target(w)) /\ Return(w) /\ UNCHANGED endVars
  <2>1. ~BothUp'
    BY <1>0, <1>2 DEF BothUp, Up, endVars
  <2>2. Half' \subseteq Half /\ \A v \in Workers : pc'[v] \in {"idle", "renew1", "renew2"}
    BY <1>0, <1>2 DEF Half, Return, ThreadTypes, Phase
  <2>3. IsFiniteSet(Half')
    BY <2>2, FS_Subset DEF Phase
  <2> QED BY <2>1, <2>2, <2>3 DEF Phase
<1>3. CASE /\ Up(Target(w)) /\ Renew(Target(w), job[w].rule, job[w].first)
           /\ \/ pc[w] = "renew1" /\ Goto(w, "renew2")
              \/ pc[w] = "renew2" /\ Return(w)
  <2>1. BothUp' => BothUp
    <3>1. \A f \in Ends : Up(f)' <=> Up(f)
      BY <1>0, <1>3, UpAfter
    <3> QED BY <3>1 DEF BothUp
  <2>2. \/ w \notin Half /\ Half' = Half \union {w}
        \/ w \in Half /\ Half' = Half \ {w}
    <3>1. CASE pc[w] = "renew1" /\ Goto(w, "renew2")
      BY <1>0, <3>1 DEF Goto, Half, ThreadTypes
    <3>2. CASE pc[w] = "renew2" /\ Return(w)
      BY <1>0, <3>2 DEF Return, Half, ThreadTypes
    <3> QED BY <1>3, <3>1, <3>2
  <2>3. IsFiniteSet(Half') /\ (Cardinality(Half') % 2 = 0 <=> Cardinality(Half) % 2 # 0)
    BY <2>2, HalfMore DEF Phase
  <2>4. ASSUME BothUp' PROVE SameState' <=> ~SameState
    BY <1>0, <1>3, <2>1, <2>4, ToggleOne DEF Renew
  <2>5. \A v \in Workers : pc'[v] \in {"idle", "renew1", "renew2"}
    BY <1>0, <1>3 DEF Goto, Return, ThreadTypes, Phase
  <2>6. BothUp' => (SameState' <=> Cardinality(Half') % 2 = 0)
    BY <2>1, <2>3, <2>4 DEF Phase
  <2> QED BY <2>3, <2>5, <2>6 DEF Phase
<1> QED BY <1>1, <1>2, <1>3, SoundCalls DEF AfterFirst, Calls

\* Every step keeps it.
LEMMA NextPhase == LinkInv /\ LinkInv' /\ SoundInv /\ PhaseInv /\ [Next]_vars => PhaseInv'
<1> SUFFICES ASSUME LinkInv, LinkInv', SoundInv, PhaseInv, [Next]_vars, updates' = 0, lost' = <<>>
             PROVE  Phase'
  BY DEF PhaseInv
<1>0. EndTypes /\ ThreadTypes /\ LostTypes
  BY DEF LinkInv
<1>1. UNCHANGED <<keyState, current, pc>> /\ Phase => Phase'
  BY DEF Phase, Half, SameState, BothUp, Up
<1>2. CASE Next
  <2>1. PICK w \in Workers : Step(w)
    BY <1>2 DEF Next
  <2>2. OthersWait(w)
    BY <1>0, <2>1, OthersStay
  <2>3. lost = <<>> /\ UNCHANGED lost
    <3>1. UNCHANGED lost \/ \E op \in Calls : Lose(op)
      BY <2>1 DEF Step, CallAdd, CallRemove, Draw, TakeOut, AddAt, RemoveAt, RenewAt,
                  SoftTimeLimit, SoftPacketLimit, Notified, Calls
    <3> QED BY <1>0, <3>1, LoseTypes
  <2>4. /\ updates = 0
        /\ ~\E e \in Ends : CallAdd(w, e) \/ CallRemove(w, e)
    <3>1. updates \in Nat
      BY LinkKeysAssumption DEF LinkInv, CountTypes
    <3>2. ~\E e \in Ends : CallAdd(w, e) \/ CallRemove(w, e)
      <4>1. updates' # updates + 1
        BY <3>1
      <4> QED BY <4>1 DEF CallAdd, CallRemove
    <3>3. UNCHANGED updates
      BY <2>1, <3>2 DEF Step, Draw, TakeOut, AddAt, RemoveAt, RenewAt, SoftTimeLimit,
                        SoftPacketLimit, Notified
    <3> QED BY <3>2, <3>3
  <2>5. Phase
    BY <2>3, <2>4 DEF PhaseInv
  <2>6. CASE RenewAt(w)
    <3>1. NoSwitchFailed
      BY <2>3 DEF NoSwitchFailed, LostOnly
    <3> QED BY <2>2, <2>3, <2>5, <2>6, <3>1, RenewPhase
  <2>7. CASE \E e \in Ends : SoftTimeLimit(w, e) \/ SoftPacketLimit(w, e)
    <3>1. UNCHANGED <<keyState, current>>
      BY <2>7 DEF SoftTimeLimit, SoftPacketLimit, Notified
    <3>2. \/ UNCHANGED pc
          \/ pc[w] = "idle" /\ pc' = [pc EXCEPT ![w] = "renew1"]
      <4>1. PICK first : Notified(w, first)
        BY <2>7 DEF SoftTimeLimit, SoftPacketLimit
      <4> QED BY <4>1 DEF Notified, Begin
    <3>3. Half' = Half /\ \A v \in Workers : pc'[v] \in {"idle", "renew1", "renew2"}
      BY <1>0, <2>5, <3>2 DEF Half, Phase, ThreadTypes
    <3>4. IsFiniteSet(Half') /\ Cardinality(Half') = Cardinality(Half)
      BY <2>5, <3>3 DEF Phase
    <3>5. (BothUp' <=> BothUp) /\ (SameState' <=> SameState)
      BY <3>1 DEF BothUp, Up, SameState
    <3> QED BY <2>5, <3>3, <3>4, <3>5 DEF Phase
  <2>8. ~Draw(w) /\ ~TakeOut(w) /\ ~AddAt(w) /\ ~RemoveAt(w)
    BY <2>5 DEF Phase, Draw, TakeOut, AddAt, RemoveAt
  <2> QED BY <2>1, <2>4, <2>6, <2>7, <2>8 DEF Step
<1>3. CASE UNCHANGED vars
  BY <1>1, <1>3 DEF vars, endVars, history, PhaseInv
<1> QED BY <1>2, <1>3

\* However many renewals cross, by whichever threads, the ends are in step again
\* when none is under way: the next one that runs alone puts its key in the same
\* slot at both.
THEOREM RenewalsKeepPhase == Spec => []SamePhase
<1>1. Init => PhaseInv
  <2> SUFFICES ASSUME Init PROVE Phase
    BY DEF PhaseInv
  <2>1. Half = {}
    BY DEF Init, Half
  <2>2. IsFiniteSet(Half) /\ Cardinality(Half) = 0
    BY <2>1, FS_EmptySet
  <2>3. SameState /\ \A w \in Workers : pc[w] = "idle"
    BY DEF Init, SameState
  <2> QED BY <2>2, <2>3 DEF Phase
<1>2. PhaseInv => SamePhase
  <2> SUFFICES ASSUME Phase, Quiet, BothUp PROVE SameState
    BY DEF PhaseInv, SamePhase, SameState
  <2>1. Half = {}
    BY DEF Quiet, Half
  <2>2. Cardinality(Half) = 0
    BY <2>1, FS_EmptySet
  <2> QED BY <2>2 DEF Phase
<1> QED BY <1>1, <1>2, InitLinkInv, NextLinkInv, InitSound, NextSound, NextPhase, PTL DEF Spec

-----------------------------------------------------------------------------
(* Calls one after the other.                                              *)

InStep ==
    BothUp => \A e, f \in Ends : /\ slots[e] = slots[f] /\ current[e] = current[f]
                                 /\ keyState[e] = keyState[f]

\* An end sends with its current key.
Keyed == \A e \in Ends : Up(e) => slots[e][keyState[e]] = current[e]

\* The first end has the rule of an add, as the second is going to.
Added(w) ==
    LET e == job[w].first
    IN  /\ slots[e] = Fresh(job[w].rule)
        /\ current[e] = job[w].rule /\ keyState[e] = "KEY1"

\* The first end is one renewal ahead of the second.
Ahead(w) ==
    LET e == job[w].first
        f == Other(e)
    IN  BothUp => /\ keyState[e] = Toggle(keyState[f]) /\ current[e] = job[w].rule
                  /\ slots[e] = [s \in Slots |-> IF s = keyState[e] THEN job[w].rule ELSE current[f]]

\* One thread at most is under way; the ends are in step unless it has been at the
\* first of them.
Serial ==
    /\ \A v, w \in Workers : pc[v] # "idle" /\ pc[w] # "idle" => v = w
    /\ Keyed
    /\ \A w \in Workers : pc[w] = "add2" => Added(w)
    /\ \A w \in Workers : pc[w] = "renew2" => Ahead(w)
    /\ (\A w \in Workers : pc[w] \notin {"add2", "renew2"}) => InStep

OnlyRemoveLost == LostOnly({"topology", "remove"})

SerialInv == ~crossed /\ OnlyRemoveLost => Serial

\* The keys at the ends stay as they are.
SameKeys == UNCHANGED <<slots, current, keyState>>

\* Then what is said of them stays true.
LEMMA KeysStay == SameKeys => /\ InStep => InStep'
                              /\ Keyed => Keyed'
                              /\ BothUp' <=> BothUp
BY DEF SameKeys, InStep, Keyed, BothUp, Up

\* A thread begins alone, or what it found ended it.
LEMMA BeginSerial ==
    ASSUME LinkInv, Serial, NEW w \in Workers, OthersWait(w), ~crossed', SameKeys,
           UNCHANGED <<pc, job>> \/ \E new : \E step \in {"adding", "removing", "renew1"} : Begin(w, step, new)
    PROVE  Serial'
<1>1. CASE UNCHANGED <<pc, job>>
  BY <1>1 DEF Serial, SameKeys, Keyed, Added, Ahead, InStep, BothUp, Up
<1>2. CASE \E new : \E step \in {"adding", "removing", "renew1"} : Begin(w, step, new)
  <2>0. PICK new : \E s \in {"adding", "removing", "renew1"} : Begin(w, s, new)
    BY <1>2
  <2>1. PICK step \in {"adding", "removing", "renew1"} : Begin(w, step, new)
    BY <2>0
  <2>2. \A v \in Workers : pc[v] = "idle"
    BY <2>1 DEF Begin
  <2>3. (\A v \in Workers \ {w} : pc'[v] = "idle") /\ pc'[w] = step
    BY <2>1, <2>2 DEF Begin, LinkInv, ThreadTypes
  <2>4. InStep' /\ Keyed'
    BY <2>2, KeysStay DEF Serial
  <2> QED BY <2>3, <2>4 DEF Serial
<1> QED BY <1>1, <1>2

\* A thread that is under way is alone.
LEMMA LoneSerial ==
    ASSUME Serial, NEW w \in Workers, OthersWait(w), pc[w] # "idle",
           Keyed', pc'[w] = "add2" => Added(w)', pc'[w] = "renew2" => Ahead(w)',
           pc'[w] \notin {"add2", "renew2"} => InStep'
    PROVE  Serial'
<1>1. \A v \in Workers \ {w} : pc'[v] = "idle"
  BY DEF Serial, OthersWait
<1> QED BY <1>1 DEF Serial

\* The other threads have not brought a rule to a first end.
LEMMA LoneInStep ==
    ASSUME Serial, NEW w \in Workers, pc[w] \notin {"idle", "add2", "renew2"}
    PROVE  InStep
BY DEF Serial

\* An add.
LEMMA AddSerial ==
    ASSUME LinkInv, LinkInv', Serial, NEW w \in Workers, OthersWait(w), pc[w] \in {"add1", "add2"},
           Install(Target(w), job[w].rule, job[w].first),
           IF pc[w] = "add1" THEN Goto(w, "add2") ELSE Return(w)
    PROVE  Serial'
<1>0. EndTypes /\ ThreadTypes /\ ThreadTypes'
  BY DEF LinkInv
<1> DEFINE new == Fresh(job[w].rule)
<1>1. PICK e \in Ends : e = Target(w)
  BY <1>0, TargetType
<1>2. /\ slots'[e] = new /\ current'[e] = job[w].rule /\ keyState'[e] = "KEY1"
      /\ \A f \in Ends \ {e} : slots'[f] = slots[f] /\ current'[f] = current[f] /\ keyState'[f] = keyState[f]
      /\ new["KEY1"] = job[w].rule
  BY <1>0, <1>1 DEF Install, EndTypes, Fresh
<1> HIDE DEF new
<1>3. Keyed'
  BY <1>2 DEF Serial, Keyed, Up
<1>4. CASE pc[w] = "add1" /\ Goto(w, "add2")
  <2>1. pc'[w] = "add2" /\ job' = job /\ e = job[w].first
    BY <1>0, <1>1, <1>4 DEF Goto, ThreadTypes, Target
  <2>2. Added(w)'
    BY <1>2, <2>1 DEF Added, new
  <2> QED BY <1>3, <1>4, <2>1, <2>2, LoneSerial
<1>5. CASE pc[w] = "add2" /\ Return(w)
  <2>1. pc'[w] = "idle" /\ e = Other(job[w].first) /\ job[w].first \in Ends
    BY <1>0, <1>1, <1>5 DEF Return, ThreadTypes, Target
  <2>2. PICK f \in Ends : f = job[w].first
    BY <2>1
  <2>3. slots[f] = new /\ current[f] = job[w].rule /\ keyState[f] = "KEY1"
    BY <1>5, <2>2 DEF Serial, Added, new
  <2>4. f # e /\ \A g \in Ends : g = e \/ g = f
    BY <2>1, <2>2, TwoEnds
  <2>5. InStep'
    BY <1>2, <2>3, <2>4 DEF InStep
  <2> QED BY <1>3, <1>5, <2>1, <2>5, LoneSerial
<1> QED BY <1>4, <1>5

\* A removal, that may be lost.
LEMMA RemoveSerial ==
    ASSUME LinkInv, LinkInv', SoundInv, NoSwitchFailed, ~Lose("switch"), Serial, NEW w \in Workers,
           OthersWait(w), RemoveAt(w)
    PROVE  Serial'
<1>0. EndTypes /\ ThreadTypes /\ ThreadTypes' /\ pc[w] \notin {"idle", "add2", "renew2"}
  BY DEF LinkInv, RemoveAt
<1>1. InStep /\ Keyed
  BY <1>0, LoneInStep DEF Serial
<1>2. PICK e \in Ends : e = Target(w)
  BY <1>0, TargetType
<1>3. InStep' /\ Keyed'
  <2>1. CASE Uninstall(e)
    BY <1>0, <1>1, <2>1 DEF Uninstall, Close, Forget, EndTypes, InStep, Keyed, BothUp, Up
  <2>2. CASE UNCHANGED endVars
    BY <1>1, <2>2, KeysStay DEF endVars, SameKeys
  <2> QED BY <1>2, <2>1, <2>2, SoundCalls
<1>4. pc'[w] \in {"remove2", "idle"}
  BY <1>0 DEF RemoveAt, Goto, Return, ThreadTypes
<1> QED BY <1>0, <1>3, <1>4, LoneSerial

\* A renewal: where there is a rule at both ends, they are in step when it was at
\* both.
LEMMA RenewSerial ==
    ASSUME LinkInv, LinkInv', Serial, NEW w \in Workers, OthersWait(w), pc[w] \in {"renew1", "renew2"},
           Up(Target(w)), port[Target(w)] = "open", Renew(Target(w), job[w].rule, job[w].first),
           IF pc[w] = "renew1" THEN Goto(w, "renew2") ELSE Return(w)
    PROVE  Serial'
<1>0. EndTypes /\ ThreadTypes /\ ThreadTypes'
  BY DEF LinkInv
<1>1. PICK e \in Ends, f \in Ends : /\ e = Target(w) /\ f = Other(e) /\ e = Other(f) /\ f # e
                                    /\ \A g \in Ends : g = e \/ g = f
  BY <1>0, TargetType, TwoEnds
<1>2. PICK rule \in 1..MaxRules : rule = job[w].rule
  BY <1>0 DEF ThreadTypes
<1>3. keyState[e] \in Slots /\ Toggle(keyState[e]) \in Slots
  BY <1>0, <1>1 DEF EndTypes, Toggle, Slots
<1>4. /\ keyState'[e] = Toggle(keyState[e]) /\ current'[e] = rule
      /\ slots'[e] = [s \in Slots |-> IF s = Toggle(keyState[e]) THEN rule ELSE current[e]]
      /\ slots'[f] = slots[f] /\ current'[f] = current[f] /\ keyState'[f] = keyState[f]
  <2>1. Renew(e, rule, job[w].first) /\ RenewSlots(e, rule)
    BY <1>1, <1>2 DEF Renew
  <2>2. /\ keyState'[e] = Toggle(keyState[e]) /\ current'[e] = rule
        /\ current'[f] = current[f] /\ keyState'[f] = keyState[f]
    BY <1>0, <1>1, <2>1 DEF Renew, EndTypes, NextState, RenewedSlot
  <2>3. /\ slots'[e] = [s \in Slots |-> IF s = Toggle(keyState[e]) THEN rule ELSE current[e]]
        /\ slots'[f] = slots[f]
    BY <1>0, <1>1, <2>1 DEF RenewSlots, EndTypes, RenewedSlot
  <2> QED BY <2>2, <2>3
<1>5. Keyed'
  <2>1. slots'[e][keyState'[e]] = current'[e]
    BY <1>3, <1>4
  <2>2. Up(f)' => slots'[f][keyState'[f]] = current'[f]
    BY <1>4 DEF Serial, Keyed, Up
  <2> QED BY <1>1, <2>1, <2>2 DEF Keyed
<1>6. BothUp' => BothUp
  <2>1. Up(e) /\ (Up(f)' <=> Up(f))
    BY <1>1, <1>4 DEF Up
  <2> QED BY <1>1, <2>1 DEF BothUp
<1>7. CASE pc[w] = "renew1" /\ Goto(w, "renew2")
  <2>1. pc'[w] = "renew2" /\ job' = job /\ e = job[w].first
    BY <1>0, <1>1, <1>7 DEF Goto, ThreadTypes, Target
  <2>2. InStep
    BY <1>7, LoneInStep
  <2>3. ASSUME BothUp' PROVE current[e] = current[f] /\ keyState[e] = keyState[f]
    BY <1>6, <2>2, <2>3 DEF InStep
  <2>4. Ahead(w)'
    BY <1>1, <1>2, <1>4, <2>1, <2>3 DEF Ahead
  <2> QED BY <1>5, <1>7, <2>1, <2>4, LoneSerial
<1>8. CASE pc[w] = "renew2" /\ Return(w)
  <2>1. pc'[w] = "idle" /\ f = job[w].first
    BY <1>0, <1>1, <1>8, TwoEnds DEF Return, ThreadTypes, Target
  <2>2. ASSUME BothUp'
        PROVE  /\ keyState[f] = Toggle(keyState[e]) /\ current[f] = rule
               /\ slots[f] = [s \in Slots |-> IF s = keyState[f] THEN rule ELSE current[e]]
    BY <1>1, <1>2, <1>6, <1>8, <2>1, <2>2 DEF Serial, Ahead
  <2>3. ASSUME BothUp'
        PROVE  slots'[e] = slots'[f] /\ current'[e] = current'[f] /\ keyState'[e] = keyState'[f]
    BY <1>4, <2>2, <2>3
  <2>4. InStep'
    BY <1>1, <2>3 DEF InStep
  <2> QED BY <1>5, <1>8, <2>1, <2>4, LoneSerial
<1> QED BY <1>7, <1>8

\* A renewal that finds an end without a rule.
LEMMA NoRenewSerial ==
    ASSUME LinkInv, LinkInv', Serial, NEW w \in Workers, OthersWait(w), pc[w] \in {"renew1", "renew2"},
           ~Up(Target(w)), Return(w), UNCHANGED endVars
    PROVE  Serial'
<1>0. ThreadTypes /\ pc[w] # "idle"
  BY DEF LinkInv
<1>1. SameKeys
  BY DEF endVars, SameKeys
<1>2. ~BothUp
  BY <1>0, TargetType DEF BothUp
<1>3. InStep' /\ Keyed'
  BY <1>1, <1>2, KeysStay DEF InStep, Serial
<1>4. pc'[w] = "idle"
  BY <1>0 DEF Return, ThreadTypes
<1> QED BY <1>0, <1>3, <1>4, LoneSerial

\* Every step keeps it.
LEMMA NextSerial == LinkInv /\ LinkInv' /\ SoundInv /\ SerialInv /\ [Next]_vars => SerialInv'
<1> SUFFICES ASSUME LinkInv, LinkInv', SoundInv, SerialInv, [Next]_vars, ~crossed', OnlyRemoveLost'
             PROVE  Serial'
  BY DEF SerialInv
<1>0. ThreadTypes /\ LostTypes
  BY DEF LinkInv
<1>1. CASE Next
  <2>1. PICK w \in Workers : Step(w)
    BY <1>1 DEF Next
  <2>2. OthersWait(w)
    BY <1>0, <2>1, OthersStay
  <2>3. /\ OnlyRemoveLost /\ NoSwitchFailed
        /\ ~Lose("add") /\ ~Lose("renew") /\ ~Lose("switch")
    <3>1. LostOnly({"topology", "remove"})'
      BY DEF OnlyRemoveLost
    <3>2. OnlyRemoveLost /\ ~Lose("add") /\ ~Lose("renew") /\ ~Lose("switch")
      BY <1>0, <2>1, <3>1, LostBefore DEF OnlyRemoveLost, Calls
    <3> QED BY <3>2 DEF OnlyRemoveLost, NoSwitchFailed, LostOnly, Calls
  <2>4. ~crossed
    <3>1. crossed => crossed'
      BY <2>1 DEF Step, CallAdd, CallRemove, Draw, TakeOut, AddAt, RemoveAt, RenewAt, Update, Begin,
                  SoftTimeLimit, SoftPacketLimit, Notified
    <3> QED BY <3>1
  <2>5. Serial
    BY <2>3, <2>4 DEF SerialInv
  <2>6. CASE \E e \in Ends : \/ CallAdd(w, e) \/ CallRemove(w, e)
                             \/ SoftTimeLimit(w, e) \/ SoftPacketLimit(w, e)
    <3>1. SameKeys
      BY <2>6 DEF CallAdd, CallRemove, SoftTimeLimit, SoftPacketLimit, Notified, endVars, SameKeys
    <3>2. \/ UNCHANGED <<pc, job>>
          \/ \E new : \E step \in {"adding", "removing", "renew1"} : Begin(w, step, new)
      BY <2>6 DEF CallAdd, CallRemove, Update, SoftTimeLimit, SoftPacketLimit, Notified
    <3> QED BY <2>2, <2>5, <3>1, <3>2, BeginSerial
  <2>7. CASE Draw(w) \/ TakeOut(w)
    <3>1. SameKeys /\ pc[w] \notin {"idle", "add2", "renew2"}
      BY <2>7 DEF Draw, TakeOut, endVars, SameKeys
    <3>2. pc'[w] \notin {"add2", "renew2"}
      BY <1>0, <2>7 DEF Draw, TakeOut, Goto, Return, ThreadTypes
    <3>3. InStep' /\ Keyed'
      BY <2>5, <3>1, KeysStay, LoneInStep DEF Serial
    <3> QED BY <2>2, <2>5, <3>1, <3>2, <3>3, LoneSerial
  <2>8. CASE AddAt(w)
    <3>1. /\ pc[w] \in {"add1", "add2"}
          /\ Install(Target(w), job[w].rule, job[w].first) /\ AddReturns(w)
      BY <2>3, <2>8, SoundCalls
    <3> QED BY <2>2, <2>5, <3>1, AddSerial DEF AddReturns, AfterFirst
  <2>9. CASE RemoveAt(w)
    BY <2>2, <2>3, <2>5, <2>9, RemoveSerial
  <2>10. CASE RenewAt(w)
    <3>1. /\ pc[w] \in {"renew1", "renew2"}
          /\ \/ /\ Up(Target(w)) /\ port[Target(w)] = "open"
                /\ Renew(Target(w), job[w].rule, job[w].first)
                /\ IF pc[w] = "renew1" THEN AfterFirst(w, "renew2") ELSE Return(w)
             \/ ~Up(Target(w)) /\ Return(w) /\ UNCHANGED <<endVars, lost>>
      BY <2>3, <2>10, SoundCalls
    <3> QED BY <2>2, <2>5, <3>1, RenewSerial, NoRenewSerial DEF AfterFirst
  <2> QED BY <2>1, <2>6, <2>7, <2>8, <2>9, <2>10 DEF Step
<1>2. CASE UNCHANGED vars
  <2>1. ~crossed /\ OnlyRemoveLost /\ UNCHANGED <<pc, job>> /\ SameKeys
    BY <1>2 DEF vars, endVars, history, OnlyRemoveLost, LostOnly, SameKeys
  <2>2. Serial
    BY <2>1 DEF SerialInv
  <2> QED BY <2>1, <2>2 DEF Serial, SameKeys, Keyed, Added, Ahead, InStep, BothUp, Up
<1> QED BY <1>1, <1>2

\* When updates and renewals come one after the other, the ends have the same keys
\* in the same slots whenever none is under way, and in the middle of a renewal
\* still have a slot in common, that holds a key of a rule at both: also when calls
\* of removals are lost, or topology updates fail half-way, as long as no add or
\* remove fails at a switch.
THEOREM SerialEnds == Spec => []SerialEndsAgree /\ []CommonSlot
<1>1. Init => SerialInv
  <2> SUFFICES ASSUME Init PROVE Serial
    BY DEF SerialInv
  <2>1. \A w \in Workers : pc[w] = "idle"
    BY DEF Init
  <2>2. InStep
    BY DEF Init, InStep
  <2>3. Keyed
    BY DEF Init, Keyed, Up, NoRule, Fresh
  <2> QED BY <2>1, <2>2, <2>3 DEF Serial
<1>2. LinkInv /\ SerialInv => SerialEndsAgree
  BY DEF SerialInv, Serial, OnlyRemoveLost, SerialEndsAgree, Quiet, InStep, Agree
<1>3. LinkInv /\ SerialInv => CommonSlot
  <2> SUFFICES ASSUME LinkInv, Serial, BothUp, ~Updating
               PROVE  \E slot \in Slots : \A e, f \in Ends :
                         slots[e][slot] = slots[f][slot] /\ slots[e][slot] # RandomKey
    BY DEF SerialInv, OnlyRemoveLost, CommonSlot
  <2>1. \A e \in Ends : /\ keyState[e] \in Slots /\ current[e] # RandomKey
                        /\ slots[e][keyState[e]] = current[e]
    BY DEF LinkInv, EndTypes, BothUp, Up, Serial, Keyed, NoRule, RandomKey
  <2>2. CASE \E w \in Workers : pc[w] = "renew2"
    <3>1. PICK w \in Workers : pc[w] = "renew2"
      BY <2>2
    <3>2. PICK e \in Ends, f \in Ends : e = job[w].first /\ f = Other(e) /\ f # e
                                        /\ \A g \in Ends : g = e \/ g = f
      BY <3>1, TwoEnds DEF LinkInv, ThreadTypes
    <3>3. /\ keyState[e] = Toggle(keyState[f])
          /\ slots[e] = [s \in Slots |-> IF s = keyState[e] THEN job[w].rule ELSE current[f]]
      BY <3>1, <3>2 DEF Serial, Ahead
    <3>4. keyState[f] \in Slots /\ keyState[f] # keyState[e]
      BY <2>1, <3>2, <3>3 DEF Toggle, Slots
    <3>5. slots[e][keyState[f]] = current[f]
      BY <3>3, <3>4
    <3>6. \A g \in Ends : slots[g][keyState[f]] = current[f]
      BY <2>1, <3>2, <3>5
    <3> QED BY <2>1, <3>2, <3>4, <3>6
  <2>3. CASE \A w \in Workers : pc[w] # "renew2"
    <3>1. InStep
      BY <2>3 DEF Serial, Updating
    <3>2. PICK e \in Ends : TRUE
      BY LinkKeysAssumption
    <3>3. \A f \in Ends : slots[f][keyState[e]] = current[e]
      BY <2>1, <3>1, <3>2 DEF InStep
    <3> QED BY <2>1, <3>2, <3>3
  <2> QED BY <2>2, <2>3
<1> QED BY <1>1, <1>2, <1>3, InitLinkInv, NextLinkInv, InitSound, NextSound, NextSerial, PTL DEF Spec

=============================================================================
