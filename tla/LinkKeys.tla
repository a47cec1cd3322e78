------------------------------ MODULE LinkKeys ------------------------------
(***************************************************************************)
(* The keys of one edge between two switches: the MACsec manager of the    *)
(* global controller (global_lib/manager/macsec.py), which draws the keys  *)
(* and brings them to both ends one after the other, over the managers of  *)
(* the two local controllers, whose handlers are single steps here: what   *)
(* happens inside, also when calls meet at an end (met), is LocalMacsec's. *)
(* Of a handler that fails at its switch, with one write lost or on an     *)
(* empty register pool, the outcomes are here: add and remove swallow the  *)
(* failure and return as if nothing had happened, renew raises.            *)
(*                                                                         *)
(* Both ends report an edge.  Their calls take the lock of the global      *)
(* controller, but one that finds the other under way bypasses it          *)
(* (EventSystem), so updates may overlap.  The notifications of soft       *)
(* limits take no lock at all (global_lib/interface/macsec.py): renewals   *)
(* run next to each other and next to topology updates.  Both ends get the *)
(* same time limit, so their notifications come in pairs.                  *)
(***************************************************************************)
EXTENDS Naturals, Sequences

CONSTANTS
    Ends,        \* the two local controllers
    Workers,     \* gRPC worker threads of the global controller
    NoEnd,
    MaxUpdates,  \* bound: topology updates
    MaxRules,    \* bound: rules drawn
    MaxLost      \* bound: calls lost, or failing at a switch

ASSUME LinkKeysAssumption ==
    /\ \E e, f \in Ends : e # f /\ Ends = {e, f}
    /\ NoEnd \notin Ends
    /\ MaxUpdates \in Nat /\ MaxRules \in Nat \ {0} /\ MaxLost \in Nat

VARIABLES
    \* at each end
    port,      \* whether it is open; if not, the entries left behind it
    slots,     \* the keys in the entries of an open port
    current,   \* _rules, by number (NoRule: none)
    keyState,  \* _key_state
    edge,      \* the edge in the rule, as the end named first in it
    timers,    \* _soft_time_limit_timeouts, by the edge they notify (NoEnd: none)
    \* at the global controller
    known,     \* whether the topology has the edge
    pc, job,   \* what its threads do: the rule and the edge they bring out
    updates, drawn,
    \* history, for the properties only
    lost,      \* which calls were lost, or failed at the switch ("switch")
    crossed,   \* whether two calls were under way at once
    met        \* whether two of them called the same end at once

endVars == <<port, slots, current, keyState, edge, timers>>
history == <<lost, crossed>>
vars == <<endVars, known, pc, job, updates, drawn, met, history>>

NoRule    == 0
RandomKey == 0
Slots     == {"KEY1", "KEY2"}

\* A port that is not open may keep one of the entries ("part") or both ("full"):
\* then every add is refused by the switch, and every remove.
PortStates == {"open", "closed", "part", "full"}

Fresh(rule) == [KEY1 |-> rule, KEY2 |-> RandomKey]
NoKeys      == [KEY1 |-> RandomKey, KEY2 |-> RandomKey]

Toggle(slot) == IF slot = "KEY1" THEN "KEY2" ELSE "KEY1"

\* The controller of an edge that is not named first.
Other(e) == CHOOSE f \in Ends : f # e

Up(e)  == current[e] # NoRule
Job    == [rule : 0..MaxRules, first : Ends \union {NoEnd}]
NoJob  == [rule |-> NoRule, first |-> NoEnd]
Steps  == {"idle", "adding", "removing", "add1", "add2", "remove1", "remove2", "renew1", "renew2"}

Calls == {"topology", "add", "remove", "renew", "switch"}

Calling(w) == pc[w] \notin {"idle", "adding", "removing"}

Updating == \E w \in Workers : pc[w] \in {"add1", "add2", "remove1", "remove2"}

Target(w) == IF pc[w] \in {"add1", "remove1", "renew1"} THEN job[w].first ELSE Other(job[w].first)

Meeting == \E v, w \in Workers : v # w /\ Calling(v) /\ Calling(w) /\ Target(v) = Target(w)

Goto(w, step) == pc' = [pc EXCEPT ![w] = step] /\ UNCHANGED job

Return(w) == pc' = [pc EXCEPT ![w] = "idle"] /\ job' = [job EXCEPT ![w] = NoJob]

\* Wrong on purpose: the second end is left out.
AfterFirst_Return(w, step) == Return(w)

AfterFirst(w, step) == Goto(w, step)

\* Wrong on purpose: an add that failed is not undone.
Rollback_Leave(w) == Return(w)

Rollback(w) == Goto(w, "remove1")

-----------------------------------------------------------------------------
(* What a call does at an end.                                             *)

Stuck(e) == port[e] \in {"part", "full"}

Timed(e, first) == [timers EXCEPT ![e] = IF @ = NoEnd THEN first ELSE @]

\* MacsecManager.add: the rule of an open port is removed first, and a time limit
\* that runs is only moved.
Install(e, rule, first) ==
    /\ port' = [port EXCEPT ![e] = "open"]
    /\ slots' = [slots EXCEPT ![e] = Fresh(rule)]
    /\ current' = [current EXCEPT ![e] = rule]
    /\ keyState' = [keyState EXCEPT ![e] = "KEY1"]
    /\ edge' = [edge EXCEPT ![e] = first]
    /\ timers' = Timed(e, first)

Forget(e) ==
    /\ current' = [current EXCEPT ![e] = NoRule]
    /\ keyState' = [keyState EXCEPT ![e] = "none"]
    /\ edge' = [edge EXCEPT ![e] = NoEnd]

Close(e, state) ==
    /\ port' = [port EXCEPT ![e] = state]
    /\ slots' = [slots EXCEPT ![e] = NoKeys]

\* The first try of add failed, and so did the remove that follows or the second
\* try.  The port is left closed; if it was open, its old rule is remembered or
\* not.
AddFails(e, first) ==
    /\ \E state \in PortStates \ {"open"} : Close(e, state)
    /\ UNCHANGED <<current, keyState, edge>> \/ (port[e] = "open" /\ Forget(e))
    /\ timers' \in {timers, Timed(e, first)}

\* Entries a failure left behind refuse both tries of add; where only the validate
\* entry is left, it may put in the other one.
AddRefused(e, first) ==
    /\ Close(e, port[e]) \/ Close(e, "full")
    /\ UNCHANGED <<current, keyState, edge>>
    /\ timers' \in {timers, Timed(e, first)}

Add(e, rule, first) ==
    \/ ~Stuck(e) /\ Install(e, rule, first)
    \/ Stuck(e) /\ AddRefused(e, first)

\* MacsecManager.remove: the time limit goes on running.
Uninstall(e) ==
    /\ Close(e, "closed")
    /\ Forget(e)
    /\ UNCHANGED timers

\* One of its writes fails; the rule is still remembered.
RemoveFails(e) ==
    /\ UNCHANGED <<port, slots>> \/ \E state \in PortStates \ {"open"} : Close(e, state)
    /\ UNCHANGED <<current, keyState, edge, timers>>

RenewedSlot(e) == Toggle(keyState[e])

\* Wrong on purpose: the key state is not saved.
NextState_Keep(e) == keyState[e]

NextState(e) == RenewedSlot(e)

\* The new key in one slot, the current one in the other.
RenewSlots(e, rule) ==
    slots' = [slots EXCEPT ![e] = [s \in Slots |-> IF s = RenewedSlot(e) THEN rule ELSE current[e]]]

\* MacsecManager.renew, which does not ask whether the port is open.
Renew(e, rule, first) ==
    /\ IF port[e] = "open" THEN RenewSlots(e, rule) ELSE UNCHANGED slots
    /\ current' = [current EXCEPT ![e] = rule]
    /\ keyState' = [keyState EXCEPT ![e] = NextState(e)]
    /\ edge' = [edge EXCEPT ![e] = first]
    /\ timers' = Timed(e, first)
    /\ UNCHANGED port

\* The write of renew raises, applied or not, after the key state was toggled.
RenewHalf(e, rule) ==
    /\ UNCHANGED slots \/ (port[e] = "open" /\ RenewSlots(e, rule))
    /\ keyState' = [keyState EXCEPT ![e] = NextState(e)]
    /\ UNCHANGED <<port, current, edge, timers>>

\* A call to an end is lost, or fails at the switch of the end ("switch"), or a
\* route cannot be written ("topology").
Lose(op) == Len(lost) < MaxLost /\ lost' = Append(lost, op)

Begin(w, step, newJob) ==
    /\ pc' = [pc EXCEPT ![w] = step]
    /\ job' = [job EXCEPT ![w] = newJob]
    /\ crossed' = (crossed \/ \E v \in Workers : pc[v] # "idle")

-----------------------------------------------------------------------------
(* Topology updates.                                                       *)

Update(w, step, e) == Begin(w, step, [rule |-> NoRule, first |-> e])

\* An end reports the edge, itself named first, known already or not; then the
\* ends are told of it.  When routes cannot be written as the topology takes out
\* the old edge or puts in the new one, nothing else happens.
CallAdd(w, e) ==
    /\ pc[w] = "idle"
    /\ updates < MaxUpdates /\ updates' = updates + 1
    /\ \/ known' = TRUE /\ Update(w, "adding", e) /\ UNCHANGED lost
       \/ /\ Lose("topology")
          /\ known' \in {TRUE, ~known}
          /\ UNCHANGED <<pc, job, crossed>>
    /\ UNCHANGED <<endVars, drawn>>

\* The rule is drawn, unless an end could not be told.
Draw(w) ==
    /\ pc[w] = "adding"
    /\ \/ /\ drawn < MaxRules /\ drawn' = drawn + 1
          /\ pc' = [pc EXCEPT ![w] = "add1"] /\ job' = [job EXCEPT ![w].rule = drawn + 1]
          /\ UNCHANGED lost
       \/ Lose("topology") /\ Return(w) /\ UNCHANGED drawn
    /\ UNCHANGED <<endVars, known, updates, crossed>>

AddReturns(w) == IF pc[w] = "add1" THEN AfterFirst(w, "add2") ELSE Return(w)

\* The call may be lost before or after the end handled it; the except branch
\* removes the rules at both ends.  What fails at the end itself is not noticed.
AddAt(w) ==
    /\ pc[w] \in {"add1", "add2"}
    /\ LET e == Target(w)
       IN  \/ Add(e, job[w].rule, job[w].first) /\ AddReturns(w) /\ UNCHANGED lost
           \/ /\ Lose("switch") /\ ~Stuck(e) /\ AddFails(e, job[w].first)
              /\ AddReturns(w)
           \/ /\ Lose("add")
              /\ UNCHANGED endVars \/ Add(e, job[w].rule, job[w].first)
              /\ Rollback(w)
    /\ UNCHANGED <<known, updates, drawn, crossed>>

\* An end reports that the edge is gone; first the ends are told.
CallRemove(w, e) ==
    /\ pc[w] = "idle"
    /\ updates < MaxUpdates /\ updates' = updates + 1
    /\ Update(w, "removing", e)
    /\ UNCHANGED <<endVars, known, drawn, lost>>

\* An edge that is not known raises.  When routes cannot be written, the rules
\* stay.
TakeOut(w) ==
    /\ pc[w] = "removing"
    /\ known' = FALSE
    /\ \/ known /\ Goto(w, "remove1") /\ UNCHANGED lost
       \/ known /\ Lose("topology") /\ Return(w)
       \/ ~known /\ Return(w) /\ UNCHANGED lost
    /\ UNCHANGED <<endVars, updates, drawn, crossed>>

\* remove goes on when a call is lost.  The switch refuses to close a port that is
\* not open, which ends the handler of the end.
RemoveAt(w) ==
    /\ pc[w] \in {"remove1", "remove2"}
    /\ LET e == Target(w)
       IN  \/ port[e] = "open" /\ Uninstall(e) /\ UNCHANGED lost
           \/ port[e] # "open" /\ UNCHANGED <<endVars, lost>>
           \/ port[e] = "open" /\ Lose("switch") /\ RemoveFails(e)
           \/ Lose("remove") /\ UNCHANGED endVars
    /\ IF pc[w] = "remove1" THEN Goto(w, "remove2") ELSE Return(w)
    /\ UNCHANGED <<known, updates, drawn, crossed>>

-----------------------------------------------------------------------------
(* Renewals, without the lock.                                             *)

\* renew draws a rule when the topology has the edge.
Notified(w, first) ==
    /\ pc[w] = "idle"
    /\ \/ /\ known
          /\ drawn < MaxRules /\ drawn' = drawn + 1
          /\ Begin(w, "renew1", [rule |-> drawn + 1, first |-> first])
       \/ ~known /\ UNCHANGED <<drawn, pc, job, crossed>>
    /\ UNCHANGED <<port, slots, current, keyState, edge, known, updates, lost>>

SoftTimeLimit(w, e) ==
    /\ timers[e] # NoEnd
    /\ Notified(w, timers[e])
    /\ timers' = [timers EXCEPT ![e] = NoEnd]

SoftPacketLimit(w, e) ==
    /\ Up(e)
    /\ Notified(w, edge[e])
    /\ UNCHANGED timers

\* An end without a rule or an entry raises, and so does a lost call: the other
\* end is left alone.
RenewAt(w) ==
    /\ pc[w] \in {"renew1", "renew2"}
    /\ LET e == Target(w)
           Whole == port[e] \in {"open", "full"}
       IN  \/ /\ Up(e) /\ Whole
              /\ Renew(e, job[w].rule, job[w].first)
              /\ IF pc[w] = "renew1" THEN AfterFirst(w, "renew2") ELSE Return(w)
              /\ UNCHANGED lost
           \/ /\ Up(e) /\ ~Whole /\ RenewHalf(e, job[w].rule)
              /\ Return(w) /\ UNCHANGED lost
           \/ /\ ~Up(e)
              /\ Return(w) /\ UNCHANGED <<endVars, lost>>
           \/ /\ Lose("renew") /\ Up(e)
              /\ \/ UNCHANGED endVars
                 \/ RenewHalf(e, job[w].rule)
                 \/ Whole /\ Renew(e, job[w].rule, job[w].first)
              /\ Return(w)
    /\ UNCHANGED <<known, updates, drawn, crossed>>

-----------------------------------------------------------------------------
\* An edge that is up has been reported by one of its ends.
Init ==
    /\ known \in BOOLEAN
    /\ drawn = IF known THEN 1 ELSE NoRule
    /\ port = [e \in Ends |-> IF known THEN "open" ELSE "closed"]
    /\ slots = [e \in Ends |-> Fresh(drawn)]
    /\ current = [e \in Ends |-> drawn]
    /\ keyState = [e \in Ends |-> IF known THEN "KEY1" ELSE "none"]
    /\ \E first \in Ends : edge = [e \in Ends |-> IF known THEN first ELSE NoEnd]
    /\ timers = edge
    /\ pc = [w \in Workers |-> "idle"]
    /\ job = [w \in Workers |-> NoJob]
    /\ updates = 0 /\ lost = <<>> /\ crossed = FALSE /\ met = FALSE

Step(w) ==
    \/ Draw(w) \/ TakeOut(w) \/ AddAt(w) \/ RemoveAt(w) \/ RenewAt(w)
    \/ \E e \in Ends :
         CallAdd(w, e) \/ CallRemove(w, e) \/ SoftTimeLimit(w, e) \/ SoftPacketLimit(w, e)

Next == (\E w \in Workers : Step(w)) /\ met' = (met \/ Meeting')

Spec == Init /\ [][Next]_vars

-----------------------------------------------------------------------------
(* Properties.                                                             *)

\* The variables stay in their types.
TypeOK ==
    /\ port \in [Ends -> PortStates]
    /\ slots \in [Ends -> [Slots -> 0..MaxRules]]
    /\ current \in [Ends -> 0..MaxRules]
    /\ keyState \in [Ends -> Slots \union {"none"}]
    /\ edge \in [Ends -> Ends \union {NoEnd}] /\ timers \in [Ends -> Ends \union {NoEnd}]
    /\ known \in BOOLEAN
    /\ pc \in [Workers -> Steps] /\ job \in [Workers -> Job]
    /\ updates \in 0..MaxUpdates /\ drawn \in 0..MaxRules
    /\ lost \in Seq(Calls) /\ Len(lost) <= MaxLost /\ crossed \in BOOLEAN /\ met \in BOOLEAN

Quiet  == \A w \in Workers : pc[w] = "idle"
BothUp == \A e \in Ends : Up(e)
Agree  == \A e, f \in Ends : slots[e] = slots[f]
LostOnly(ops) == \A i \in DOMAIN lost : lost[i] \in ops

\* When nothing is under way, the two ends of an edge have the same keys in the
\* same slots, so that each can read what the other sends: through edges that
\* are reported twice, removed and reported again, calls of removals that are lost,
\* and time limits that outlive their rule, as long as calls come one after the
\* other and no add or remove fails at a switch, on a lost write or an empty
\* register pool.
SerialEndsAgree == Quiet /\ BothUp /\ ~crossed /\ LostOnly({"topology", "remove"}) => Agree

\* Also in the middle of a renewal some slot holds the same key at both ends:
\* traffic in that slot is not lost.  (In the same cases as SerialEndsAgree.)
CommonSlot ==
    BothUp /\ ~Updating /\ ~crossed /\ LostOnly({"topology", "remove"}) =>
        \E slot \in Slots :
            \A e, f \in Ends : slots[e][slot] = slots[f][slot] /\ slots[e][slot] # RandomKey

\* Renewals that cross leave the ends in step: the next one that runs alone puts
\* its key in the same slot at both.  (As long as nothing is lost.)
SamePhase ==
    Quiet /\ BothUp /\ updates = 0 /\ lost = <<>> => \A e, f \in Ends : keyState[e] = keyState[f]

\* The rollback of add: an edge ends up with rules at both ends or at none,
\* whichever calls to the ends are lost, but those that remove a rule, and
\* whatever updates and renewals cross it, as long as they do not meet at an end
\* and no add or remove fails at a switch.  An end that fails there returns
\* normally, so that nothing is rolled back and the edge ends up with one rule.
InstalledTogether ==
    Quiet /\ ~met /\ LostOnly({"topology", "add", "renew"}) => \A e, f \in Ends : Up(e) = Up(f)

=============================================================================
