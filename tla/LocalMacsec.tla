---------------------------- MODULE LocalMacsec ----------------------------
(***************************************************************************)
(* The MACsec manager of one local controller together with the part of    *)
(* the port authorizer it drives and the switch tables both write          *)
(* (local_lib/manager/macsec.py, local_lib/manager/port_authorizer.py,     *)
(* local_lib/p4runtime_lib/switch.py).                                     *)
(*                                                                         *)
(* The handlers add, remove and renew are entered by gRPC worker threads.  *)
(* A step of a thread is one P4Runtime write with the controller code up   *)
(* to the next write: the thread blocks in the write, so the steps of      *)
(* other threads interleave exactly there.  MaxActive = 1 gives the        *)
(* handlers that never overlap, a larger value those that do (what the     *)
(* lock of the controller guarantees is the subject of EventSystem).       *)
(*                                                                         *)
(* A write may be refused by the switch (INSERT of an entry that exists,   *)
(* DELETE or MODIFY of one that does not) and its call may be lost, in     *)
(* which case it raises and the switch may have applied it or not.  add    *)
(* and remove swallow what is raised.  renew does not: it goes back over   *)
(* the global controller to who reported the limit.  For a time limit that *)
(* is a task that gave the lock of the event loop away; the loop ends when *)
(* it releases the lock once more, and with it the time limits of all the  *)
(* edges of the switch.                                                    *)
(***************************************************************************)
EXTENDS Naturals, FiniteSets

CONSTANTS
    Threads,      \* gRPC worker threads that run a handler
    Addresses,    \* (MAC of the neighbour, own port): common_lib Address
    Ports,        \* ports of the switch
    PortOf,       \* the port of an address
    ExternPorts,  \* ports the settings open without MACsec
    Registers,    \* indices of the MACsec registers of the switch, range(255)
    NoRegister, NoAddress, NoEntry,
    MaxActive,    \* bound: handlers that run at the same time
    MaxCalls,     \* bound: handler calls in a behaviour
    MaxFailures   \* bound: calls that are lost, and renewals the other end
                  \* of an edge refuses

ASSUME LocalMacsecAssumption ==
    /\ IsFiniteSet(Threads)
    /\ PortOf \in [Addresses -> Ports]
    /\ ExternPorts \subseteq Ports
    /\ NoRegister \notin Registers
    /\ NoAddress \notin Addresses
    /\ NoEntry \notin [key1 : Nat, key2 : Nat, reg : Registers]
    /\ MaxActive \in Nat /\ MaxCalls \in Nat /\ MaxFailures \in Nat

VARIABLES
    \* tables of the switch
    protect,          \* ingress.ethernet.macsec_protect.targets
    validate,         \* ingress.ethernet.macsec_validate.sources
    forcedIn,         \* ingress.in_port_authorizer.forced_authorizations
    forcedOut,        \* ingress.out_port_authorizer.forced_authorizations
    \* port authorizer
    forceAuthorized,  \* _force_authorized_ports
    \* MACsec manager
    unused,           \* _unused_registers
    registers,        \* _registers
    registerToRules,  \* _register_to_rules, the address of the rule
    rules,            \* _rules, the keys of the rule (NoKey: no rule)
    keyState,         \* _key_state
    timers,           \* _soft_time_limit_timeouts
    \* global controller, as seen from here
    topology,         \* the edges of this switch it knows
    renewals,         \* soft-limit notifications it has not handled yet, each
                      \* with who waits for its answer
    \* event loop
    looping,          \* whether it still runs
    \* handler threads
    pc, call,
    calls, failures

tableVars    == <<protect, validate>>
forceVars    == <<forcedIn, forcedOut, forceAuthorized>>
registerVars == <<unused, registers, registerToRules>>
ruleVars     == <<rules, keyState>>
globalVars   == <<topology, renewals, calls>>
vars == <<tableVars, forceVars, registerVars, ruleVars, timers, globalVars, looping, pc, call,
          failures>>

-----------------------------------------------------------------------------
(* A rule is told apart by its keys: create_rules draws a fresh pair for   *)
(* every call, numbered here by the call.  RandomKey is the simulated old  *)
(* key of a first installation.                                            *)

NoKey     == 0
RandomKey == 0
Entry     == [key1 : Nat, key2 : Nat, reg : Registers]
KeyStates == {"KEY1", "KEY2", "none"}

Steps == {"idle", "allocate", "protect", "validate", "forceIn", "forceOut",
          "unforceIn", "unforceOut", "deleteProtect", "deleteValidate", "modify"}

\* The task of a time limit and the handler of packet-limit notifications wait
\* for the answer; nobody does when the call raised although it arrived.
Askers == {"time", "packet", "nobody"}

Call   == [op : {"none", "add", "remove", "renew"}, addr : Addresses \union {NoAddress},
           key : Nat, reg : Registers \union {NoRegister}, stop : BOOLEAN,
           entry : Entry \union {NoEntry}, by : Askers]
NoCall == [op |-> "none", addr |-> NoAddress, key |-> NoKey, reg |-> NoRegister, stop |-> FALSE,
           entry |-> NoEntry, by |-> "nobody"]

Addr(t)    == call[t].addr
PortAt(t)  == PortOf[Addr(t)]
Active     == {t \in Threads : pc[t] # "idle"}

NewEntry(t) == [key1 |-> call[t].key, key2 |-> RandomKey, reg |-> call[t].reg]

\* Wrong on purpose: the new key goes to the slot in use.
Toggle_InPlace(state) == state

Toggle(state) == IF state = "KEY2" THEN "KEY1" ELSE "KEY2"

\* What renew writes: the new key in the slot it toggles to, the key of the
\* rule the manager remembers in the other one.
RenewedEntry(a, key) ==
    LET slot == Toggle(keyState[a])
    IN  [key1 |-> IF slot = "KEY1" THEN key ELSE rules[a],
         key2 |-> IF slot = "KEY2" THEN key ELSE rules[a],
         reg  |-> registers[a]]

-----------------------------------------------------------------------------
Goto(t, step) == pc' = [pc EXCEPT ![t] = step] /\ UNCHANGED call

Return(t) == pc' = [pc EXCEPT ![t] = "idle"] /\ call' = [call EXCEPT ![t] = NoCall]

\* Wrong on purpose: the rollback deletes the entries without closing the port.
Rollback_Open(t) == Goto(t, "deleteProtect")

\* The except branch of add: remove the rule again ...
Rollback(t) == Goto(t, "unforceIn")

\* Wrong on purpose: no second try.
EndRemove_NoRetry(t) == Return(t)

\* ... and when that remove is over, however it ended, try once more.
EndRemove(t) ==
    \/ /\ call[t].op = "add" /\ ~call[t].stop
       /\ pc' = [pc EXCEPT ![t] = "allocate"]
       /\ call' = [call EXCEPT ![t].stop = TRUE]
    \/ /\ ~(call[t].op = "add" /\ ~call[t].stop)
       /\ Return(t)

Fail == failures < MaxFailures /\ failures' = failures + 1

\* A write to the switch: done, refused, or its call lost.
Write(legal, effect, skip, done, raise) ==
    \/ legal /\ effect /\ done /\ UNCHANGED failures
    \/ ~legal /\ skip /\ raise /\ UNCHANGED failures
    \/ Fail /\ (skip \/ (legal /\ effect)) /\ raise

\* What a renewal raised reaches who asked for it.  The finally of the event loop
\* releases the lock its task gave away and did not take back; what the handler
\* of notifications raises is logged.
RaiseTo(by) == looping' = (looping /\ by # "time")

-----------------------------------------------------------------------------
(* The global controller calls a handler.                                  *)

Begin(t, newCall, step) ==
    /\ pc[t] = "idle"
    /\ Cardinality(Active) < MaxActive
    /\ calls < MaxCalls
    /\ calls' = calls + 1
    /\ pc' = [pc EXCEPT ![t] = step]
    /\ call' = [call EXCEPT ![t] = newCall]

\* A topology update installs fresh keys on the edge, whether or not the edge
\* is already known.
CallAdd(t, a) ==
    /\ Begin(t, [NoCall EXCEPT !.op = "add", !.addr = a, !.key = calls + 1], "allocate")
    /\ topology' = topology \union {a}
    /\ UNCHANGED <<tableVars, forceVars, registerVars, ruleVars, timers, renewals, looping, failures>>

\* The edge is removed from the topology, or stays in it when the call is the
\* rollback of an add the other end failed.
CallRemove(t, a) ==
    /\ a \in topology
    /\ Begin(t, [NoCall EXCEPT !.op = "remove", !.addr = a], "unforceIn")
    /\ topology' \in {topology, topology \ {a}}
    /\ UNCHANGED <<tableVars, forceVars, registerVars, ruleVars, timers, renewals, looping, failures>>

HasRule(a) == registers[a] # NoRegister /\ rules[a] # NoKey /\ keyState[a] # "none"

\* renew up to its write: look the rule up, toggle the key state and build the
\* table entries.
CallRenew(t, a) ==
    /\ a \in topology /\ HasRule(a)
    /\ \E by \in Askers :
         /\ <<a, by>> \in renewals /\ renewals' = renewals \ {<<a, by>>}
         /\ Begin(t, [NoCall EXCEPT !.op = "renew", !.addr = a, !.key = calls + 1,
                                    !.entry = RenewedEntry(a, calls + 1), !.by = by], "modify")
    /\ keyState' = [keyState EXCEPT ![a] = Toggle(@)]
    /\ UNCHANGED <<tableVars, forceVars, registerVars, rules, timers, topology, looping, failures>>

\* The edge is unknown to the global controller: there is nothing to renew.
DropRenew(a) ==
    /\ a \notin topology
    /\ \E by \in Askers : <<a, by>> \in renewals /\ renewals' = renewals \ {<<a, by>>}
    /\ UNCHANGED <<tableVars, forceVars, registerVars, ruleVars, timers, topology, calls, looping,
                   pc, call, failures>>

\* renew raises a KeyError because the manager has no rule for the edge; or it is
\* not called, because the other end is renewed first and raises, or the call to
\* an end is lost.
RefuseRenew(a) ==
    /\ a \in topology
    /\ \E by \in Askers :
         <<a, by>> \in renewals /\ renewals' = renewals \ {<<a, by>>} /\ RaiseTo(by)
    /\ \/ ~HasRule(a) /\ Cardinality(Active) < MaxActive /\ UNCHANGED failures
       \/ Fail
    /\ UNCHANGED <<tableVars, forceVars, registerVars, ruleVars, timers, topology, calls, pc, call>>

-----------------------------------------------------------------------------
(* add                                                                     *)

\* Wrong on purpose: the register stays in the pool.
TakeRegister_Peek(r) == r \in unused /\ UNCHANGED unused

\* set.pop takes any.
TakeRegister(r) == r \in unused /\ unused' = unused \ {r}

\* A register out of the pool, the counters, packet
\* limits and the time limit; an empty pool raises.
AllocateRegister(t) ==
    /\ pc[t] = "allocate"
    /\ \/ \E r \in Registers :
            /\ TakeRegister(r)
            /\ registers' = [registers EXCEPT ![Addr(t)] = r]
            /\ call' = [call EXCEPT ![t].reg = r]
            /\ pc' = [pc EXCEPT ![t] = "protect"]
            /\ timers' = timers \union {Addr(t)}
       \/ /\ unused = {}
          /\ Rollback(t)
          /\ UNCHANGED <<unused, registers, timers>>
    /\ UNCHANGED <<tableVars, forceVars, registerToRules, ruleVars, globalVars, looping, failures>>

\* Wrong on purpose: an entry that exists is overwritten instead of refused.
MayInsert_Upsert(table, t) == TRUE

\* INSERT is refused when the port has an entry.
MayInsert(table, t) == table[PortAt(t)] = NoEntry

InsertProtect(t) ==
    /\ pc[t] = "protect"
    /\ Write(MayInsert(protect, t),
             protect' = [protect EXCEPT ![PortAt(t)] = NewEntry(t)], UNCHANGED protect,
             Goto(t, "validate"), Rollback(t))
    /\ UNCHANGED <<validate, forceVars, registerVars, ruleVars, timers, globalVars, looping>>

InsertValidate(t) ==
    /\ pc[t] = "validate"
    /\ Write(MayInsert(validate, t),
             validate' = [validate EXCEPT ![PortAt(t)] = NewEntry(t)], UNCHANGED validate,
             Goto(t, "forceIn"), Rollback(t))
    /\ UNCHANGED <<protect, forceVars, registerVars, ruleVars, timers, globalVars, looping>>

ForceIn(t) ==
    /\ pc[t] = "forceIn"
    /\ Write(PortAt(t) \notin forcedIn,
             forcedIn' = forcedIn \union {PortAt(t)}, UNCHANGED forcedIn,
             Goto(t, "forceOut"), Rollback(t))
    /\ UNCHANGED <<tableVars, forcedOut, forceAuthorized, registerVars, ruleVars, timers,
                   globalVars, looping>>

\* Wrong on purpose: the key state is not set.
Installed_NoState(t) ==
    /\ forceAuthorized' = forceAuthorized \union {PortAt(t)}
    /\ rules' = [rules EXCEPT ![Addr(t)] = call[t].key]
    /\ registerToRules' = [registerToRules EXCEPT ![call[t].reg] = Addr(t)]
    /\ UNCHANGED keyState
    /\ Return(t)

\* The last write of add: the manager now remembers the rule.
Installed(t) ==
    /\ forceAuthorized' = forceAuthorized \union {PortAt(t)}
    /\ rules' = [rules EXCEPT ![Addr(t)] = call[t].key]
    /\ registerToRules' = [registerToRules EXCEPT ![call[t].reg] = Addr(t)]
    /\ keyState' = [keyState EXCEPT ![Addr(t)] = "KEY1"]
    /\ Return(t)

ForceOut(t) ==
    /\ pc[t] = "forceOut"
    /\ Write(PortAt(t) \notin forcedOut,
             forcedOut' = forcedOut \union {PortAt(t)}, UNCHANGED forcedOut,
             Installed(t),
             Rollback(t) /\ UNCHANGED <<forceAuthorized, rules, registerToRules, keyState>>)
    /\ UNCHANGED <<tableVars, forcedIn, unused, registers, timers, globalVars, looping>>

-----------------------------------------------------------------------------
(* remove: an exception ends it where it is raised.                        *)

UnforceIn(t) ==
    /\ pc[t] = "unforceIn"
    /\ Write(PortAt(t) \in forcedIn,
             forcedIn' = forcedIn \ {PortAt(t)}, UNCHANGED forcedIn,
             Goto(t, "unforceOut"), EndRemove(t))
    /\ UNCHANGED <<tableVars, forcedOut, forceAuthorized, registerVars, ruleVars, timers,
                   globalVars, looping>>

\* _force_authorized_ports.remove raises when the port is not in the set.
Unforced(t) ==
    \/ /\ PortAt(t) \in forceAuthorized
       /\ forceAuthorized' = forceAuthorized \ {PortAt(t)}
       /\ Goto(t, "deleteProtect")
    \/ /\ PortAt(t) \notin forceAuthorized
       /\ UNCHANGED forceAuthorized
       /\ EndRemove(t)

UnforceOut(t) ==
    /\ pc[t] = "unforceOut"
    /\ Write(PortAt(t) \in forcedOut,
             forcedOut' = forcedOut \ {PortAt(t)}, UNCHANGED forcedOut,
             Unforced(t), EndRemove(t) /\ UNCHANGED forceAuthorized)
    /\ UNCHANGED <<tableVars, forcedIn, registerVars, ruleVars, timers, globalVars, looping>>

DeleteProtect(t) ==
    /\ pc[t] = "deleteProtect"
    /\ Write(protect[PortAt(t)] # NoEntry,
             protect' = [protect EXCEPT ![PortAt(t)] = NoEntry], UNCHANGED protect,
             Goto(t, "deleteValidate"), EndRemove(t))
    /\ UNCHANGED <<validate, forceVars, registerVars, ruleVars, timers, globalVars, looping>>

HoldsRegister(a) == registers[a] # NoRegister /\ registerToRules[registers[a]] # NoAddress

\* Wrong on purpose: the register goes back to the pool before it is looked up.
Forget_ReturnFirst(a) ==
    /\ unused' = unused \union {registers[a]}
    /\ registerToRules' = [registerToRules EXCEPT ![registers[a]] = NoAddress]
    /\ rules' = [rules EXCEPT ![a] = NoKey]
    /\ keyState' = [keyState EXCEPT ![a] = "none"]

\* The bookkeeping after the last delete.  The register is the one _registers
\* names now, and a KeyError leaves the rest undone; the entry of _registers
\* and the timer stay.
Forget(a) ==
    \/ /\ HoldsRegister(a)
       /\ registerToRules' = [registerToRules EXCEPT ![registers[a]] = NoAddress]
       /\ unused' = unused \union {registers[a]}
       /\ rules' = [rules EXCEPT ![a] = NoKey]
       /\ keyState' = IF rules[a] = NoKey THEN keyState ELSE [keyState EXCEPT ![a] = "none"]
    \/ ~HoldsRegister(a) /\ UNCHANGED <<registerToRules, unused, rules, keyState>>

DeleteValidate(t) ==
    /\ pc[t] = "deleteValidate"
    /\ Write(validate[PortAt(t)] # NoEntry,
             validate' = [validate EXCEPT ![PortAt(t)] = NoEntry], UNCHANGED validate,
             Forget(Addr(t)), UNCHANGED <<registerToRules, unused, rules, keyState>>)
    /\ EndRemove(t)
    /\ UNCHANGED <<protect, forceVars, registers, timers, globalVars, looping>>

-----------------------------------------------------------------------------
(* renew: one write request of two MODIFY updates, not atomic.             *)

Renewed(table, t) == [table EXCEPT ![PortAt(t)] = call[t].entry]

\* Each update is applied when its entry exists.
MayApply(table, t) == {table} \union (IF table[PortAt(t)] = NoEntry THEN {}
                                      ELSE {Renewed(table, t)})

\* Wrong on purpose: the rule is remembered although the write failed.
ModifyRaised_Remember(t) == rules' = [rules EXCEPT ![Addr(t)] = call[t].key] /\ UNCHANGED timers

ModifyRaised(t) == UNCHANGED <<rules, timers>>

\* Wrong on purpose: the time limit is not set again.
ModifyDone_NoTimer(t) == rules' = [rules EXCEPT ![Addr(t)] = call[t].key] /\ UNCHANGED timers

ModifyDone(t) ==
    /\ rules' = [rules EXCEPT ![Addr(t)] = call[t].key]
    /\ timers' = timers \union {Addr(t)}

\* After a MODIFY that is done the other end, renewed after this one, may raise.
Modify(t) ==
    /\ pc[t] = "modify"
    /\ \/ /\ protect[PortAt(t)] # NoEntry /\ validate[PortAt(t)] # NoEntry
          /\ protect' = Renewed(protect, t) /\ validate' = Renewed(validate, t)
          /\ ModifyDone(t)
          /\ \/ UNCHANGED <<failures, looping>>
             \/ Fail /\ RaiseTo(call[t].by)
       \/ /\ protect[PortAt(t)] = NoEntry \/ validate[PortAt(t)] = NoEntry
          /\ protect' = IF protect[PortAt(t)] = NoEntry THEN protect ELSE Renewed(protect, t)
          /\ validate' = IF validate[PortAt(t)] = NoEntry THEN validate ELSE Renewed(validate, t)
          /\ ModifyRaised(t) /\ RaiseTo(call[t].by)
          /\ UNCHANGED failures
       \/ /\ Fail
          /\ protect' \in MayApply(protect, t) /\ validate' \in MayApply(validate, t)
          /\ ModifyRaised(t) /\ RaiseTo(call[t].by)
    /\ Return(t)
    /\ UNCHANGED <<forceVars, registerVars, keyState, globalVars>>

-----------------------------------------------------------------------------
(* Soft limits.                                                            *)

Waits(by) == (\E a \in Addresses : <<a, by>> \in renewals) \/ \E t \in Threads : call[t].by = by

\* The call to the global controller arrives, or raises, whether it arrived or not.
Notify(a, by) ==
    \/ renewals' = renewals \union {<<a, by>>} /\ UNCHANGED <<failures, looping>>
    \/ /\ Fail /\ RaiseTo(by)
       /\ renewals' \in {renewals, renewals \union {<<a, "nobody">>}}

\* The event loop runs the timeout of an address, with the lock held like a
\* handler: the task is gone, the global controller is told (the lock is
\* released meanwhile) and the loop waits for the answer.
SoftTimeLimit(a) ==
    /\ looping /\ ~Waits("time")
    /\ a \in timers
    /\ Cardinality(Active) < MaxActive
    /\ timers' = timers \ {a}
    /\ Notify(a, "time")
    /\ UNCHANGED <<tableVars, forceVars, registerVars, ruleVars, topology, calls, pc, call>>

\* The data plane counted a register up to its soft packet limit; without a
\* rule for the register handle_notification raises and nothing is sent.  The
\* thread that reads the switch's stream waits for the answer.
SoftPacketLimit(p) ==
    /\ ~Waits("packet")
    /\ protect[p] # NoEntry
    /\ registerToRules[protect[p].reg] # NoAddress
    /\ Notify(registerToRules[protect[p].reg], "packet")
    /\ UNCHANGED <<tableVars, forceVars, registerVars, ruleVars, timers, topology, calls, pc, call>>

-----------------------------------------------------------------------------
\* PortAuthorizer.initialize opens the extern ports before any rule exists.
Init ==
    /\ protect = [p \in Ports |-> NoEntry]
    /\ validate = [p \in Ports |-> NoEntry]
    /\ forcedIn = ExternPorts /\ forcedOut = ExternPorts /\ forceAuthorized = ExternPorts
    /\ unused = Registers
    /\ registers = [a \in Addresses |-> NoRegister]
    /\ registerToRules = [r \in Registers |-> NoAddress]
    /\ rules = [a \in Addresses |-> NoKey]
    /\ keyState = [a \in Addresses |-> "none"]
    /\ timers = {} /\ topology = {} /\ renewals = {} /\ looping = TRUE
    /\ pc = [t \in Threads |-> "idle"]
    /\ call = [t \in Threads |-> NoCall]
    /\ calls = 0 /\ failures = 0

Step(t) ==
    \/ AllocateRegister(t) \/ InsertProtect(t) \/ InsertValidate(t) \/ ForceIn(t) \/ ForceOut(t)
    \/ UnforceIn(t) \/ UnforceOut(t) \/ DeleteProtect(t) \/ DeleteValidate(t)
    \/ Modify(t)

Arrive(t) == \E a \in Addresses : CallAdd(t, a) \/ CallRemove(t, a) \/ CallRenew(t, a)

Limits ==
    \/ \E a \in Addresses : SoftTimeLimit(a) \/ DropRenew(a) \/ RefuseRenew(a)
    \/ \E p \in Ports : SoftPacketLimit(p)

Next == (\E t \in Threads : Step(t) \/ Arrive(t)) \/ Limits

Spec == Init /\ [][Next]_vars

\* A handler that runs is never abandoned: the worker thread goes on.
FairSpec == Spec /\ \A t \in Threads : WF_vars(Step(t))

-----------------------------------------------------------------------------
(* Properties.                                                             *)

SwitchTypeOK ==
    /\ protect \in [Ports -> Entry \union {NoEntry}]
    /\ validate \in [Ports -> Entry \union {NoEntry}]
    /\ forcedIn \subseteq Ports /\ forcedOut \subseteq Ports /\ forceAuthorized \subseteq Ports

ManagerTypeOK ==
    /\ unused \subseteq Registers
    /\ registers \in [Addresses -> Registers \union {NoRegister}]
    /\ registerToRules \in [Registers -> Addresses \union {NoAddress}]
    /\ rules \in [Addresses -> Nat]
    /\ keyState \in [Addresses -> KeyStates]
    /\ timers \subseteq Addresses
    /\ topology \subseteq Addresses /\ renewals \subseteq Addresses \X Askers
    /\ looping \in BOOLEAN
    /\ calls \in Nat /\ failures \in Nat

\* What the locals of a handler hold at the steps that use them.
LocalsOK(t) ==
    /\ pc[t] # "idle" => call[t].addr \in Addresses
    /\ pc[t] \in {"protect", "validate", "forceIn", "forceOut"} => call[t].reg \in Registers
    /\ pc[t] = "modify" => call[t].entry \in Entry

ThreadsTypeOK ==
    /\ pc \in [Threads -> Steps]
    /\ call \in [Threads -> Call]
    /\ \A t \in Threads : LocalsOK(t)

\* The variables stay in the types the code gives them, and a handler has its
\* address, register and table entry whenever it uses them.
TypeOK == SwitchTypeOK /\ ManagerTypeOK /\ ThreadsTypeOK

MacsecPort(p) == p \in Ports \ ExternPorts
Secured(p)    == protect[p] # NoEntry /\ validate[p] # NoEntry

\* A port the switch forwards on without authentication, in either direction,
\* is one whose traffic is protected and validated: however the handlers
\* overlap and whichever writes fail, the force-authorization of a port is
\* never left behind by its MACsec entries (add authorizes last, remove
\* unauthorizes first).
ForcedPortsAreSecured ==
    \A p \in Ports : MacsecPort(p) /\ p \in forcedIn \union forcedOut => Secured(p)

Changing == {"validate", "forceIn", "forceOut", "unforceOut", "deleteProtect", "deleteValidate"}

\* Which two threads can be past the first write of add or remove on the same
\* port: none, but one that authorizes and one that unauthorizes it, or one
\* that installs entries while another deletes the last of the old ones.
Together(s1, s2) ==
    \/ s1 = "validate" /\ s2 = "deleteValidate"
    \/ s1 = "deleteValidate" /\ s2 = "validate"
    \/ s1 = "forceOut" /\ s2 = "unforceOut"
    \/ s1 = "unforceOut" /\ s2 = "forceOut"

OneChange ==
    \A t1, t2 \in Threads :
        /\ t1 # t2 /\ pc[t1] \in Changing /\ pc[t2] \in Changing
        /\ PortAt(t1) = PortAt(t2) /\ MacsecPort(PortAt(t1))
        => Together(pc[t1], pc[t2])

\* What a thread may rely on at each step, whatever the others do meanwhile.
StepFacts(t) ==
    LET p == PortAt(t)
    IN  /\ pc[t] \in {"forceIn", "deleteProtect"} =>
              Secured(p) /\ p \notin forcedIn /\ p \notin forcedOut
        /\ pc[t] = "forceOut" => Secured(p) /\ p \notin forcedOut
        /\ pc[t] = "unforceOut" => Secured(p) /\ p \notin forcedIn
        /\ pc[t] = "validate" =>
              protect[p] # NoEntry /\ p \notin forcedIn /\ p \notin forcedOut
        /\ pc[t] = "deleteValidate" =>
              validate[p] # NoEntry /\ p \notin forcedIn /\ p \notin forcedOut

\* Two handlers never take the same port through the middle of add or remove,
\* except in the two harmless pairs, and what a thread saw when it wrote still
\* holds at its next write: the switch's refusal of a second INSERT or DELETE
\* is what keeps handlers apart that no lock separates.
HandlersExcludeEachOther ==
    /\ OneChange
    /\ \A t \in Threads : pc[t] \in Changing /\ MacsecPort(PortAt(t)) => StepFacts(t)

\* The inductive invariant behind ForcedPortsAreSecured.
IInv == ForcedPortsAreSecured /\ HandlersExcludeEachOther

\* A register in the pool, which the next add may hand out, is counted by no
\* table entry and belongs to no rule; and no two ports count in one register:
\* a shared packet number would let one link exhaust the other's key.
RegistersExclusive ==
    /\ \A p \in Ports : protect[p] # NoEntry => protect[p].reg \notin unused
    /\ \A r \in unused : registerToRules[r] = NoAddress
    /\ \A p, q \in Ports :
         p # q /\ protect[p] # NoEntry /\ protect[q] # NoEntry => protect[p].reg # protect[q].reg

Keys(e) == {e.key1, e.key2}

\* On a port the authorizer holds open the switch has the keys of the rule the
\* manager remembers, in both directions, also while a renewal writes them and
\* after renewals that failed half-way: they are the keys the next renewal keeps
\* as the old ones.
CurrentKeyInstalled ==
    \A a \in Addresses :
        PortOf[a] \in forceAuthorized =>
            /\ Secured(PortOf[a])
            /\ rules[a] \in Keys(protect[PortOf[a]])
            /\ rules[a] \in Keys(validate[PortOf[a]])

SlotKey(e, slot) == IF slot = "KEY1" THEN e.key1 ELSE e.key2

\* A renewal replaces the older of the two keys: the key installed last, which a
\* neighbour that is not renewed yet still shares, stays in its slot.
RenewalOverlaps ==
    [][\A a \in Addresses :
          LET p == PortOf[a]
          IN  /\ protect[p] # NoEntry /\ protect'[p] # NoEntry /\ protect'[p] # protect[p]
              /\ rules[a] # NoKey /\ failures = 0
              => /\ rules[a] \in Keys(protect'[p])
                 /\ \E slot \in {"KEY1", "KEY2"} :
                      SlotKey(protect[p], slot) = rules[a] /\ SlotKey(protect'[p], slot) = rules[a]
      ]_vars

Renewing(a, by) == \E t \in Threads : call[t].op = "renew" /\ call[t].addr = a /\ call[t].by = by

\* The keys of an open edge never stop being renewed while the event loop runs:
\* as long as no call was lost and no other end refused a renewal, the time limit
\* of an edge whose port the authorizer holds open is set, or the loop waits for
\* its renewal.  Once a renewal that raised has ended the loop no limit fires any
\* more, whatever is set: OpenEdgesKeepLoop says when that can be, and LimitsFire
\* that it happens.
RenewalArmed ==
    \A a \in Addresses :
        PortOf[a] \in forceAuthorized /\ a \in topology /\ failures = 0 /\ looping
            => a \in timers \/ <<a, "time">> \in renewals \/ Renewing(a, "time")

\* The renewal of an edge whose port is open never raises, also after adds and
\* removes that ended half-way on an empty register pool: as long as no call is
\* lost and no other end refuses a renewal, the event loop is ended only by the
\* limit of an edge the global controller still knows although its port is closed
\* here.
OpenEdgesKeepLoop ==
    [][looping /\ ~looping' /\ failures' = 0 =>
          \E a \in topology : PortOf[a] \notin forceAuthorized]_vars

\* A rule the global controller sends is installed in the end, and its port
\* opened, also over a rule that is already there, unless a call is lost or the
\* registers run out.
AddInstalls ==
    \A a \in Addresses, k \in 1..MaxCalls :
        (\E t \in Threads : call[t].op = "add" /\ call[t].addr = a /\ call[t].key = k)
            ~> \/ rules[a] = k /\ PortOf[a] \in forcedIn \intersect forcedOut
               \/ failures > 0 \/ unused = {}

-----------------------------------------------------------------------------
(* What a comment says and the code does not do.                           *)

\* The rollback of add, "implicit -> self.remove(rule.get_validate()...)", is to
\* leave neither entry behind before the retry.  The code's remove begins with
\* the authorization, which is refused while the port is not open yet, and ends
\* there.
RollbackClears ==
    \A t \in Threads :
        pc[t] = "allocate" /\ call[t].stop =>
            protect[PortAt(t)] = NoEntry /\ validate[PortAt(t)] = NoEntry

\* "The EventSystem also provides a set_timeout and set_interval method with which
\* the user can schedule when a function is executed": a time limit that is set
\* is executed, so the loop runs, at least while no call from or to this switch is
\* lost.  The code's remove leaves the time limit of the rule behind, also when it
\* is the rollback of an add the other end failed, after which the global
\* controller still knows the edge; when the limit runs out the renewal raises and
\* ends the loop.
LimitsFire == failures = 0 /\ timers # {} => looping

=============================================================================
