------------------------- MODULE LocalMacsecProofs -------------------------
(***************************************************************************)
(* Proofs about LocalMacsec for any number of threads, addresses, ports,   *)
(* registers and lost writes.                                              *)
(***************************************************************************)
EXTENDS LocalMacsec, FiniteSetTheorems, TLAPS

-----------------------------------------------------------------------------
(* Control: where a thread can go without touching its locals.             *)

\* A thread that goes on keeps its locals, which the next step needs.
LEMMA GotoThreads ==
    ASSUME ThreadsTypeOK, NEW t \in Threads, pc[t] # "idle", NEW step \in Steps, Goto(t, step),
           step \in {"protect", "validate", "forceIn", "forceOut"} => call[t].reg \in Registers,
           step # "modify"
    PROVE  ThreadsTypeOK'
BY DEF ThreadsTypeOK, LocalsOK, Goto

\* A thread that returns has no locals.
LEMMA ReturnThreads ==
    ASSUME ThreadsTypeOK, NEW t \in Threads, Return(t)
    PROVE  ThreadsTypeOK'
<1>1. NoCall \in Call /\ "idle" \in Steps
  BY DEF Call, NoCall, NoKey, Steps, Askers
<1>2. pc' \in [Threads -> Steps] /\ call' \in [Threads -> Call]
  BY <1>1 DEF ThreadsTypeOK, Return
<1>3. ASSUME NEW u \in Threads PROVE LocalsOK(u)'
  <2>1. CASE u = t
    BY <2>1 DEF ThreadsTypeOK, LocalsOK, Return
  <2>2. CASE u # t
    BY <2>2 DEF ThreadsTypeOK, LocalsOK, Return
  <2> QED BY <2>1, <2>2
<1> QED BY <1>2, <1>3 DEF ThreadsTypeOK

\* remove returns, to its caller or to the second try of add.
LEMMA EndRemoveThreads ==
    ASSUME ThreadsTypeOK, NEW t \in Threads, pc[t] # "idle", EndRemove(t)
    PROVE  ThreadsTypeOK'
<1>1. CASE /\ pc' = [pc EXCEPT ![t] = "allocate"]
           /\ call' = [call EXCEPT ![t].stop = TRUE]
  <2>1. [call[t] EXCEPT !.stop = TRUE] \in Call
    BY DEF ThreadsTypeOK, Call
  <2>2. call' \in [Threads -> Call] /\ pc' \in [Threads -> Steps]
    BY <1>1, <2>1 DEF ThreadsTypeOK, Steps
  <2>3. ASSUME NEW u \in Threads PROVE LocalsOK(u)'
    <3>1. CASE u = t
      <4>1. call'[t].addr = call[t].addr /\ pc'[t] = "allocate"
        BY <1>1 DEF ThreadsTypeOK, Call
      <4> QED BY <3>1, <4>1 DEF ThreadsTypeOK, LocalsOK
    <3>2. CASE u # t
      BY <1>1, <3>2 DEF ThreadsTypeOK, LocalsOK
    <3> QED BY <3>1, <3>2
  <2> QED BY <2>2, <2>3 DEF ThreadsTypeOK
<1>2. CASE Return(t)
  BY <1>2, ReturnThreads
<1> QED BY <1>1, <1>2 DEF EndRemove

-----------------------------------------------------------------------------
(* Types.                                                                  *)

\* The controller starts in its types.
LEMMA InitTypeOK == Init => TypeOK
<1> SUFFICES ASSUME Init PROVE TypeOK
  OBVIOUS
<1>1. SwitchTypeOK
  BY LocalMacsecAssumption DEF Init, SwitchTypeOK
<1>2. ManagerTypeOK
  BY DEF Init, ManagerTypeOK, NoKey, KeyStates
<1>3. ThreadsTypeOK
  BY DEF Init, ThreadsTypeOK, LocalsOK, Steps, Call, NoCall, NoKey, Askers
<1> QED BY <1>1, <1>2, <1>3 DEF TypeOK

\* What add writes is a table entry.
LEMMA NewEntryType ==
    ASSUME TypeOK, NEW t \in Threads, pc[t] \in {"protect", "validate"}
    PROVE  NewEntry(t) \in Entry
BY DEF TypeOK, ThreadsTypeOK, LocalsOK, Call, NewEntry, Entry, RandomKey

\* A thread in a handler has an address, on a port.
LEMMA BusyThread ==
    ASSUME TypeOK, NEW t \in Threads, pc[t] # "idle"
    PROVE  Addr(t) \in Addresses /\ PortAt(t) \in Ports
BY LocalMacsecAssumption DEF TypeOK, ThreadsTypeOK, LocalsOK, Addr, PortAt

\* Taking a register.
LEMMA AllocateTypeOK ==
    ASSUME TypeOK, NEW t \in Threads, AllocateRegister(t)
    PROVE  TypeOK'
<1>0. pc[t] # "idle" /\ Addr(t) \in Addresses
  BY BusyThread DEF AllocateRegister
<1>1. SwitchTypeOK'
  BY DEF TypeOK, SwitchTypeOK, AllocateRegister, tableVars, forceVars
<1>2. ManagerTypeOK'
  BY <1>0 DEF TypeOK, ManagerTypeOK, AllocateRegister, TakeRegister, ruleVars, globalVars
<1>3. ThreadsTypeOK'
  <2>1. CASE Rollback(t)
    BY <2>1, <1>0, GotoThreads DEF Rollback, TypeOK, Steps
  <2>2. CASE \E r \in Registers : /\ call' = [call EXCEPT ![t].reg = r]
                                  /\ pc' = [pc EXCEPT ![t] = "protect"]
    <3>1. PICK r \in Registers : /\ call' = [call EXCEPT ![t].reg = r]
                                 /\ pc' = [pc EXCEPT ![t] = "protect"]
      BY <2>2
    <3>2. [call[t] EXCEPT !.reg = r] \in Call
      BY DEF TypeOK, ThreadsTypeOK, Call
    <3>3. call' \in [Threads -> Call] /\ pc' \in [Threads -> Steps]
      BY <3>1, <3>2 DEF TypeOK, ThreadsTypeOK, Steps
    <3>4. call'[t].addr = call[t].addr /\ call'[t].reg = r /\ pc'[t] = "protect"
      BY <3>1 DEF TypeOK, ThreadsTypeOK, Call
    <3>5. \A u \in Threads : u # t => call'[u] = call[u] /\ pc'[u] = pc[u]
      BY <3>1 DEF TypeOK, ThreadsTypeOK
    <3> QED BY <1>0, <3>3, <3>4, <3>5 DEF TypeOK, ThreadsTypeOK, LocalsOK, Addr
  <2> QED BY <2>1, <2>2 DEF AllocateRegister
<1> QED BY <1>1, <1>2, <1>3 DEF TypeOK

\* The two inserts of add.
LEMMA InsertTypeOK ==
    ASSUME TypeOK, NEW t \in Threads, InsertProtect(t) \/ InsertValidate(t)
    PROVE  TypeOK'
<1>0. pc[t] # "idle" /\ PortAt(t) \in Ports /\ NewEntry(t) \in Entry
  BY BusyThread, NewEntryType DEF InsertProtect, InsertValidate
<1>1. SwitchTypeOK'
  BY <1>0 DEF TypeOK, SwitchTypeOK, InsertProtect, InsertValidate, Write, forceVars
<1>2. ManagerTypeOK'
  BY DEF TypeOK, ManagerTypeOK, InsertProtect, InsertValidate, Write, Fail, registerVars, ruleVars,
         globalVars
<1>3. ThreadsTypeOK'
  <2>1. \/ Goto(t, "validate") \/ Goto(t, "forceIn") \/ Goto(t, "unforceIn")
    BY DEF InsertProtect, InsertValidate, Write, Rollback
  <2>2. call[t].reg \in Registers
    BY DEF TypeOK, ThreadsTypeOK, LocalsOK, InsertProtect, InsertValidate
  <2> QED BY <1>0, <2>1, <2>2, GotoThreads DEF TypeOK, Steps
<1> QED BY <1>1, <1>2, <1>3 DEF TypeOK

\* The two authorizations of add, and its bookkeeping.
LEMMA ForceTypeOK ==
    ASSUME TypeOK, NEW t \in Threads, ForceIn(t) \/ ForceOut(t)
    PROVE  TypeOK'
<1>0. pc[t] # "idle" /\ PortAt(t) \in Ports /\ Addr(t) \in Addresses
  BY BusyThread DEF ForceIn, ForceOut
<1>1. call[t].reg \in Registers /\ call[t].key \in Nat
  BY DEF TypeOK, ThreadsTypeOK, LocalsOK, Call, ForceIn, ForceOut
<1>2. SwitchTypeOK'
  BY <1>0 DEF TypeOK, SwitchTypeOK, ForceIn, ForceOut, Installed, Write, tableVars
<1>3. ManagerTypeOK'
  BY <1>0, <1>1 DEF TypeOK, ManagerTypeOK, ForceIn, ForceOut, Installed, Write, Fail, registerVars,
         ruleVars, globalVars, KeyStates
<1>4. ThreadsTypeOK'
  <2>1. \/ Goto(t, "forceOut") \/ Goto(t, "unforceIn") \/ Return(t)
    BY DEF ForceIn, ForceOut, Installed, Write, Rollback
  <2> QED BY <1>0, <1>1, <2>1, GotoThreads, ReturnThreads DEF TypeOK, Steps
<1> QED BY <1>2, <1>3, <1>4 DEF TypeOK

\* The writes of remove, and its bookkeeping.
LEMMA RemoveTypeOK ==
    ASSUME TypeOK, NEW t \in Threads,
           UnforceIn(t) \/ UnforceOut(t) \/ DeleteProtect(t) \/ DeleteValidate(t)
    PROVE  TypeOK'
<1>0. pc[t] # "idle" /\ PortAt(t) \in Ports /\ Addr(t) \in Addresses
  BY BusyThread DEF UnforceIn, UnforceOut, DeleteProtect, DeleteValidate
<1>1. SwitchTypeOK'
  BY <1>0 DEF TypeOK, SwitchTypeOK, UnforceIn, UnforceOut, DeleteProtect, DeleteValidate,
         Unforced, Write, tableVars, forceVars
<1>2. ManagerTypeOK'
  <2>1. CASE DeleteValidate(t)
    <3>1. \/ UNCHANGED <<registerToRules, unused, rules, keyState>>
          \/ Forget(Addr(t))
      BY <2>1 DEF DeleteValidate, Write
    <3>2. Forget(Addr(t)) =>
            /\ unused' \subseteq Registers
            /\ registerToRules' \in [Registers -> Addresses \union {NoAddress}]
            /\ rules' \in [Addresses -> Nat]
            /\ keyState' \in [Addresses -> KeyStates]
      BY <1>0 DEF TypeOK, ManagerTypeOK, Forget, HoldsRegister, NoKey, KeyStates
    <3> QED BY <2>1, <3>1, <3>2 DEF TypeOK, ManagerTypeOK, DeleteValidate, Write, Fail, globalVars
  <2>2. CASE UnforceIn(t) \/ UnforceOut(t) \/ DeleteProtect(t)
    BY <2>2 DEF TypeOK, ManagerTypeOK, UnforceIn, UnforceOut, DeleteProtect, Write, Fail, registerVars,
           ruleVars, globalVars
  <2> QED BY <2>1, <2>2
<1>3. ThreadsTypeOK'
  <2>1. \/ Goto(t, "unforceOut") \/ Goto(t, "deleteProtect") \/ Goto(t, "deleteValidate")
        \/ EndRemove(t)
    BY DEF UnforceIn, UnforceOut, Unforced, DeleteProtect, DeleteValidate, Write
  <2> QED BY <1>0, <2>1, GotoThreads, EndRemoveThreads DEF TypeOK, Steps
<1> QED BY <1>1, <1>2, <1>3 DEF TypeOK

\* The write of renew.
LEMMA ModifyTypeOK ==
    ASSUME TypeOK, NEW t \in Threads, Modify(t)
    PROVE  TypeOK'
<1>0. PortAt(t) \in Ports /\ Addr(t) \in Addresses
  BY BusyThread DEF Modify
<1>1. call[t].entry \in Entry /\ call[t].key \in Nat
  BY DEF TypeOK, ThreadsTypeOK, LocalsOK, Call, Modify
<1>2. SwitchTypeOK'
  <2>1. protect' \in {protect, Renewed(protect, t)} /\ validate' \in {validate, Renewed(validate, t)}
    BY DEF Modify, MayApply
  <2> QED BY <1>0, <1>1, <2>1 DEF TypeOK, SwitchTypeOK, Renewed, Modify, forceVars
<1>3. ManagerTypeOK'
  <2>1. ManagerTypeOK
    BY DEF TypeOK
  <2>2. looping' \in BOOLEAN
    BY <2>1 DEF ManagerTypeOK, Modify, RaiseTo
  <2>3. failures' \in Nat
    BY <2>1 DEF ManagerTypeOK, Modify, Fail
  <2>4. /\ UNCHANGED <<unused, registers, registerToRules, keyState, topology, renewals, calls>>
        /\ ModifyDone(t) \/ ModifyRaised(t)
    BY DEF Modify, registerVars, globalVars
  <2> QED BY <1>0, <1>1, <2>1, <2>2, <2>3, <2>4 DEF ManagerTypeOK, ModifyDone, ModifyRaised
<1>4. ThreadsTypeOK'
  BY ReturnThreads DEF TypeOK, Modify
<1> QED BY <1>2, <1>3, <1>4 DEF TypeOK

\* A handler begins with the locals its first step needs.
LEMMA BeginThreads ==
    ASSUME ThreadsTypeOK, NEW t \in Threads, NEW c \in Call, NEW step \in Steps,
           Begin(t, c, step), c.addr \in Addresses, step \in {"allocate", "unforceIn", "modify"},
           step = "modify" => c.entry \in Entry
    PROVE  ThreadsTypeOK'
BY DEF ThreadsTypeOK, LocalsOK, Begin

\* The locals of the three handlers.
LEMMA CallTypes ==
    ASSUME NEW a \in Addresses, NEW k \in Nat
    PROVE  /\ [NoCall EXCEPT !.op = "add", !.addr = a, !.key = k] \in Call
           /\ [NoCall EXCEPT !.op = "remove", !.addr = a] \in Call
           /\ \A by \in Askers, e \in Entry :
                [NoCall EXCEPT !.op = "renew", !.addr = a, !.key = k, !.entry = e, !.by = by] \in Call
BY DEF NoCall, Call, NoKey, Askers

\* A call of the global controller.
LEMMA ArriveTypeOK ==
    ASSUME TypeOK, NEW t \in Threads, NEW a \in Addresses,
           CallAdd(t, a) \/ CallRemove(t, a) \/ CallRenew(t, a)
    PROVE  TypeOK'
<1>0. calls + 1 \in Nat
  BY DEF TypeOK, ManagerTypeOK
<1>1. SwitchTypeOK'
  BY DEF TypeOK, SwitchTypeOK, CallAdd, CallRemove, CallRenew, tableVars, forceVars
<1>2. ManagerTypeOK'
  <2>1. looping' = looping /\ renewals' \subseteq renewals
    BY DEF CallAdd, CallRemove, CallRenew
  <2>2. keyState' \in [Addresses -> KeyStates]
    BY DEF TypeOK, ManagerTypeOK, CallAdd, CallRemove, CallRenew, ruleVars, Toggle, KeyStates
  <2>3. calls' = calls + 1 /\ failures' = failures
    BY DEF CallAdd, CallRemove, CallRenew, Begin
  <2>4. UNCHANGED <<unused, registers, registerToRules, rules, timers>> /\ topology' \subseteq Addresses
    BY DEF TypeOK, ManagerTypeOK, CallAdd, CallRemove, CallRenew, registerVars, ruleVars
  <2> QED BY <1>0, <2>1, <2>2, <2>3, <2>4 DEF TypeOK, ManagerTypeOK
<1>3. ThreadsTypeOK'
  <2>1. CASE CallAdd(t, a)
    <3>1. [NoCall EXCEPT !.op = "add", !.addr = a, !.key = calls + 1] \in Call
      BY <1>0, CallTypes
    <3> QED BY <2>1, <3>1, BeginThreads DEF TypeOK, CallAdd, NoCall, Steps
  <2>2. CASE CallRemove(t, a)
    <3>1. [NoCall EXCEPT !.op = "remove", !.addr = a] \in Call
      BY <1>0, CallTypes
    <3> QED BY <2>2, <3>1, BeginThreads DEF TypeOK, CallRemove, NoCall, Steps
  <2>3. CASE CallRenew(t, a)
    <3>1. RenewedEntry(a, calls + 1) \in Entry
      BY <1>0, <2>3 DEF TypeOK, ManagerTypeOK, CallRenew, HasRule, RenewedEntry, Entry
    <3>2. PICK by \in Askers :
            Begin(t, [NoCall EXCEPT !.op = "renew", !.addr = a, !.key = calls + 1,
                                    !.entry = RenewedEntry(a, calls + 1), !.by = by], "modify")
      BY <2>3 DEF CallRenew
    <3>3. [NoCall EXCEPT !.op = "renew", !.addr = a, !.key = calls + 1,
                         !.entry = RenewedEntry(a, calls + 1), !.by = by] \in Call
      BY <1>0, <3>1, CallTypes
    <3> QED BY <3>1, <3>2, <3>3, BeginThreads DEF TypeOK, NoCall, Steps
  <2> QED BY <2>1, <2>2, <2>3
<1> QED BY <1>1, <1>2, <1>3 DEF TypeOK

\* Soft limits, and renewals that are dropped or refused.
LEMMA LimitTypeOK ==
    ASSUME TypeOK, Limits
    PROVE  TypeOK'
<1>1. UNCHANGED <<tableVars, forceVars, registerVars, ruleVars, topology, calls, pc, call>>
  BY DEF Limits, SoftTimeLimit, SoftPacketLimit, DropRenew, RefuseRenew
<1>2. ManagerTypeOK /\ SwitchTypeOK /\ ThreadsTypeOK
  BY DEF TypeOK
<1>3. looping' \in BOOLEAN
  BY <1>2 DEF ManagerTypeOK, Limits, SoftTimeLimit, SoftPacketLimit, DropRenew, RefuseRenew, Notify, RaiseTo
<1>4. failures' \in Nat
  BY <1>2 DEF ManagerTypeOK, Limits, SoftTimeLimit, SoftPacketLimit, DropRenew, RefuseRenew, Notify, Fail
<1>5. timers' \subseteq timers
  BY DEF Limits, SoftTimeLimit, SoftPacketLimit, DropRenew, RefuseRenew
<1>6. renewals' \subseteq Addresses \X Askers
  <2>1. ASSUME NEW a \in Addresses, NEW by \in Askers, Notify(a, by)
        PROVE  renewals' \subseteq Addresses \X Askers
    BY <1>2, <2>1 DEF ManagerTypeOK, Notify, Askers
  <2>2. ASSUME NEW a \in Addresses, SoftTimeLimit(a) PROVE renewals' \subseteq Addresses \X Askers
    BY <2>1, <2>2 DEF SoftTimeLimit, Askers
  <2>3. ASSUME NEW p \in Ports, SoftPacketLimit(p) PROVE renewals' \subseteq Addresses \X Askers
    <3>1. registerToRules[protect[p].reg] \in Addresses
      BY <1>2, <2>3 DEF SwitchTypeOK, ManagerTypeOK, SoftPacketLimit, Entry
    <3> QED BY <2>1, <2>3, <3>1 DEF SoftPacketLimit, Askers
  <2>4. ASSUME NEW a \in Addresses, DropRenew(a) \/ RefuseRenew(a) PROVE renewals' \subseteq renewals
    BY <2>4 DEF DropRenew, RefuseRenew
  <2> QED BY <1>2, <2>2, <2>3, <2>4 DEF ManagerTypeOK, Limits
<1>7. SwitchTypeOK' /\ ThreadsTypeOK'
  BY <1>1, <1>2 DEF SwitchTypeOK, ThreadsTypeOK, LocalsOK, tableVars, forceVars
<1>8. ManagerTypeOK'
  BY <1>1, <1>2, <1>3, <1>4, <1>5, <1>6 DEF ManagerTypeOK, registerVars, ruleVars
<1> QED BY <1>7, <1>8 DEF TypeOK

\* Every step keeps the types.
LEMMA NextTypeOK == TypeOK /\ [Next]_vars => TypeOK'
<1> SUFFICES ASSUME TypeOK, [Next]_vars PROVE TypeOK'
  OBVIOUS
<1>1. ASSUME NEW t \in Threads, Step(t) PROVE TypeOK'
  BY <1>1, AllocateTypeOK, InsertTypeOK, ForceTypeOK, RemoveTypeOK, ModifyTypeOK DEF Step
<1>2. ASSUME NEW t \in Threads, Arrive(t) PROVE TypeOK'
  BY <1>2, ArriveTypeOK DEF Arrive
<1>3. CASE UNCHANGED vars
  BY <1>3 DEF TypeOK, SwitchTypeOK, ManagerTypeOK, ThreadsTypeOK, LocalsOK, vars, tableVars,
       forceVars, registerVars, ruleVars, globalVars
<1> QED BY <1>1, <1>2, <1>3, LimitTypeOK DEF Next

\* The variables keep their types, and no handler uses a local it has not set
\* (local_lib/manager/macsec.py), in every behaviour.
THEOREM TypeInvariance == Spec => []TypeOK
BY InitTypeOK, NextTypeOK, PTL DEF Spec

-----------------------------------------------------------------------------
(* Safety.  A step of t moves t only, and changes the tables of its port.  *)

\* What a step of t leaves alone of the other threads.
OthersStay(t) ==
    \A u \in Threads \ {t} : pc'[u] = pc[u] /\ PortAt(u)' = PortAt(u)

\* A thread that goes on does not move another.
LEMMA GotoMoves ==
    ASSUME TypeOK, NEW t \in Threads, NEW step \in Steps, Goto(t, step)
    PROVE  pc'[t] = step /\ PortAt(t)' = PortAt(t) /\ OthersStay(t)
BY DEF TypeOK, ThreadsTypeOK, Goto, OthersStay, PortAt, Addr

\* A thread that returns does not move another.
LEMMA ReturnMoves ==
    ASSUME TypeOK, NEW t \in Threads, Return(t)
    PROVE  pc'[t] = "idle" /\ OthersStay(t)
BY DEF TypeOK, ThreadsTypeOK, Return, OthersStay, PortAt, Addr

\* A thread that ends remove does not move another.
LEMMA EndRemoveMoves ==
    ASSUME TypeOK, NEW t \in Threads, EndRemove(t)
    PROVE  pc'[t] \notin Changing /\ OthersStay(t)
BY DEF TypeOK, ThreadsTypeOK, EndRemove, Return, OthersStay, PortAt, Addr, Changing

\* A thread that is not in the middle of a change, and leaves the tables
\* alone, disturbs nothing.
LEMMA QuietStep ==
    ASSUME IInv, NEW t \in Threads, OthersStay(t), pc'[t] \notin Changing,
           UNCHANGED <<protect, validate, forcedIn, forcedOut>>
    PROVE  IInv'
BY DEF IInv, ForcedPortsAreSecured, HandlersExcludeEachOther, OneChange, StepFacts, Secured,
       MacsecPort, OthersStay

\* OneChange only has to be checked for the pairs of the thread that moves.
LEMMA OneChangeStep ==
    ASSUME OneChange, NEW t \in Threads, OthersStay(t),
           pc'[t] \in Changing /\ MacsecPort(PortAt(t)') =>
               \A u \in Threads : u # t /\ pc[u] \in Changing /\ PortAt(u) = PortAt(t)'
                                   => Together(pc'[t], pc[u])
    PROVE  OneChange'
<1> SUFFICES ASSUME NEW u1 \in Threads, NEW u2 \in Threads, u1 # u2,
                    pc'[u1] \in Changing, pc'[u2] \in Changing,
                    PortAt(u1)' = PortAt(u2)', MacsecPort(PortAt(u1)')
             PROVE  Together(pc'[u1], pc'[u2])
  BY DEF OneChange, Changing, MacsecPort, Together
<1>1. CASE u1 = t
  BY <1>1 DEF OthersStay
<1>2. CASE u2 = t
  <2>1. Together(pc'[u2], pc'[u1])
    BY <1>2 DEF OthersStay
  <2> QED BY <2>1 DEF Together
<1>3. CASE u1 # t /\ u2 # t
  BY <1>3 DEF OthersStay, OneChange
<1> QED BY <1>1, <1>2, <1>3

\* A step at port p: what it owes is about p only.
LEMMA PortStep ==
    ASSUME TypeOK, IInv, NEW t \in Threads, NEW p \in Ports, OthersStay(t),
           \A q \in Ports : q # p =>
               /\ protect'[q] = protect[q] /\ validate'[q] = validate[q]
               /\ (q \in forcedIn') = (q \in forcedIn) /\ (q \in forcedOut') = (q \in forcedOut),
           MacsecPort(p) =>
               /\ p \in forcedIn' \union forcedOut' => Secured(p)'
               /\ \A u \in Threads : u # t /\ pc[u] \in Changing /\ PortAt(u) = p => StepFacts(u)',
           pc'[t] \in Changing =>
               /\ PortAt(t)' = p
               /\ MacsecPort(p) =>
                    /\ StepFacts(t)'
                    /\ \A u \in Threads : u # t /\ pc[u] \in Changing /\ PortAt(u) = p
                                          => Together(pc'[t], pc[u])
    PROVE  IInv'
<1>1. ForcedPortsAreSecured'
  BY DEF IInv, ForcedPortsAreSecured, Secured, MacsecPort
<1>2. OneChange'
  BY OneChangeStep DEF IInv, HandlersExcludeEachOther
<1>3. ASSUME NEW u \in Threads, pc'[u] \in Changing, MacsecPort(PortAt(u)')
      PROVE  StepFacts(u)'
  <2>1. CASE u = t
    BY <1>3, <2>1
  <2>2. CASE u # t /\ PortAt(u) = p
    BY <1>3, <2>2 DEF OthersStay
  <2>3. CASE u # t /\ PortAt(u) # p
    <3>1. pc'[u] = pc[u] /\ PortAt(u)' = PortAt(u)
      BY <2>3 DEF OthersStay
    <3>2. StepFacts(u) /\ PortAt(u) \in Ports
      BY <1>3, <3>1, BusyThread DEF IInv, HandlersExcludeEachOther, Changing
    <3> QED BY <2>3, <3>1, <3>2 DEF StepFacts, Secured
  <2> QED BY <2>1, <2>2, <2>3
<1> QED BY <1>1, <1>2, <1>3 DEF IInv, HandlersExcludeEachOther, MacsecPort

\* What the invariant says about a thread in the middle of a change.
LEMMA InChange ==
    ASSUME TypeOK, IInv, NEW t \in Threads, pc[t] \in Changing, MacsecPort(PortAt(t))
    PROVE  /\ StepFacts(t)
           /\ \A u \in Threads : u # t /\ pc[u] \in Changing /\ PortAt(u) = PortAt(t)
                                 => Together(pc[t], pc[u]) /\ StepFacts(u)
BY DEF IInv, HandlersExcludeEachOther, OneChange

\* add writes the first of its entries on a closed port.
LEMMA InsertProtectSafe ==
    ASSUME TypeOK, IInv, NEW t \in Threads, InsertProtect(t)
    PROVE  IInv'
<1> SUFFICES ASSUME NEW p \in Ports, p = PortAt(t) PROVE IInv'
  BY BusyThread DEF InsertProtect
<1>0. pc[t] = "protect" /\ NewEntry(t) # NoEntry
  BY NewEntryType, LocalMacsecAssumption DEF InsertProtect, Entry
<1>1. UNCHANGED <<validate, forcedIn, forcedOut>>
  BY DEF InsertProtect, forceVars
<1>2. OthersStay(t) /\ PortAt(t)' = p /\ pc'[t] \in {"validate", "unforceIn"}
  BY GotoMoves DEF InsertProtect, Write, Rollback, Steps
<1>3. CASE UNCHANGED protect /\ pc'[t] = "unforceIn"
  BY <1>1, <1>2, <1>3, QuietStep DEF Changing
<1>4. CASE protect[p] = NoEntry /\ protect' = [protect EXCEPT ![p] = NewEntry(t)]
  <2>1. protect'[p] # NoEntry /\ \A q \in Ports : q # p => protect'[q] = protect[q]
    BY <1>0, <1>4 DEF TypeOK, SwitchTypeOK
  <2>2. MacsecPort(p) => p \notin forcedIn /\ p \notin forcedOut
    BY <1>0, <1>4 DEF IInv, ForcedPortsAreSecured, Secured
  <2>3. ASSUME MacsecPort(p), NEW u \in Threads, u # t, pc[u] \in Changing, PortAt(u) = p
        PROVE  pc[u] = "deleteValidate" /\ StepFacts(u)'
    <3>1. pc[u] = "deleteValidate" /\ StepFacts(u)
      BY <1>4, <2>3 DEF IInv, HandlersExcludeEachOther, StepFacts, Secured, Changing
    <3> QED BY <1>1, <1>2, <2>3, <3>1 DEF StepFacts, OthersStay
  <2>4. pc'[t] \in Changing /\ MacsecPort(p) => pc'[t] = "validate" /\ StepFacts(t)'
    BY <1>1, <1>2, <2>1, <2>2 DEF StepFacts, Changing
  <2> QED BY <1>0, <1>1, <1>2, <2>1, <2>2, <2>3, <2>4, PortStep DEF Together
<1> QED BY <1>2, <1>3, <1>4, GotoMoves DEF InsertProtect, Write, Rollback, MayInsert, Steps

\* add writes the second entry while no other thread undoes the first.
LEMMA InsertValidateSafe ==
    ASSUME TypeOK, IInv, NEW t \in Threads, InsertValidate(t)
    PROVE  IInv'
<1> SUFFICES ASSUME NEW p \in Ports, p = PortAt(t) PROVE IInv'
  BY BusyThread DEF InsertValidate
<1>0. pc[t] = "validate" /\ NewEntry(t) # NoEntry
  BY NewEntryType, LocalMacsecAssumption DEF InsertValidate, Entry
<1>1. UNCHANGED <<protect, forcedIn, forcedOut>>
  BY DEF InsertValidate, forceVars
<1>2. OthersStay(t) /\ PortAt(t)' = p /\ pc'[t] \in {"forceIn", "unforceIn"}
  BY GotoMoves DEF InsertValidate, Write, Rollback, Steps
<1>3. CASE UNCHANGED validate /\ pc'[t] = "unforceIn"
  BY <1>1, <1>2, <1>3, QuietStep DEF Changing
<1>4. CASE validate[p] = NoEntry /\ validate' = [validate EXCEPT ![p] = NewEntry(t)]
  <2>1. validate'[p] # NoEntry /\ \A q \in Ports : q # p => validate'[q] = validate[q]
    BY <1>0, <1>4 DEF TypeOK, SwitchTypeOK
  <2>2. MacsecPort(p) => protect[p] # NoEntry /\ p \notin forcedIn /\ p \notin forcedOut
    BY <1>0, InChange DEF StepFacts, Changing
  <2>3. MacsecPort(p) => ~\E u \in Threads : u # t /\ pc[u] \in Changing /\ PortAt(u) = p
    BY <1>0, <1>4, InChange DEF StepFacts, Together, Changing
  <2>4. pc'[t] \in Changing /\ MacsecPort(p) => StepFacts(t)'
    BY <1>1, <1>2, <2>1, <2>2 DEF StepFacts, Secured, Changing
  <2> QED BY <1>0, <1>1, <1>2, <2>1, <2>2, <2>3, <2>4, PortStep
<1> QED BY <1>2, <1>3, <1>4, GotoMoves DEF InsertValidate, Write, Rollback, MayInsert, Steps

\* add opens the ingress of a secured port.
LEMMA ForceInSafe ==
    ASSUME TypeOK, IInv, NEW t \in Threads, ForceIn(t)
    PROVE  IInv'
<1> SUFFICES ASSUME NEW p \in Ports, p = PortAt(t) PROVE IInv'
  BY BusyThread DEF ForceIn
<1>0. pc[t] = "forceIn"
  BY DEF ForceIn
<1>1. UNCHANGED <<protect, validate, forcedOut>>
  BY DEF ForceIn, tableVars
<1>2. OthersStay(t) /\ PortAt(t)' = p /\ pc'[t] \in {"forceOut", "unforceIn"}
  BY GotoMoves DEF ForceIn, Write, Rollback, Steps
<1>3. CASE UNCHANGED forcedIn /\ pc'[t] = "unforceIn"
  BY <1>1, <1>2, <1>3, QuietStep DEF Changing
<1>4. CASE forcedIn' = forcedIn \union {p}
  <2>1. MacsecPort(p) => Secured(p) /\ p \notin forcedOut
    BY <1>0, InChange DEF StepFacts, Changing
  <2>2. MacsecPort(p) => ~\E u \in Threads : u # t /\ pc[u] \in Changing /\ PortAt(u) = p
    BY <1>0, InChange DEF Together, Changing
  <2>3. pc'[t] \in Changing /\ MacsecPort(p) => StepFacts(t)'
    BY <1>1, <1>2, <2>1 DEF StepFacts, Secured, Changing
  <2>4. MacsecPort(p) => Secured(p)'
    BY <1>1, <2>1 DEF Secured
  <2> QED BY <1>0, <1>1, <1>2, <1>4, <2>2, <2>3, <2>4, PortStep
<1> QED BY <1>2, <1>3, <1>4, GotoMoves DEF ForceIn, Write, Rollback, Steps

\* add opens the egress of a secured port.
LEMMA ForceOutSafe ==
    ASSUME TypeOK, IInv, NEW t \in Threads, ForceOut(t)
    PROVE  IInv'
<1> SUFFICES ASSUME NEW p \in Ports, p = PortAt(t) PROVE IInv'
  BY BusyThread DEF ForceOut
<1>0. pc[t] = "forceOut"
  BY DEF ForceOut
<1>1. UNCHANGED <<protect, validate, forcedIn>>
  BY DEF ForceOut, tableVars
<1>2. OthersStay(t) /\ pc'[t] \notin Changing
  BY GotoMoves, ReturnMoves DEF ForceOut, Installed, Write, Rollback, Steps, Changing
<1>3. CASE UNCHANGED forcedOut
  BY <1>1, <1>2, <1>3, QuietStep
<1>4. CASE forcedOut' = forcedOut \union {p}
  <2>1. MacsecPort(p) => Secured(p)'
    BY <1>0, <1>1, InChange DEF StepFacts, Secured, Changing
  <2>2. ASSUME MacsecPort(p), NEW u \in Threads, u # t, pc[u] \in Changing, PortAt(u) = p
        PROVE  StepFacts(u)'
    <3>1. pc[u] = "unforceOut" /\ StepFacts(u)
      BY <1>0, <2>2, InChange DEF Together, Changing
    <3> QED BY <1>1, <1>2, <2>2, <3>1 DEF StepFacts, Secured, OthersStay
  <2> QED BY <1>1, <1>2, <1>4, <2>1, <2>2, PortStep
<1> QED BY <1>3, <1>4 DEF ForceOut, Write

\* remove closes the ingress before anything else.
LEMMA UnforceInSafe ==
    ASSUME TypeOK, IInv, NEW t \in Threads, UnforceIn(t)
    PROVE  IInv'
<1> SUFFICES ASSUME NEW p \in Ports, p = PortAt(t) PROVE IInv'
  BY BusyThread DEF UnforceIn
<1>1. UNCHANGED <<protect, validate, forcedOut>>
  BY DEF UnforceIn, tableVars
<1>2. OthersStay(t) /\ (pc'[t] \in Changing => pc'[t] = "unforceOut" /\ PortAt(t)' = p)
  BY GotoMoves, EndRemoveMoves DEF UnforceIn, Write, Steps, Changing
<1>3. CASE UNCHANGED forcedIn /\ pc'[t] \notin Changing
  BY <1>1, <1>2, <1>3, QuietStep
<1>4. CASE p \in forcedIn /\ forcedIn' = forcedIn \ {p}
  <2>1. MacsecPort(p) => Secured(p)
    BY <1>4 DEF IInv, ForcedPortsAreSecured
  <2>2. MacsecPort(p) => Secured(p)'
    BY <1>1, <2>1 DEF Secured
  <2>3. ASSUME MacsecPort(p), NEW u \in Threads, u # t, pc[u] \in Changing, PortAt(u) = p
        PROVE  pc[u] = "forceOut" /\ StepFacts(u)'
    <3>1. pc[u] = "forceOut" /\ StepFacts(u)
      BY <1>4, <2>3 DEF IInv, HandlersExcludeEachOther, StepFacts, Changing
    <3> QED BY <1>1, <1>2, <2>3, <3>1 DEF StepFacts, Secured, OthersStay
  <2>4. pc'[t] \in Changing /\ MacsecPort(p) => StepFacts(t)'
    BY <1>1, <1>2, <1>4, <2>1 DEF StepFacts, Secured
  <2> QED BY <1>1, <1>2, <1>4, <2>2, <2>3, <2>4, PortStep DEF Together
<1> QED BY <1>2, <1>3, <1>4, EndRemoveMoves DEF UnforceIn, Write

\* remove closes the egress while the entries are still there.
LEMMA UnforceOutSafe ==
    ASSUME TypeOK, IInv, NEW t \in Threads, UnforceOut(t)
    PROVE  IInv'
<1> SUFFICES ASSUME NEW p \in Ports, p = PortAt(t) PROVE IInv'
  BY BusyThread DEF UnforceOut
<1>0. pc[t] = "unforceOut"
  BY DEF UnforceOut
<1>1. UNCHANGED <<protect, validate, forcedIn>>
  BY DEF UnforceOut, tableVars
<1>2. OthersStay(t) /\ (pc'[t] \in Changing => pc'[t] = "deleteProtect" /\ PortAt(t)' = p)
  BY GotoMoves, EndRemoveMoves DEF UnforceOut, Unforced, Write, Steps, Changing
<1>3. CASE UNCHANGED forcedOut /\ pc'[t] \notin Changing
  BY <1>1, <1>2, <1>3, QuietStep
<1>4. CASE p \in forcedOut /\ forcedOut' = forcedOut \ {p}
  <2>1. MacsecPort(p) => Secured(p) /\ p \notin forcedIn
    BY <1>0, InChange DEF StepFacts, Changing
  <2>2. MacsecPort(p) => Secured(p)'
    BY <1>1, <2>1 DEF Secured
  <2>3. MacsecPort(p) => ~\E u \in Threads : u # t /\ pc[u] \in Changing /\ PortAt(u) = p
    BY <1>0, <1>4, InChange DEF StepFacts, Together, Changing
  <2>4. pc'[t] \in Changing /\ MacsecPort(p) => StepFacts(t)'
    BY <1>1, <1>2, <1>4, <2>1 DEF StepFacts, Secured
  <2> QED BY <1>1, <1>2, <1>4, <2>2, <2>3, <2>4, PortStep
<1> QED BY <1>2, <1>3, <1>4, EndRemoveMoves DEF UnforceOut, Write

\* remove deletes the first entry of a closed port.
LEMMA DeleteProtectSafe ==
    ASSUME TypeOK, IInv, NEW t \in Threads, DeleteProtect(t)
    PROVE  IInv'
<1> SUFFICES ASSUME NEW p \in Ports, p = PortAt(t) PROVE IInv'
  BY BusyThread DEF DeleteProtect
<1>0. pc[t] = "deleteProtect"
  BY DEF DeleteProtect
<1>1. UNCHANGED <<validate, forcedIn, forcedOut>>
  BY DEF DeleteProtect, forceVars
<1>2. OthersStay(t) /\ (pc'[t] \in Changing => pc'[t] = "deleteValidate" /\ PortAt(t)' = p)
  BY GotoMoves, EndRemoveMoves DEF DeleteProtect, Write, Steps, Changing
<1>3. CASE UNCHANGED protect /\ pc'[t] \notin Changing
  BY <1>1, <1>2, <1>3, QuietStep
<1>4. CASE protect' = [protect EXCEPT ![p] = NoEntry]
  <2>1. MacsecPort(p) => validate[p] # NoEntry /\ p \notin forcedIn /\ p \notin forcedOut
    BY <1>0, InChange DEF StepFacts, Secured, Changing
  <2>2. MacsecPort(p) => ~\E u \in Threads : u # t /\ pc[u] \in Changing /\ PortAt(u) = p
    BY <1>0, InChange DEF Together, Changing
  <2>3. pc'[t] \in Changing /\ MacsecPort(p) => StepFacts(t)'
    BY <1>1, <1>2, <2>1 DEF StepFacts
  <2>4. \A q \in Ports : q # p => protect'[q] = protect[q]
    BY <1>4 DEF TypeOK, SwitchTypeOK
  <2> QED BY <1>1, <1>2, <2>1, <2>2, <2>3, <2>4, PortStep
<1> QED BY <1>2, <1>3, <1>4, EndRemoveMoves DEF DeleteProtect, Write

\* remove deletes the second entry of a closed port.
LEMMA DeleteValidateSafe ==
    ASSUME TypeOK, IInv, NEW t \in Threads, DeleteValidate(t)
    PROVE  IInv'
<1> SUFFICES ASSUME NEW p \in Ports, p = PortAt(t) PROVE IInv'
  BY BusyThread DEF DeleteValidate
<1>0. pc[t] = "deleteValidate"
  BY DEF DeleteValidate
<1>1. UNCHANGED <<protect, forcedIn, forcedOut>>
  BY DEF DeleteValidate, forceVars
<1>2. OthersStay(t) /\ pc'[t] \notin Changing
  BY EndRemoveMoves DEF DeleteValidate
<1>3. CASE UNCHANGED validate
  BY <1>1, <1>2, <1>3, QuietStep
<1>4. CASE validate' = [validate EXCEPT ![p] = NoEntry]
  <2>1. MacsecPort(p) => p \notin forcedIn /\ p \notin forcedOut
    BY <1>0, InChange DEF StepFacts, Changing
  <2>2. ASSUME MacsecPort(p), NEW u \in Threads, u # t, pc[u] \in Changing, PortAt(u) = p
        PROVE  StepFacts(u)'
    <3>1. pc[u] = "validate" /\ StepFacts(u)
      BY <1>0, <2>2, InChange DEF Together, Changing
    <3> QED BY <1>1, <1>2, <2>2, <3>1 DEF StepFacts, OthersStay
  <2>3. \A q \in Ports : q # p => validate'[q] = validate[q]
    BY <1>4 DEF TypeOK, SwitchTypeOK
  <2> QED BY <1>1, <1>2, <2>1, <2>2, <2>3, PortStep
<1> QED BY <1>3, <1>4 DEF DeleteValidate, Write

\* A renewal changes what entries hold, never whether there is one.
LEMMA ModifySafe ==
    ASSUME TypeOK, IInv, NEW t \in Threads, Modify(t)
    PROVE  IInv'
<1> SUFFICES ASSUME NEW p \in Ports, p = PortAt(t) PROVE IInv'
  BY BusyThread DEF Modify
<1>1. UNCHANGED <<forcedIn, forcedOut>>
  BY DEF Modify, forceVars
<1>2. OthersStay(t) /\ pc'[t] \notin Changing
  BY ReturnMoves DEF Modify, Changing
<1>3. call[t].entry # NoEntry
  BY LocalMacsecAssumption DEF Modify, TypeOK, ThreadsTypeOK, LocalsOK, Entry
<1>4. /\ protect' = protect \/ (protect[p] # NoEntry /\ protect' = Renewed(protect, t))
      /\ validate' = validate \/ (validate[p] # NoEntry /\ validate' = Renewed(validate, t))
  BY DEF Modify, MayApply
<1>5. \A q \in Ports : /\ (protect'[q] # NoEntry) = (protect[q] # NoEntry)
                       /\ (validate'[q] # NoEntry) = (validate[q] # NoEntry)
  BY <1>3, <1>4 DEF TypeOK, SwitchTypeOK, Renewed
<1>6. ForcedPortsAreSecured'
  BY <1>1, <1>5 DEF IInv, ForcedPortsAreSecured, Secured, MacsecPort
<1>7. OneChange'
  BY <1>2, OneChangeStep DEF IInv, HandlersExcludeEachOther
<1>8. ASSUME NEW u \in Threads, pc'[u] \in Changing, MacsecPort(PortAt(u)')
      PROVE  StepFacts(u)'
  <2>1. pc'[u] = pc[u] /\ PortAt(u)' = PortAt(u)
    BY <1>2, <1>8 DEF OthersStay
  <2>2. StepFacts(u) /\ PortAt(u) \in Ports
    BY <1>8, <2>1, BusyThread DEF IInv, HandlersExcludeEachOther, Changing
  <2> QED BY <1>1, <1>5, <2>1, <2>2 DEF StepFacts, Secured
<1> QED BY <1>6, <1>7, <1>8 DEF IInv, HandlersExcludeEachOther, MacsecPort

\* Calls that arrive and registers that are taken change no port.
LEMMA QuietSafe ==
    ASSUME TypeOK, IInv, NEW t \in Threads, AllocateRegister(t) \/ Arrive(t)
    PROVE  IInv'
<1>1. UNCHANGED <<protect, validate, forcedIn, forcedOut>>
  BY DEF AllocateRegister, Arrive, CallAdd, CallRemove, CallRenew, tableVars, forceVars
<1>2. OthersStay(t)
  BY DEF AllocateRegister, Arrive, CallAdd, CallRemove, CallRenew, Begin, Rollback, Goto,
         OthersStay, PortAt, Addr, TypeOK, ThreadsTypeOK
<1>3. pc'[t] \in {"protect", "unforceIn", "allocate", "modify"}
  BY DEF AllocateRegister, Arrive, CallAdd, CallRemove, CallRenew, Begin, Rollback, Goto, TypeOK,
         ThreadsTypeOK
<1> QED BY <1>1, <1>2, <1>3, QuietStep DEF Changing

\* No port but the extern ones is open when the controller starts.
LEMMA InitIInv == Init => IInv
BY DEF Init, IInv, ForcedPortsAreSecured, HandlersExcludeEachOther, OneChange, Changing, MacsecPort

\* Every step keeps the inductive invariant.
LEMMA NextIInv == TypeOK /\ IInv /\ [Next]_vars => IInv'
<1> SUFFICES ASSUME TypeOK, IInv, [Next]_vars PROVE IInv'
  OBVIOUS
<1>1. ASSUME NEW t \in Threads, Step(t) PROVE IInv'
  BY <1>1, QuietSafe, InsertProtectSafe, InsertValidateSafe, ForceInSafe, ForceOutSafe,
     UnforceInSafe, UnforceOutSafe, DeleteProtectSafe, DeleteValidateSafe, ModifySafe DEF Step
<1>2. ASSUME NEW t \in Threads, Arrive(t) PROVE IInv'
  BY <1>2, QuietSafe
<1>3. CASE UNCHANGED <<tableVars, forceVars, pc, call>>
  BY <1>3 DEF IInv, ForcedPortsAreSecured, HandlersExcludeEachOther, OneChange, StepFacts, Secured,
       PortAt, Addr, tableVars, forceVars
<1>4. CASE Limits \/ UNCHANGED vars
  BY <1>3, <1>4 DEF Limits, SoftTimeLimit, DropRenew, RefuseRenew, SoftPacketLimit, vars
<1> QED BY <1>1, <1>2, <1>4 DEF Next

\* Handlers that no lock keeps apart, writes that are refused or lost with any
\* effect: no two of them are ever in the middle of a change of one port except
\* in the two harmless pairs (MacsecManager.add and remove).
THEOREM HandlerExclusion == Spec => []HandlersExcludeEachOther
<1>1. IInv => HandlersExcludeEachOther
  BY DEF IInv
<1> QED BY <1>1, InitIInv, NextIInv, TypeInvariance, PTL DEF Spec

\* A port is open without authentication only while its MACsec entries are
\* there, however the handlers overlap and whichever writes fail.
THEOREM NeverForcedUnsecured == Spec => []ForcedPortsAreSecured
<1>1. IInv => ForcedPortsAreSecured
  BY DEF IInv
<1> QED BY <1>1, InitIInv, NextIInv, TypeInvariance, PTL DEF Spec

-----------------------------------------------------------------------------
(* Handlers one at a time, as the lock of the controller is meant to run   *)
(* them, every neighbour on a port of its own and none on an extern port.  *)

Serial ==
    /\ MaxActive = 1
    /\ \A a, b \in Addresses : PortOf[a] = PortOf[b] => a = b
    /\ \A a \in Addresses : PortOf[a] \notin ExternPorts

\* The steps of add that hold a register.
Adding == {"protect", "validate", "forceIn", "forceOut"}

\* Which handler is at which step, with a key of its own.
Purpose(t) ==
    /\ call[t].op \in {"add", "renew"} => call[t].key # NoKey
    /\ pc[t] \in Adding \union {"allocate"} => call[t].op = "add"
    /\ pc[t] = "modify" <=> call[t].op = "renew"

\* One thread runs a handler, and one that runs none has no locals.
Solo ==
    /\ \A t, u \in Threads : pc[t] # "idle" /\ pc[u] # "idle" => t = u
    /\ \A t \in Threads : (pc[t] = "idle" => call[t] = NoCall) /\ Purpose(t)

\* When a handler or a timeout may begin, no handler runs.
LEMMA NoneRuns ==
    ASSUME Serial, Cardinality(Active) < MaxActive
    PROVE  \A t \in Threads : pc[t] = "idle"
<1>1. IsFiniteSet(Threads) /\ Active \subseteq Threads
  BY LocalMacsecAssumption DEF Active
<1>2. IsFiniteSet(Active)
  BY <1>1, FS_Subset
<1>3. Cardinality(Active) \in Nat
  BY <1>2, FS_CardinalityType
<1>4. Cardinality(Active) = 0
  BY <1>3 DEF Serial
<1>5. Active = {}
  BY <1>2, <1>4, FS_EmptySet
<1> QED BY <1>5 DEF Active

\* Where control goes.
LEMMA Control ==
    ASSUME TypeOK, NEW t \in Threads
    PROVE  /\ \A s \in Steps : Goto(t, s) => pc'[t] = s /\ call' = call
           /\ Rollback(t) => pc'[t] = "unforceIn" /\ call' = call
           /\ Return(t) => pc'[t] = "idle" /\ call'[t] = NoCall
           /\ EndRemove(t) => pc'[t] \in {"allocate", "idle"}
           /\ EndRemove(t) /\ pc'[t] = "allocate" =>
                call'[t] = [call[t] EXCEPT !.stop = TRUE] /\ call[t].op = "add"
           /\ EndRemove(t) /\ pc'[t] = "idle" => call'[t] = NoCall
BY DEF TypeOK, ThreadsTypeOK, Goto, Rollback, Return, EndRemove, Steps

\* A step of a handler goes on, returns, ends remove, or takes a register.
LEMMA StepControl ==
    ASSUME NEW t \in Threads, Step(t)
    PROVE  /\ pc[t] # "idle"
           /\ \/ \E s \in Steps \ {"idle"} : Goto(t, s)
              \/ Return(t)
              \/ EndRemove(t)
              \/ /\ pc[t] = "allocate" /\ pc' = [pc EXCEPT ![t] = "protect"]
                 /\ \E r \in unused : call' = [call EXCEPT ![t].reg = r]
<1>1. ASSUME AllocateRegister(t) \/ InsertProtect(t) \/ InsertValidate(t) \/ ForceIn(t) \/ ForceOut(t)
      PROVE  /\ pc[t] # "idle"
             /\ \/ \E s \in Steps \ {"idle"} : Goto(t, s)
                \/ Return(t)
                \/ /\ pc[t] = "allocate" /\ pc' = [pc EXCEPT ![t] = "protect"]
                   /\ \E r \in unused : call' = [call EXCEPT ![t].reg = r]
  BY <1>1 DEF AllocateRegister, TakeRegister, InsertProtect, InsertValidate, ForceIn, ForceOut,
              Installed, Rollback, Write, Steps
<1>2. ASSUME UnforceIn(t) \/ UnforceOut(t) \/ DeleteProtect(t) \/ DeleteValidate(t) \/ Modify(t)
      PROVE  pc[t] # "idle" /\ ((\E s \in Steps \ {"idle"} : Goto(t, s)) \/ Return(t) \/ EndRemove(t))
  BY <1>2 DEF UnforceIn, UnforceOut, Unforced, DeleteProtect, DeleteValidate, Modify, Write, Steps
<1> QED BY <1>1, <1>2 DEF Step

\* A step keeps the other threads out, and what its thread needs.
LEMMA StepAlone ==
    ASSUME TypeOK, Solo, NEW t \in Threads, Step(t)
    PROVE  /\ pc[t] # "idle" /\ Addr(t) \in Addresses
           /\ \A u \in Threads : u # t => /\ pc[u] = "idle" /\ pc'[u] = "idle"
                                          /\ call[u] = NoCall /\ call'[u] = NoCall
           /\ pc'[t] # "idle" => /\ call'[t].addr = call[t].addr /\ call'[t].op = call[t].op
                                 /\ call'[t].key = call[t].key /\ call'[t].entry = call[t].entry
                                 /\ call'[t].by = call[t].by
                                 /\ pc[t] # "allocate" => call'[t].reg = call[t].reg
           /\ pc'[t] = "idle" => call'[t] = NoCall
<1>0. pc[t] # "idle"
  BY StepControl
<1>1. Addr(t) \in Addresses
  BY <1>0, BusyThread
<1>2. \A u \in Threads : u # t => pc[u] = "idle" /\ call[u] = NoCall
  BY <1>0 DEF Solo
<1>3. pc \in [Threads -> Steps] /\ call \in [Threads -> Call]
  BY DEF TypeOK, ThreadsTypeOK
<1>4. CASE \E s \in Steps \ {"idle"} : Goto(t, s)
  <2>1. PICK s \in Steps \ {"idle"} : Goto(t, s)
    BY <1>4
  <2>2. pc'[t] = s /\ (\A u \in Threads : u # t => pc'[u] = pc[u]) /\ call' = call
    BY <1>3, <2>1 DEF Goto
  <2> QED BY <1>0, <1>1, <1>2, <2>2
<1>5. CASE Return(t)
  BY <1>0, <1>1, <1>2, <1>3, <1>5 DEF Return
<1>6. CASE EndRemove(t) /\ ~Return(t)
  <2>1. pc' = [pc EXCEPT ![t] = "allocate"] /\ call' = [call EXCEPT ![t].stop = TRUE]
    BY <1>6 DEF EndRemove
  <2>2. pc'[t] = "allocate" /\ \A u \in Threads : u # t => pc'[u] = pc[u] /\ call'[u] = call[u]
    BY <1>3, <2>1
  <2>3. call'[t] = [call[t] EXCEPT !.stop = TRUE] /\ call[t] \in Call
    BY <1>3, <2>1
  <2>4. /\ call'[t].addr = call[t].addr /\ call'[t].op = call[t].op /\ call'[t].key = call[t].key
        /\ call'[t].entry = call[t].entry /\ call'[t].reg = call[t].reg /\ call'[t].by = call[t].by
    BY <2>3 DEF Call
  <2> QED BY <1>0, <1>1, <1>2, <2>2, <2>4
<1>7. CASE /\ pc[t] = "allocate" /\ pc' = [pc EXCEPT ![t] = "protect"]
           /\ \E r \in unused : call' = [call EXCEPT ![t].reg = r]
  <2>1. PICK r \in unused : call' = [call EXCEPT ![t].reg = r]
    BY <1>7
  <2>2. pc'[t] = "protect" /\ \A u \in Threads : u # t => pc'[u] = pc[u] /\ call'[u] = call[u]
    BY <1>3, <1>7, <2>1
  <2>3. call'[t] = [call[t] EXCEPT !.reg = r] /\ call[t] \in Call
    BY <1>3, <2>1
  <2>4. /\ call'[t].addr = call[t].addr /\ call'[t].op = call[t].op /\ call'[t].key = call[t].key
        /\ call'[t].entry = call[t].entry /\ call'[t].by = call[t].by
    BY <2>3 DEF Call
  <2> QED BY <1>0, <1>1, <1>2, <1>7, <2>2, <2>4
<1> QED BY <1>4, <1>5, <1>6, <1>7, StepControl

\* A call finds all threads idle, and only its own thread runs afterwards.
LEMMA ArriveAlone ==
    ASSUME Serial, TypeOK, Solo, NEW t \in Threads, NEW a \in Addresses,
           CallAdd(t, a) \/ CallRemove(t, a) \/ CallRenew(t, a)
    PROVE  /\ \A u \in Threads : pc[u] = "idle" /\ call[u] = NoCall
           /\ \A u \in Threads : u # t => pc'[u] = "idle" /\ call'[u] = NoCall
           /\ Addr(t)' = a
           /\ CallAdd(t, a) => /\ pc'[t] = "allocate"
                               /\ call'[t] = [NoCall EXCEPT !.op = "add", !.addr = a, !.key = calls + 1]
           /\ CallRemove(t, a) => /\ pc'[t] = "unforceIn"
                                  /\ call'[t] = [NoCall EXCEPT !.op = "remove", !.addr = a]
           /\ CallRenew(t, a) => /\ pc'[t] = "modify" /\ call'[t].op = "renew" /\ call'[t].addr = a
                                 /\ call'[t].key = calls + 1
                                 /\ call'[t].entry = RenewedEntry(a, calls + 1)
                                 /\ <<a, call'[t].by>> \in renewals
                                 /\ renewals' = renewals \ {<<a, call'[t].by>>}
<1>1. \A u \in Threads : pc[u] = "idle" /\ call[u] = NoCall
  BY NoneRuns DEF CallAdd, CallRemove, CallRenew, Begin, Solo
<1>2. pc \in [Threads -> Steps] /\ call \in [Threads -> Call]
  BY DEF TypeOK, ThreadsTypeOK
<1>3. CASE CallAdd(t, a)
  BY <1>1, <1>2, <1>3 DEF CallAdd, CallRemove, CallRenew, Begin, Addr, NoCall
<1>4. CASE CallRemove(t, a)
  BY <1>1, <1>2, <1>4 DEF CallAdd, CallRemove, CallRenew, Begin, Addr, NoCall
<1>5. CASE CallRenew(t, a)
  <2>1. PICK by \in Askers :
          /\ <<a, by>> \in renewals /\ renewals' = renewals \ {<<a, by>>}
          /\ Begin(t, [NoCall EXCEPT !.op = "renew", !.addr = a, !.key = calls + 1,
                                     !.entry = RenewedEntry(a, calls + 1), !.by = by], "modify")
    BY <1>5 DEF CallRenew
  <2>2. call'[t] = [NoCall EXCEPT !.op = "renew", !.addr = a, !.key = calls + 1,
                                  !.entry = RenewedEntry(a, calls + 1), !.by = by]
    BY <1>2, <2>1 DEF Begin
  <2>3. /\ call'[t].op = "renew" /\ call'[t].addr = a /\ call'[t].key = calls + 1
        /\ call'[t].entry = RenewedEntry(a, calls + 1) /\ call'[t].by = by
    BY ONLY <2>2 DEF NoCall
  <2>4. pc'[t] = "modify" /\ \A u \in Threads : u # t => pc'[u] = pc[u] /\ call'[u] = call[u]
    BY <1>2, <2>1 DEF Begin
  <2>5. ~CallAdd(t, a) /\ ~CallRemove(t, a)
    <3>1. CallAdd(t, a) => pc'[t] = "allocate"
      BY <1>2 DEF CallAdd, Begin
    <3>2. CallRemove(t, a) => pc'[t] = "unforceIn"
      BY <1>2 DEF CallRemove, Begin
    <3> QED BY <2>4, <3>1, <3>2
  <2> QED BY <1>1, <2>1, <2>3, <2>4, <2>5 DEF Addr
<1> QED BY <1>3, <1>4, <1>5

\* A step stays in its handler.
LEMMA StepPurpose ==
    ASSUME TypeOK, Solo, NEW t \in Threads, Step(t)
    PROVE  Purpose(t)'
<1>1. Purpose(t)
  BY DEF Solo
<1>2. pc'[t] = "idle" \/ (call'[t].op = call[t].op /\ call'[t].key = call[t].key)
  BY StepAlone
<1>3. pc'[t] = "idle" => call'[t].op = "none"
  BY StepAlone DEF NoCall
<1>4. ASSUME AllocateRegister(t) PROVE pc'[t] \in {"protect", "unforceIn"} /\ pc[t] = "allocate"
  BY <1>4, Control DEF AllocateRegister, TypeOK, ThreadsTypeOK
<1>5. ASSUME InsertProtect(t) \/ InsertValidate(t) \/ ForceIn(t) \/ ForceOut(t)
      PROVE  pc'[t] \in {"validate", "forceIn", "forceOut", "unforceIn", "idle"} /\ pc[t] \in Adding
  BY <1>5, Control DEF InsertProtect, InsertValidate, ForceIn, ForceOut, Installed, Write, Adding, Steps
<1>6. ASSUME UnforceIn(t) \/ UnforceOut(t) \/ DeleteProtect(t) \/ DeleteValidate(t)
      PROVE  /\ pc[t] \notin {"idle", "modify"}
             /\ \/ pc'[t] \in {"unforceOut", "deleteProtect", "deleteValidate", "idle"}
                \/ pc'[t] = "allocate" /\ call[t].op = "add"
  BY <1>6, Control DEF UnforceIn, UnforceOut, Unforced, DeleteProtect, DeleteValidate, Write, Steps
<1>7. ASSUME Modify(t) PROVE pc'[t] = "idle"
  BY <1>7, Control DEF Modify
<1> QED BY <1>1, <1>2, <1>3, <1>4, <1>5, <1>6, <1>7 DEF Purpose, Adding, Step

\* One handler at a time stays one.
LEMMA NextSolo ==
    ASSUME Serial, TypeOK, Solo, [Next]_vars
    PROVE  Solo'
<1>0. \A u \in Threads : call'[u] = NoCall /\ pc'[u] = "idle" => Purpose(u)'
  BY DEF Purpose, Adding, NoCall
<1>1. ASSUME NEW t \in Threads, Step(t) PROVE Solo'
  BY <1>0, <1>1, StepAlone, StepPurpose DEF Solo
<1>2. ASSUME NEW t \in Threads, Arrive(t) PROVE Solo'
  <2>1. PICK a \in Addresses : CallAdd(t, a) \/ CallRemove(t, a) \/ CallRenew(t, a)
    BY <1>2 DEF Arrive
  <2>2. \A u \in Threads : u # t => pc'[u] = "idle" /\ call'[u] = NoCall
    BY <2>1, ArriveAlone
  <2>3. pc'[t] # "idle"
    BY <2>1, ArriveAlone
  <2>4. calls + 1 # NoKey
    BY DEF TypeOK, ManagerTypeOK, NoKey
  <2>5. Purpose(t)'
    <3>1. CallAdd(t, a) => pc'[t] = "allocate" /\ call'[t].op = "add" /\ call'[t].key = calls + 1
      BY ArriveAlone DEF NoCall
    <3>2. CallRemove(t, a) => pc'[t] = "unforceIn" /\ call'[t].op = "remove"
      BY ArriveAlone DEF NoCall
    <3>3. CallRenew(t, a) => pc'[t] = "modify" /\ call'[t].op = "renew" /\ call'[t].key = calls + 1
      BY ArriveAlone DEF NoCall
    <3> QED BY <2>1, <2>4, <3>1, <3>2, <3>3 DEF Purpose, Adding
  <2> QED BY <1>0, <2>2, <2>3, <2>5 DEF Solo
<1>3. ASSUME Limits \/ UNCHANGED vars PROVE Solo'
  BY <1>3 DEF Limits, SoftTimeLimit, DropRenew, RefuseRenew, SoftPacketLimit, vars, Solo, Purpose
<1> QED BY <1>1, <1>2, <1>3 DEF Next, Limits

\* The controller starts idle.
LEMMA InitSolo == Init => Solo
BY DEF Init, Solo, Purpose, Adding, NoCall

-----------------------------------------------------------------------------
(* Registers.  A register an address uses, for the rule the manager        *)
(* remembers or for one that is being added, is out of the pool and is     *)
(* neither another address's nor counted by the entry of another port.     *)

InUse(a) == rules[a] # NoKey \/ \E t \in Threads : pc[t] \in Adding /\ Addr(t) = a

OwnRegister(a) ==
    /\ registers[a] \in Registers \ unused
    /\ \A q \in Ports : q # PortOf[a] /\ protect[q] # NoEntry => protect[q].reg # registers[a]
    /\ \A b \in Addresses : b # a /\ InUse(b) => registers[b] # registers[a]

\* What a thread relies on: its register is the one the manager looks up.
RegisterFacts(t) ==
    /\ pc[t] \in Adding => call[t].reg = registers[Addr(t)]
    /\ pc[t] = "modify" => call[t].entry.reg = registers[Addr(t)]
    /\ pc[t] \in {"modify", "deleteProtect", "deleteValidate"} => rules[Addr(t)] # NoKey
    /\ pc[t] \in {"deleteProtect", "deleteValidate"} => PortAt(t) \notin forceAuthorized
    /\ pc[t] = "deleteValidate" => protect[PortAt(t)] = NoEntry

RegInv ==
    /\ RegistersExclusive
    /\ \A a \in Addresses : InUse(a) => OwnRegister(a)
    /\ \A a \in Addresses : PortOf[a] \in forceAuthorized => rules[a] # NoKey
    /\ \A t \in Threads : RegisterFacts(t)

\* A step that takes and returns no register, and at most deletes an entry.
LEMMA SameRegisters ==
    ASSUME TypeOK, Solo, RegInv, NEW t \in Threads, Step(t),
           UNCHANGED <<unused, registers, registerToRules, rules>>,
           \A q \in Ports : protect'[q] = NoEntry \/ protect'[q] = protect[q],
           forceAuthorized' \subseteq forceAuthorized,
           pc'[t] \in Adding => pc[t] \in Adding,
           pc'[t] # "modify",
           pc'[t] \in {"deleteProtect", "deleteValidate"} =>
               rules[Addr(t)] # NoKey /\ PortAt(t) \notin forceAuthorized',
           pc'[t] = "deleteValidate" => protect'[PortAt(t)] = NoEntry
    PROVE  RegInv'
<1>0. /\ pc[t] # "idle" /\ Addr(t) \in Addresses
      /\ \A u \in Threads : u # t => pc[u] = "idle" /\ pc'[u] = "idle"
      /\ pc'[t] # "idle" => Addr(t)' = Addr(t)
      /\ pc'[t] # "idle" /\ pc[t] # "allocate" => call'[t].reg = call[t].reg
  BY StepAlone DEF Addr
<1>1. RegistersExclusive'
  BY DEF RegInv, RegistersExclusive
<1>2. \A a \in Addresses : InUse(a)' => InUse(a)
  BY <1>0 DEF InUse, Adding
<1>3. \A a \in Addresses : OwnRegister(a) => OwnRegister(a)'
  BY <1>2 DEF OwnRegister
<1>4. \A u \in Threads : RegisterFacts(u)'
  BY <1>0 DEF RegInv, RegisterFacts, Adding, PortAt
<1> QED BY <1>1, <1>2, <1>3, <1>4 DEF RegInv

\* add takes a register nothing counts in.
LEMMA AllocateRegInv ==
    ASSUME TypeOK, Solo, RegInv, NEW t \in Threads, AllocateRegister(t)
    PROVE  RegInv'
<1> Step(t)
  BY DEF Step
<1>0. /\ pc[t] = "allocate" /\ Addr(t) \in Addresses
      /\ \A u \in Threads : u # t => pc[u] = "idle" /\ pc'[u] = "idle"
      /\ pc'[t] # "idle" => Addr(t)' = Addr(t)
  BY StepAlone DEF Addr, AllocateRegister
<1>1. CASE Rollback(t) /\ UNCHANGED <<unused, registers>>
  <2>1. pc'[t] = "unforceIn"
    BY <1>1, Control
  <2> QED BY <1>1, <2>1, SameRegisters DEF AllocateRegister, tableVars, forceVars, ruleVars, Adding
<1>2. ASSUME NEW r \in Registers, TakeRegister(r), registers' = [registers EXCEPT ![Addr(t)] = r],
             call' = [call EXCEPT ![t].reg = r], pc' = [pc EXCEPT ![t] = "protect"]
      PROVE  RegInv'
  <2>1. r \in unused /\ unused' = unused \ {r}
    BY <1>2 DEF TakeRegister
  <2>2. UNCHANGED <<protect, registerToRules, rules, forceAuthorized>>
    BY DEF AllocateRegister, tableVars, forceVars, ruleVars
  <2>3. pc'[t] = "protect" /\ call'[t].reg = r
    BY <1>2 DEF TypeOK, ThreadsTypeOK, Call
  <2>4. registers'[Addr(t)] = r /\ \A a \in Addresses : a # Addr(t) => registers'[a] = registers[a]
    BY <1>0, <1>2 DEF TypeOK, ManagerTypeOK
  <2>5. RegistersExclusive'
    BY <2>1, <2>2 DEF RegInv, RegistersExclusive
  <2>6. \A a \in Addresses : a # Addr(t) => (InUse(a)' <=> InUse(a))
    BY <1>0, <2>2 DEF InUse, Adding
  <2>7. ASSUME NEW a \in Addresses, a = Addr(t) PROVE OwnRegister(a)'
    <3>1. \A b \in Addresses : b # Addr(t) /\ InUse(b) => registers[b] # r
      BY <2>1 DEF RegInv, OwnRegister
    <3> QED BY <2>1, <2>2, <2>4, <2>6, <2>7, <3>1 DEF RegInv, RegistersExclusive, OwnRegister
  <2>8. ASSUME NEW a \in Addresses, a # Addr(t), InUse(a) PROVE OwnRegister(a)'
    <3>1. OwnRegister(a) /\ registers[a] # r
      BY <2>1, <2>8 DEF RegInv, OwnRegister
    <3> QED BY <2>1, <2>2, <2>4, <2>6, <2>8, <3>1 DEF OwnRegister
  <2>9. \A u \in Threads : RegisterFacts(u)'
    BY <1>0, <2>3, <2>4 DEF RegisterFacts, Adding
  <2> QED BY <2>2, <2>5, <2>6, <2>7, <2>8, <2>9 DEF RegInv
<1> QED BY <1>1, <1>2 DEF AllocateRegister

\* The first entry of add counts in the register of add.
LEMMA InsertProtectRegInv ==
    ASSUME TypeOK, Solo, RegInv, NEW t \in Threads, InsertProtect(t)
    PROVE  RegInv'
<1> Step(t)
  BY DEF Step
<1>0. /\ pc[t] = "protect" /\ Addr(t) \in Addresses /\ PortAt(t) \in Ports
      /\ \A u \in Threads : u # t => pc[u] = "idle" /\ pc'[u] = "idle"
      /\ pc'[t] # "idle" => Addr(t)' = Addr(t) /\ call'[t].reg = call[t].reg
  BY StepAlone, BusyThread DEF Addr, InsertProtect
<1>1. pc'[t] \in {"validate", "unforceIn"}
  BY Control DEF InsertProtect, Write, Steps
<1>2. UNCHANGED <<unused, registers, registerToRules, rules, forceAuthorized>>
  BY DEF InsertProtect, registerVars, ruleVars, forceVars
<1>3. CASE protect' = protect
  BY <1>0, <1>1, <1>2, <1>3, SameRegisters DEF Adding
<1>4. CASE protect' = [protect EXCEPT ![PortAt(t)] = NewEntry(t)]
  <2>1. NewEntry(t).reg = registers[Addr(t)]
    BY <1>0 DEF NewEntry, RegInv, RegisterFacts, Adding
  <2>2. InUse(Addr(t)) /\ OwnRegister(Addr(t))
    BY <1>0 DEF RegInv, InUse, Adding
  <2>3. /\ protect'[PortAt(t)].reg = registers[Addr(t)]
        /\ \A q \in Ports : q # PortAt(t) => protect'[q] = protect[q]
    BY <1>0, <1>4, <2>1 DEF TypeOK, SwitchTypeOK
  <2>4. RegistersExclusive'
    BY <1>0, <1>2, <2>2, <2>3 DEF RegInv, RegistersExclusive, OwnRegister, PortAt
  <2>5. \A a \in Addresses : InUse(a)' => InUse(a)
    BY <1>0, <1>2 DEF InUse, Adding
  <2>6. \A a \in Addresses : OwnRegister(a) /\ InUse(a) => OwnRegister(a)'
    BY <1>0, <1>2, <2>2, <2>3, <2>5 DEF OwnRegister, PortAt
  <2>7. \A u \in Threads : RegisterFacts(u)'
    BY <1>0, <1>1, <1>2 DEF RegInv, RegisterFacts, Adding
  <2> QED BY <1>2, <2>4, <2>5, <2>6, <2>7 DEF RegInv
<1> QED BY <1>3, <1>4 DEF InsertProtect, Write

\* The steps that neither take nor return a register.
LEMMA QuietRegInv ==
    ASSUME TypeOK, Solo, RegInv, NEW t \in Threads,
           \/ InsertValidate(t) \/ ForceIn(t) \/ UnforceIn(t) \/ UnforceOut(t) \/ DeleteProtect(t)
    PROVE  RegInv'
<1> Step(t)
  BY DEF Step
<1>1. UNCHANGED <<unused, registers, registerToRules, rules>>
  BY DEF InsertValidate, ForceIn, UnforceIn, UnforceOut, DeleteProtect, registerVars, ruleVars
<1>2. Addr(t) \in Addresses
  BY StepAlone
<1>3. forceAuthorized' \subseteq forceAuthorized
  BY DEF InsertValidate, ForceIn, UnforceIn, UnforceOut, Unforced, DeleteProtect, Write, forceVars
<1>4. CASE InsertValidate(t) \/ ForceIn(t)
  <2>1. pc[t] \in Adding /\ pc'[t] \in {"forceIn", "forceOut", "unforceIn"}
    BY <1>4, Control DEF InsertValidate, ForceIn, Write, Adding, Steps
  <2>2. protect' = protect
    BY <1>4 DEF InsertValidate, ForceIn, tableVars
  <2> QED BY <1>1, <1>3, <2>1, <2>2, SameRegisters
<1>5. CASE UnforceIn(t)
  <2>1. pc'[t] \in {"unforceOut", "allocate", "idle"}
    BY <1>5, Control DEF UnforceIn, Write, Steps
  <2>2. protect' = protect
    BY <1>5 DEF UnforceIn, tableVars
  <2> QED BY <1>1, <1>3, <2>1, <2>2, SameRegisters DEF Adding
<1>6. CASE UnforceOut(t)
  <2>1. pc'[t] \in {"deleteProtect", "allocate", "idle"}
    BY <1>6, Control DEF UnforceOut, Unforced, Write, Steps
  <2>2. protect' = protect
    BY <1>6 DEF UnforceOut, tableVars
  <2>3. pc'[t] = "deleteProtect" => PortOf[Addr(t)] \in forceAuthorized
    BY <1>6, Control DEF UnforceOut, Unforced, Write, PortAt
  <2>4. pc'[t] = "deleteProtect" => rules[Addr(t)] # NoKey
    BY <1>2, <2>3 DEF RegInv
  <2>5. pc'[t] = "deleteProtect" => PortAt(t) \notin forceAuthorized'
    BY <1>6, Control DEF UnforceOut, Unforced, Write
  <2> QED BY <1>1, <1>3, <2>1, <2>2, <2>4, <2>5, SameRegisters DEF Adding
<1>7. CASE DeleteProtect(t)
  <2>1. pc[t] = "deleteProtect" /\ pc'[t] \in {"deleteValidate", "allocate", "idle"}
    BY <1>7, Control DEF DeleteProtect, Write, Steps
  <2>2. rules[Addr(t)] # NoKey /\ PortAt(t) \notin forceAuthorized'
    BY <1>3, <2>1 DEF RegInv, RegisterFacts
  <2>3. PortAt(t) \in Ports /\ protect \in [Ports -> Entry \union {NoEntry}]
    BY <2>1, BusyThread DEF TypeOK, SwitchTypeOK
  <2>4. \A q \in Ports : protect'[q] = NoEntry \/ protect'[q] = protect[q]
    BY <1>7, <2>3 DEF DeleteProtect, Write
  <2>5. pc'[t] = "deleteValidate" => protect'[PortAt(t)] = NoEntry
    <3>1. protect[PortAt(t)] = NoEntry => pc'[t] # "deleteValidate"
      BY <1>7, Control DEF DeleteProtect, Write
    <3>2. pc'[t] = "deleteValidate" => protect' = [protect EXCEPT ![PortAt(t)] = NoEntry]
      BY <1>7, <3>1, Control DEF DeleteProtect, Write
    <3> QED BY <2>3, <3>2
  <2> QED BY <1>1, <1>3, <2>1, <2>2, <2>4, <2>5, SameRegisters DEF Adding
<1> QED BY <1>4, <1>5, <1>6, <1>7

\* The last write of add: the address keeps the register it was given.
LEMMA ForceOutRegInv ==
    ASSUME Serial, TypeOK, Solo, RegInv, NEW t \in Threads, ForceOut(t)
    PROVE  RegInv'
<1> Step(t)
  BY DEF Step
<1>0. /\ pc[t] = "forceOut" /\ Addr(t) \in Addresses /\ PortAt(t) \in Ports
      /\ \A u \in Threads : u # t => pc[u] = "idle" /\ pc'[u] = "idle"
  BY StepAlone, BusyThread DEF ForceOut
<1>1. UNCHANGED <<protect, unused, registers>>
  BY DEF ForceOut, tableVars
<1>2. CASE Rollback(t) /\ UNCHANGED <<forceAuthorized, rules, registerToRules, keyState>>
  <2>1. pc'[t] = "unforceIn"
    BY <1>2, Control
  <2> QED BY <1>1, <1>2, <2>1, SameRegisters DEF Adding
<1>3. CASE Installed(t)
  <2>1. pc'[t] = "idle"
    BY <1>3, Control DEF Installed
  <2>2. /\ call[t].reg = registers[Addr(t)] /\ InUse(Addr(t)) /\ OwnRegister(Addr(t))
        /\ registers[Addr(t)] \in Registers \ unused
    BY <1>0 DEF RegInv, RegisterFacts, InUse, Adding, OwnRegister
  <2>3. /\ \A a \in Addresses : a # Addr(t) => rules'[a] = rules[a]
        /\ \A r \in Registers : r # registers[Addr(t)] => registerToRules'[r] = registerToRules[r]
    BY <1>0, <1>3, <2>2 DEF Installed, TypeOK, ManagerTypeOK
  <2>4. RegistersExclusive'
    <3>1. unused' \subseteq Registers
      BY <1>1 DEF TypeOK, ManagerTypeOK
    <3> QED BY <1>1, <2>2, <2>3, <3>1 DEF RegInv, RegistersExclusive
  <2>5. \A a \in Addresses : InUse(a)' => InUse(a)
    BY <1>0, <2>1, <2>2, <2>3 DEF InUse, Adding
  <2>6. \A a \in Addresses : OwnRegister(a) => OwnRegister(a)'
    BY <1>1, <2>5 DEF OwnRegister
  <2>7. \A u \in Threads : RegisterFacts(u)'
    BY <1>0, <2>1 DEF RegisterFacts, Adding
  <2>8. rules'[Addr(t)] # NoKey
    <3>1. call[t].key # NoKey
      BY <1>0 DEF Solo, Purpose, Adding
    <3> QED BY <1>0, <1>3, <3>1 DEF Installed, TypeOK, ManagerTypeOK
  <2>9. forceAuthorized' = forceAuthorized \union {PortOf[Addr(t)]}
    BY <1>3 DEF Installed, PortAt
  <2> QED BY <1>0, <2>3, <2>4, <2>5, <2>6, <2>7, <2>8, <2>9 DEF RegInv, Serial
<1> QED BY <1>2, <1>3 DEF ForceOut, Write

\* The last delete of remove returns the register, if the manager finds it.
LEMMA DeleteValidateRegInv ==
    ASSUME TypeOK, Solo, RegInv, NEW t \in Threads, DeleteValidate(t)
    PROVE  RegInv'
<1> Step(t)
  BY DEF Step
<1>0. /\ pc[t] = "deleteValidate" /\ Addr(t) \in Addresses /\ PortAt(t) \in Ports
      /\ \A u \in Threads : u # t => pc[u] = "idle" /\ pc'[u] = "idle"
  BY StepAlone, BusyThread DEF DeleteValidate
<1>1. UNCHANGED <<protect, registers, forceAuthorized>>
  BY DEF DeleteValidate, forceVars
<1>2. pc'[t] \in {"allocate", "idle"}
  BY Control DEF DeleteValidate
<1>3. CASE UNCHANGED <<registerToRules, unused, rules, keyState>>
  BY <1>1, <1>2, <1>3, SameRegisters DEF DeleteValidate, Adding
<1>4. CASE Forget(Addr(t)) /\ HoldsRegister(Addr(t))
  <2> DEFINE own == registers[Addr(t)]
  <2>1. /\ rules[Addr(t)] # NoKey /\ protect[PortAt(t)] = NoEntry
        /\ PortAt(t) \notin forceAuthorized
        /\ OwnRegister(Addr(t)) /\ own \in Registers
    BY <1>0 DEF RegInv, RegisterFacts, InUse, OwnRegister
  <2>2. /\ registerToRules' = [registerToRules EXCEPT ![own] = NoAddress]
        /\ unused' = unused \union {own}
        /\ rules' = [rules EXCEPT ![Addr(t)] = NoKey]
    BY <1>4 DEF Forget
  <2>3. /\ \A a \in Addresses : a # Addr(t) => rules'[a] = rules[a]
        /\ rules'[Addr(t)] = NoKey
        /\ \A r \in Registers : r # own => registerToRules'[r] = registerToRules[r]
        /\ registerToRules'[own] = NoAddress
    BY <1>0, <2>1, <2>2 DEF TypeOK, ManagerTypeOK
  <2>4. \A q \in Ports : protect[q] # NoEntry => protect[q].reg # own
    BY <2>1 DEF OwnRegister, PortAt
  <2> HIDE DEF own
  <2>5. RegistersExclusive'
    <3>1. unused \subseteq Registers
      BY DEF TypeOK, ManagerTypeOK
    <3> QED BY <1>1, <2>1, <2>2, <2>3, <2>4, <3>1 DEF RegInv, RegistersExclusive
  <2>6. \A a \in Addresses : InUse(a)' => InUse(a) /\ a # Addr(t)
    BY <1>0, <1>2, <2>3 DEF InUse, Adding
  <2>7. \A a \in Addresses : OwnRegister(a) /\ InUse(a) /\ a # Addr(t) => OwnRegister(a)'
    <3>1. \A a \in Addresses : InUse(a) /\ a # Addr(t) => registers[a] # own
      BY <2>1 DEF OwnRegister, own
    <3> QED BY <1>1, <2>2, <2>6, <3>1 DEF OwnRegister
  <2>8. \A u \in Threads : RegisterFacts(u)'
    BY <1>0, <1>2 DEF RegisterFacts, Adding
  <2> QED BY <1>0, <1>1, <2>1, <2>3, <2>5, <2>6, <2>7, <2>8 DEF RegInv, PortAt
<1> QED BY <1>3, <1>4 DEF DeleteValidate, Write, Forget

\* A renewal counts in the register of the address.
LEMMA ModifyRegInv ==
    ASSUME TypeOK, Solo, RegInv, NEW t \in Threads, Modify(t)
    PROVE  RegInv'
<1> Step(t)
  BY DEF Step
<1>0. /\ pc[t] = "modify" /\ Addr(t) \in Addresses /\ PortAt(t) \in Ports
      /\ \A u \in Threads : u # t => pc[u] = "idle" /\ pc'[u] = "idle"
      /\ pc'[t] = "idle"
  BY StepAlone, BusyThread, Control DEF Modify
<1>1. UNCHANGED <<unused, registers, registerToRules, forceAuthorized>>
  BY DEF Modify, forceVars, registerVars
<1>2. /\ rules[Addr(t)] # NoKey /\ OwnRegister(Addr(t)) /\ registers[Addr(t)] \notin unused
      /\ call[t].entry.reg = registers[Addr(t)] /\ call[t].key # NoKey
  BY <1>0 DEF RegInv, RegisterFacts, InUse, OwnRegister, Solo, Purpose
<1>3. \/ protect' = protect
      \/ /\ protect'[PortAt(t)].reg = registers[Addr(t)]
         /\ \A q \in Ports : q # PortAt(t) => protect'[q] = protect[q]
  BY <1>0, <1>2 DEF Modify, MayApply, Renewed, TypeOK, SwitchTypeOK
<1>4. \A a \in Addresses : rules'[a] # NoKey <=> rules[a] # NoKey
  BY <1>0, <1>2 DEF Modify, ModifyDone, ModifyRaised, TypeOK, ManagerTypeOK
<1>5. RegistersExclusive'
  BY <1>0, <1>1, <1>2, <1>3 DEF RegInv, RegistersExclusive, OwnRegister, PortAt
<1>6. \A a \in Addresses : InUse(a)' => InUse(a)
  BY <1>0, <1>4 DEF InUse, Adding
<1>7. InUse(Addr(t))
  BY <1>2 DEF InUse
<1>8. \A a \in Addresses : OwnRegister(a) /\ InUse(a) => OwnRegister(a)'
  <2>1. ASSUME NEW a \in Addresses, OwnRegister(a), InUse(a), NEW q \in Ports, q # PortOf[a],
               protect'[q] # NoEntry
        PROVE  protect'[q].reg # registers[a]
    BY <1>0, <1>2, <1>3, <2>1 DEF OwnRegister, PortAt
  <2> QED BY <1>1, <1>6, <2>1 DEF OwnRegister
<1>9. \A u \in Threads : RegisterFacts(u)'
  BY <1>0 DEF RegisterFacts, Adding
<1> QED BY <1>1, <1>4, <1>5, <1>6, <1>8, <1>9 DEF RegInv

\* A call takes no register; renew looks one up.
LEMMA ArriveRegInv ==
    ASSUME Serial, TypeOK, Solo, RegInv, NEW t \in Threads, Arrive(t)
    PROVE  RegInv'
<1>1. PICK a \in Addresses : CallAdd(t, a) \/ CallRemove(t, a) \/ CallRenew(t, a)
  BY DEF Arrive
<1>2. UNCHANGED <<protect, unused, registers, registerToRules, rules, forceAuthorized>>
  BY <1>1 DEF CallAdd, CallRemove, CallRenew, tableVars, forceVars, registerVars, ruleVars
<1>3. /\ \A u \in Threads : u # t => pc'[u] = "idle"
      /\ Addr(t)' = a /\ pc'[t] \in {"allocate", "unforceIn", "modify"}
      /\ pc'[t] = "modify" => rules[a] # NoKey /\ call'[t].entry = RenewedEntry(a, calls + 1)
  <2>1. CASE CallAdd(t, a) \/ CallRemove(t, a)
    BY <1>1, <2>1, ArriveAlone
  <2>2. CASE CallRenew(t, a)
    <3>1. rules[a] # NoKey
      BY <2>2 DEF CallRenew, HasRule
    <3>2. call'[t].entry = RenewedEntry(a, calls + 1)
      BY <2>2, ArriveAlone
    <3> QED BY <2>2, <3>1, <3>2, ArriveAlone
  <2> QED BY <1>1, <2>1, <2>2
<1>4. RegistersExclusive'
  BY <1>2 DEF RegInv, RegistersExclusive
<1>5. \A b \in Addresses : InUse(b)' => InUse(b)
  BY <1>2, <1>3 DEF InUse, Adding
<1>6. \A b \in Addresses : OwnRegister(b) => OwnRegister(b)'
  BY <1>2, <1>5 DEF OwnRegister
<1>7. \A u \in Threads : RegisterFacts(u)'
  <2>1. RenewedEntry(a, calls + 1).reg = registers[a]
    BY DEF RenewedEntry
  <2> QED BY <1>2, <1>3, <2>1 DEF RegisterFacts, Adding
<1> QED BY <1>2, <1>4, <1>5, <1>6, <1>7 DEF RegInv

\* Every step keeps the registers apart.
LEMMA NextRegInv ==
    ASSUME Serial, TypeOK, Solo, RegInv, [Next]_vars
    PROVE  RegInv'
<1>1. ASSUME NEW t \in Threads, Step(t) PROVE RegInv'
  BY <1>1, AllocateRegInv, InsertProtectRegInv, QuietRegInv, ForceOutRegInv, DeleteValidateRegInv,
     ModifyRegInv DEF Step
<1>2. ASSUME Limits \/ UNCHANGED vars PROVE RegInv'
  <2>1. UNCHANGED <<protect, registerVars, rules, forceAuthorized, pc, call>>
    BY <1>2 DEF Limits, SoftTimeLimit, DropRenew, RefuseRenew, SoftPacketLimit, vars, tableVars, forceVars, ruleVars
  <2> QED BY <2>1 DEF RegInv, RegistersExclusive, InUse, OwnRegister, RegisterFacts, PortAt, Addr,
           registerVars
<1> QED BY <1>1, <1>2, ArriveRegInv DEF Next, Limits

\* Nothing is installed when the controller starts.
LEMMA InitRegInv == ASSUME Serial, Init PROVE RegInv
BY DEF Init, RegInv, RegistersExclusive, InUse, RegisterFacts, Adding, Serial

-----------------------------------------------------------------------------
(* Keys, and the writes of one handler.                                    *)

\* A step of t leaves the other ports and addresses alone.
Elsewhere(t) ==
    /\ \A q \in Ports : q # PortAt(t) =>
          /\ protect'[q] = protect[q] /\ validate'[q] = validate[q]
          /\ q \in forcedIn' <=> q \in forcedIn
          /\ q \in forcedOut' <=> q \in forcedOut
          /\ q \in forceAuthorized' <=> q \in forceAuthorized
    /\ \A b \in Addresses : b # Addr(t) =>
          /\ rules'[b] = rules[b] /\ keyState'[b] = keyState[b] /\ registers'[b] = registers[b]
          /\ b \in timers' <=> b \in timers
    /\ UNCHANGED <<topology, renewals>> /\ (looping' => looping)
    /\ failures' = failures \/ failures' # 0

\* Every step of a handler stays on its port and address.
LEMMA StepElsewhere ==
    ASSUME TypeOK, NEW t \in Threads, Step(t)
    PROVE  Elsewhere(t)
<1>0. Addr(t) \in Addresses /\ PortAt(t) \in Ports
  BY BusyThread, StepControl
<1>1. failures \in Nat
  BY DEF TypeOK, ManagerTypeOK
<1>2. /\ protect \in [Ports -> Entry \union {NoEntry}] /\ validate \in [Ports -> Entry \union {NoEntry}]
      /\ registers \in [Addresses -> Registers \union {NoRegister}] /\ rules \in [Addresses -> Nat]
      /\ keyState \in [Addresses -> KeyStates]
  BY DEF TypeOK, SwitchTypeOK, ManagerTypeOK
<1> USE <1>0, <1>1, <1>2 DEF Write, Fail, Elsewhere, tableVars, forceVars, registerVars, ruleVars, globalVars
<1>3. CASE AllocateRegister(t)
  BY <1>3 DEF AllocateRegister
<1>4. CASE InsertProtect(t)
  BY <1>4 DEF InsertProtect
<1>5. CASE InsertValidate(t)
  BY <1>5 DEF InsertValidate
<1>6. CASE ForceIn(t)
  BY <1>6 DEF ForceIn
<1>7. CASE ForceOut(t)
  BY <1>7 DEF ForceOut, Installed
<1>8. CASE UnforceIn(t)
  BY <1>8 DEF UnforceIn
<1>9. CASE UnforceOut(t)
  BY <1>9 DEF UnforceOut, Unforced
<1>10. CASE DeleteProtect(t)
  BY <1>10 DEF DeleteProtect
<1>11. CASE DeleteValidate(t)
  BY <1>11 DEF DeleteValidate, Forget
<1>12. CASE Modify(t)
  <2>1. looping' => looping
    BY <1>12 DEF Modify, RaiseTo
  <2>2. failures' = failures \/ failures' # 0
    BY <1>12 DEF Modify
  <2> HIDE DEF Write
  <2> QED BY <1>12, <2>1, <2>2 DEF Modify, ModifyDone, ModifyRaised, MayApply, Renewed
<1> QED BY <1>3, <1>4, <1>5, <1>6, <1>7, <1>8, <1>9, <1>10, <1>11, <1>12 DEF Step

\* What a thread relies on: the entries it wrote hold its key, and those it is
\* to write hold the rule's too.
KeyFacts(t) ==
    /\ pc[t] \in {"validate", "forceIn", "forceOut"} =>
          protect[PortAt(t)] # NoEntry /\ call[t].key \in Keys(protect[PortAt(t)])
    /\ pc[t] \in {"forceIn", "forceOut"} =>
          validate[PortAt(t)] # NoEntry /\ call[t].key \in Keys(validate[PortAt(t)])
    /\ pc[t] = "modify" => {rules[Addr(t)], call[t].key} \subseteq Keys(call[t].entry)

\* CurrentKeyInstalled, for one address.
KeyAt(a) ==
    PortOf[a] \in forceAuthorized =>
        /\ Secured(PortOf[a])
        /\ rules[a] \in Keys(protect[PortOf[a]])
        /\ rules[a] \in Keys(validate[PortOf[a]])

KeyInv == (\A a \in Addresses : KeyAt(a)) /\ (\A t \in Threads : KeyFacts(t))

\* A step owes the invariant only for its own address.
LEMMA KeyStep ==
    ASSUME Serial, TypeOK, Solo, KeyInv, NEW t \in Threads, Step(t), KeyFacts(t)',
           \A a \in Addresses : a = Addr(t) => KeyAt(a)'
    PROVE  KeyInv'
<1>0. /\ Addr(t) \in Addresses /\ Elsewhere(t)
      /\ \A u \in Threads : u # t => pc'[u] = "idle"
  BY StepAlone, StepElsewhere
<1>1. ASSUME NEW a \in Addresses, a # Addr(t) PROVE KeyAt(a)'
  <2>1. PortOf[a] # PortAt(t) /\ PortOf[a] \in Ports
    BY <1>0, <1>1, LocalMacsecAssumption DEF Serial, PortAt
  <2> QED BY <1>0, <1>1, <2>1 DEF KeyInv, KeyAt, Elsewhere, Secured
<1>2. \A u \in Threads : KeyFacts(u)'
  BY <1>0 DEF KeyFacts
<1> QED BY <1>1, <1>2 DEF KeyInv

\* add writes its key into both tables before the port is opened.
LEMMA AddKeyInv ==
    ASSUME Serial, TypeOK, Solo, RegInv, KeyInv, NEW t \in Threads,
           \/ AllocateRegister(t) \/ InsertProtect(t) \/ InsertValidate(t) \/ ForceIn(t) \/ ForceOut(t)
    PROVE  KeyInv'
<1> Step(t)
  BY DEF Step
<1>0. /\ Addr(t) \in Addresses /\ PortAt(t) \in Ports /\ PortAt(t) = PortOf[Addr(t)]
      /\ protect \in [Ports -> Entry \union {NoEntry}] /\ validate \in [Ports -> Entry \union {NoEntry}]
      /\ KeyAt(Addr(t)) /\ KeyFacts(t)
  BY StepAlone, BusyThread DEF KeyInv, PortAt, TypeOK, SwitchTypeOK
<1>1. pc'[t] # "idle" => PortAt(t)' = PortAt(t) /\ call'[t].key = call[t].key
  BY StepAlone DEF PortAt, Addr
<1>2. call[t].key \in Keys(NewEntry(t))
  BY DEF NewEntry, Keys
<1>3. CASE AllocateRegister(t)
  <2>1. pc'[t] \in {"protect", "unforceIn"}
    BY <1>3, Control DEF AllocateRegister, TypeOK, ThreadsTypeOK
  <2>2. UNCHANGED <<protect, validate, rules, forceAuthorized>>
    BY <1>3 DEF AllocateRegister, tableVars, forceVars, ruleVars
  <2> QED BY <1>0, <2>1, <2>2, KeyStep DEF KeyFacts, KeyAt, Secured
<1>4. CASE InsertProtect(t)
  <2>1. pc'[t] \in {"validate", "unforceIn"}
    BY <1>4, Control DEF InsertProtect, Write, Steps
  <2>2. UNCHANGED <<validate, rules, forceAuthorized>>
    BY <1>4 DEF InsertProtect, forceVars, ruleVars
  <2>3. pc[t] = "protect" /\ NewEntry(t) # NoEntry
    BY <1>4, NewEntryType, LocalMacsecAssumption DEF InsertProtect, Entry
  <2>4. \/ protect' = protect /\ pc'[t] = "unforceIn"
        \/ protect[PortAt(t)] = NoEntry /\ protect' = [protect EXCEPT ![PortAt(t)] = NewEntry(t)]
    BY <1>4, Control DEF InsertProtect, Write, MayInsert
  <2>5. protect[PortAt(t)] = NoEntry => PortAt(t) \notin forceAuthorized
    BY <1>0 DEF KeyAt, Secured
  <2>6. KeyFacts(t)'
    BY <1>0, <1>1, <1>2, <2>1, <2>3, <2>4 DEF KeyFacts
  <2>7. \A a \in Addresses : a = Addr(t) => KeyAt(a)'
    BY <1>0, <2>2, <2>4, <2>5 DEF KeyAt, Secured
  <2> QED BY <2>6, <2>7, KeyStep
<1>5. CASE InsertValidate(t)
  <2>1. pc'[t] \in {"forceIn", "unforceIn"}
    BY <1>5, Control DEF InsertValidate, Write, Steps
  <2>2. UNCHANGED <<protect, rules, forceAuthorized>>
    BY <1>5 DEF InsertValidate, forceVars, ruleVars
  <2>3. pc[t] = "validate" /\ NewEntry(t) # NoEntry
    BY <1>5, NewEntryType, LocalMacsecAssumption DEF InsertValidate, Entry
  <2>4. \/ validate' = validate /\ pc'[t] = "unforceIn"
        \/ validate[PortAt(t)] = NoEntry /\ validate' = [validate EXCEPT ![PortAt(t)] = NewEntry(t)]
    BY <1>5, Control DEF InsertValidate, Write, MayInsert
  <2>5. validate[PortAt(t)] = NoEntry => PortAt(t) \notin forceAuthorized
    BY <1>0 DEF KeyAt, Secured
  <2>6. KeyFacts(t)'
    BY <1>0, <1>1, <1>2, <2>1, <2>2, <2>3, <2>4 DEF KeyFacts
  <2>7. \A a \in Addresses : a = Addr(t) => KeyAt(a)'
    BY <1>0, <2>2, <2>4, <2>5 DEF KeyAt, Secured
  <2> QED BY <2>6, <2>7, KeyStep
<1>6. CASE ForceIn(t)
  <2>1. pc[t] = "forceIn" /\ pc'[t] \in {"forceOut", "unforceIn"}
    BY <1>6, Control DEF ForceIn, Write, Steps
  <2>2. UNCHANGED <<protect, validate, rules, forceAuthorized>>
    BY <1>6 DEF ForceIn, tableVars, ruleVars
  <2>3. KeyFacts(t)'
    BY <1>0, <1>1, <2>1, <2>2 DEF KeyFacts
  <2> QED BY <1>0, <2>2, <2>3, KeyStep DEF KeyAt, Secured
<1>7. CASE ForceOut(t)
  <2>1. pc[t] = "forceOut" /\ pc'[t] \in {"idle", "unforceIn"}
    BY <1>7, Control DEF ForceOut, Installed, Write, Steps
  <2>2. UNCHANGED <<protect, validate>>
    BY <1>7 DEF ForceOut, tableVars
  <2>3. \/ UNCHANGED <<rules, forceAuthorized>>
        \/ rules'[Addr(t)] = call[t].key
    BY <1>0, <1>7 DEF ForceOut, Installed, Write, TypeOK, ManagerTypeOK
  <2>4. KeyFacts(t)'
    BY <2>1 DEF KeyFacts
  <2>5. \A a \in Addresses : a = Addr(t) => KeyAt(a)'
    BY <1>0, <2>1, <2>2, <2>3 DEF KeyAt, KeyFacts, Secured
  <2> QED BY <2>4, <2>5, KeyStep
<1> QED BY <1>3, <1>4, <1>5, <1>6, <1>7

\* remove gives the port up before it deletes an entry.
LEMMA RemoveKeyInv ==
    ASSUME Serial, TypeOK, Solo, RegInv, KeyInv, NEW t \in Threads,
           \/ UnforceIn(t) \/ UnforceOut(t) \/ DeleteProtect(t) \/ DeleteValidate(t)
    PROVE  KeyInv'
<1> Step(t)
  BY DEF Step
<1>0. Addr(t) \in Addresses /\ PortAt(t) = PortOf[Addr(t)] /\ KeyAt(Addr(t)) /\ RegisterFacts(t)
  BY StepAlone DEF KeyInv, RegInv, PortAt
<1>1. pc'[t] \in {"unforceOut", "deleteProtect", "deleteValidate", "allocate", "idle"}
  BY Control DEF UnforceIn, UnforceOut, Unforced, DeleteProtect, DeleteValidate, Write, Steps
<1>2. KeyFacts(t)'
  BY <1>1 DEF KeyFacts
<1>3. CASE UnforceIn(t) \/ UnforceOut(t)
  <2>1. UNCHANGED <<protect, validate, rules>> /\ forceAuthorized' \subseteq forceAuthorized
    BY <1>3 DEF UnforceIn, UnforceOut, Unforced, Write, tableVars, ruleVars
  <2> QED BY <1>0, <1>2, <2>1, KeyStep DEF KeyAt, Secured
<1>4. CASE DeleteProtect(t) \/ DeleteValidate(t)
  <2>1. PortAt(t) \notin forceAuthorized'
    BY <1>0, <1>4 DEF RegisterFacts, DeleteProtect, DeleteValidate, forceVars
  <2> QED BY <1>0, <1>2, <2>1, KeyStep DEF KeyAt
<1> QED BY <1>3, <1>4

\* A renewal, however it fails, keeps the key of the rule in both tables.
LEMMA ModifyKeyInv ==
    ASSUME Serial, TypeOK, Solo, RegInv, KeyInv, NEW t \in Threads, Modify(t)
    PROVE  KeyInv'
<1> Step(t)
  BY DEF Step
<1>0. /\ Addr(t) \in Addresses /\ PortAt(t) \in Ports /\ PortAt(t) = PortOf[Addr(t)]
      /\ protect \in [Ports -> Entry \union {NoEntry}] /\ validate \in [Ports -> Entry \union {NoEntry}]
      /\ KeyAt(Addr(t)) /\ KeyFacts(t)
  BY StepAlone, BusyThread DEF KeyInv, PortAt, TypeOK, SwitchTypeOK
<1>1. pc[t] = "modify" /\ pc'[t] = "idle"
  BY Control DEF Modify
<1>2. KeyFacts(t)'
  BY <1>1 DEF KeyFacts
<1>3. call[t].entry # NoEntry /\ forceAuthorized' = forceAuthorized
  BY <1>1, LocalMacsecAssumption DEF Modify, forceVars, TypeOK, ThreadsTypeOK, LocalsOK, Entry
<1>4. \/ /\ protect'[PortAt(t)] = call[t].entry /\ validate'[PortAt(t)] = call[t].entry
         /\ rules'[Addr(t)] = call[t].key
      \/ /\ protect'[PortAt(t)] \in {protect[PortAt(t)], call[t].entry}
         /\ validate'[PortAt(t)] \in {validate[PortAt(t)], call[t].entry}
         /\ rules' = rules
  BY <1>0 DEF Modify, ModifyDone, ModifyRaised, MayApply, Renewed, TypeOK, ManagerTypeOK
<1>5. \A a \in Addresses : a = Addr(t) => KeyAt(a)'
  BY <1>0, <1>1, <1>3, <1>4 DEF KeyAt, KeyFacts, Secured
<1> QED BY <1>2, <1>5, KeyStep

\* What renew is to write holds the rule's key beside its own.
LEMMA ArriveKeyInv ==
    ASSUME Serial, TypeOK, Solo, KeyInv, NEW t \in Threads, Arrive(t)
    PROVE  KeyInv'
<1>1. PICK a \in Addresses : CallAdd(t, a) \/ CallRemove(t, a) \/ CallRenew(t, a)
  BY DEF Arrive
<1>2. UNCHANGED <<protect, validate, rules, forceAuthorized>>
  BY <1>1 DEF CallAdd, CallRemove, CallRenew, tableVars, forceVars, ruleVars
<1>3. /\ \A u \in Threads : u # t => pc'[u] = "idle"
      /\ Addr(t)' = a /\ pc'[t] \in {"allocate", "unforceIn", "modify"}
  BY <1>1, ArriveAlone
<1>4. pc'[t] = "modify" => call'[t].key = calls + 1 /\ call'[t].entry = RenewedEntry(a, calls + 1)
  <2>1. CASE CallAdd(t, a) \/ CallRemove(t, a)
    BY <1>1, <2>1, ArriveAlone
  <2>2. CASE CallRenew(t, a)
    BY <2>2, ArriveAlone
  <2> QED BY <1>1, <2>1, <2>2
<1>5. {rules[a], calls + 1} \subseteq Keys(RenewedEntry(a, calls + 1))
  BY DEF RenewedEntry, Keys, Toggle
<1>6. \A u \in Threads : KeyFacts(u)'
  BY <1>2, <1>3, <1>4, <1>5 DEF KeyFacts
<1>7. \A b \in Addresses : KeyAt(b)'
  BY <1>2 DEF KeyInv, KeyAt, Secured
<1> QED BY <1>6, <1>7 DEF KeyInv

\* Every step keeps the keys.
LEMMA NextKeyInv ==
    ASSUME Serial, TypeOK, Solo, RegInv, KeyInv, [Next]_vars
    PROVE  KeyInv'
<1>1. ASSUME NEW t \in Threads, Step(t) PROVE KeyInv'
  BY <1>1, AddKeyInv, RemoveKeyInv, ModifyKeyInv DEF Step
<1>2. ASSUME Limits \/ UNCHANGED vars PROVE KeyInv'
  <2>1. UNCHANGED <<protect, validate, rules, forceAuthorized, pc, call>>
    BY <1>2 DEF Limits, SoftTimeLimit, DropRenew, RefuseRenew, SoftPacketLimit, vars, tableVars, forceVars, ruleVars
  <2> QED BY <2>1 DEF KeyInv, KeyAt, KeyFacts, Secured, PortAt, Addr
<1> QED BY <1>1, <1>2, ArriveKeyInv DEF Next, Limits

\* No port of an address is open when the controller starts.
LEMMA InitKeyInv == ASSUME Serial, Init PROVE KeyInv
BY DEF Init, KeyInv, KeyAt, KeyFacts, Serial

-----------------------------------------------------------------------------
(* While no call is lost, a port is whole - closed and without entries, or *)
(* open with both - except in the middle of a handler, where it is as the  *)
(* step of the handler says.                                               *)

\* Which of the five are in place: entries in protect and validate, ingress,
\* egress, and the authorizer's note that it holds the port open.
Stage(p, inProtect, inValidate, isIn, isOut, isHeld) ==
    /\ protect[p] # NoEntry <=> inProtect
    /\ validate[p] # NoEntry <=> inValidate
    /\ p \in forcedIn <=> isIn
    /\ p \in forcedOut <=> isOut
    /\ p \in forceAuthorized <=> isHeld

Closed(p) == Stage(p, FALSE, FALSE, FALSE, FALSE, FALSE)
Opened(p) == Stage(p, TRUE, TRUE, TRUE, TRUE, TRUE)
Whole(p)  == Closed(p) \/ Opened(p)

StageAt(p, step) ==
    /\ step = "validate"       => Stage(p, TRUE, FALSE, FALSE, FALSE, FALSE)
    /\ step = "forceIn"        => Stage(p, TRUE, TRUE, FALSE, FALSE, FALSE)
    /\ step = "forceOut"       => Stage(p, TRUE, TRUE, TRUE, FALSE, FALSE)
    /\ step = "unforceOut"     => Stage(p, TRUE, TRUE, FALSE, TRUE, TRUE)
    /\ step = "deleteProtect"  => Stage(p, TRUE, TRUE, FALSE, FALSE, FALSE)
    /\ step = "deleteValidate" => Stage(p, FALSE, TRUE, FALSE, FALSE, FALSE)
    /\ step \notin Changing    => Whole(p)

StageInv ==
    failures = 0 =>
        \A a \in Addresses :
            /\ (\A t \in Threads : Addr(t) # a) => Whole(PortOf[a])
            /\ \A t \in Threads : Addr(t) = a => StageAt(PortOf[a], pc[t])

\* A step owes the invariant only for its own address.
LEMMA StageStep ==
    ASSUME Serial, TypeOK, Solo, StageInv, NEW t \in Threads, Step(t),
           failures' = 0 =>
               (StageAt(PortAt(t), pc[t]) /\ failures = 0 =>
                   \A p \in Ports : p = PortAt(t) => StageAt(p, pc[t])')
    PROVE  StageInv'
<1> SUFFICES ASSUME failures' = 0, NEW a \in Addresses
             PROVE  /\ (\A u \in Threads : Addr(u)' # a) => Whole(PortOf[a])'
                    /\ \A u \in Threads : Addr(u)' = a => StageAt(PortOf[a], pc[u])'
  BY DEF StageInv
<1>0. /\ Addr(t) \in Addresses /\ PortAt(t) = PortOf[Addr(t)] /\ PortAt(t) \in Ports /\ Elsewhere(t)
      /\ \A u \in Threads : u # t => Addr(u) = NoAddress /\ Addr(u)' = NoAddress
      /\ pc'[t] # "idle" => Addr(t)' = Addr(t)
      /\ pc'[t] = "idle" => Addr(t)' = NoAddress
  BY StepAlone, StepElsewhere, BusyThread DEF Addr, PortAt, NoCall
<1>1. failures = 0 /\ NoAddress \notin Addresses
  BY <1>0, LocalMacsecAssumption DEF Elsewhere
<1>2. CASE a = Addr(t)
  <2>1. StageAt(PortOf[a], pc[t])'
    BY <1>0, <1>1, <1>2 DEF StageInv
  <2>2. pc'[t] = "idle" => Whole(PortOf[a])'
    BY <2>1 DEF StageAt, Changing
  <2> QED BY <1>0, <1>1, <1>2, <2>1, <2>2
<1>3. CASE a # Addr(t)
  <2>1. PortOf[a] # PortAt(t) /\ PortOf[a] \in Ports
    BY <1>0, <1>3, LocalMacsecAssumption DEF Serial
  <2>2. Whole(PortOf[a])
    BY <1>0, <1>1, <1>3 DEF StageInv
  <2>3. Whole(PortOf[a])'
    BY <1>0, <2>1, <2>2 DEF Whole, Closed, Opened, Stage, Elsewhere
  <2> QED BY <1>0, <1>1, <1>3, <2>3
<1> QED BY <1>2, <1>3

\* Where a step of add takes its port when no call is lost.
LEMMA AddStage ==
    ASSUME TypeOK, NEW t \in Threads, NEW p \in Ports, p = PortAt(t), failures = 0, failures' = 0,
           StageAt(p, pc[t]),
           \/ AllocateRegister(t) \/ InsertProtect(t) \/ InsertValidate(t) \/ ForceIn(t) \/ ForceOut(t)
    PROVE  StageAt(p, pc[t])'
<1>0. /\ protect \in [Ports -> Entry \union {NoEntry}] /\ validate \in [Ports -> Entry \union {NoEntry}]
  BY DEF TypeOK, SwitchTypeOK
<1> failures' # failures + 1
  OBVIOUS
<1>1. CASE AllocateRegister(t)
  <2>1. pc[t] = "allocate" /\ pc'[t] \in {"protect", "unforceIn"}
    BY <1>1, Control DEF AllocateRegister, TypeOK, ThreadsTypeOK
  <2>2. UNCHANGED <<protect, validate, forcedIn, forcedOut, forceAuthorized>>
    BY <1>1 DEF AllocateRegister, tableVars, forceVars
  <2> QED BY <2>1, <2>2 DEF StageAt, Whole, Closed, Opened, Stage, Changing
<1>2. CASE InsertProtect(t)
  <2>1. pc[t] = "protect" /\ NewEntry(t) # NoEntry
    BY <1>2, NewEntryType, LocalMacsecAssumption DEF InsertProtect, Entry
  <2>2. UNCHANGED <<validate, forcedIn, forcedOut, forceAuthorized>>
    BY <1>2 DEF InsertProtect, forceVars
  <2>3. \/ protect[p] = NoEntry /\ protect' = [protect EXCEPT ![p] = NewEntry(t)] /\ pc'[t] = "validate"
        \/ protect[p] # NoEntry /\ protect' = protect /\ pc'[t] = "unforceIn"
    BY <1>2, Control DEF InsertProtect, Write, Fail, MayInsert, Steps
  <2> QED BY <1>0, <2>1, <2>2, <2>3 DEF StageAt, Whole, Closed, Opened, Stage, Changing
<1>3. CASE InsertValidate(t)
  <2>1. pc[t] = "validate" /\ NewEntry(t) # NoEntry
    BY <1>3, NewEntryType, LocalMacsecAssumption DEF InsertValidate, Entry
  <2>2. UNCHANGED <<protect, forcedIn, forcedOut, forceAuthorized>>
    BY <1>3 DEF InsertValidate, forceVars
  <2>3. \/ validate[p] = NoEntry /\ validate' = [validate EXCEPT ![p] = NewEntry(t)] /\ pc'[t] = "forceIn"
        \/ validate[p] # NoEntry
    BY <1>3, Control DEF InsertValidate, Write, Fail, MayInsert, Steps
  <2> QED BY <1>0, <2>1, <2>2, <2>3 DEF StageAt, Whole, Closed, Opened, Stage, Changing
<1>4. CASE ForceIn(t)
  <2>1. pc[t] = "forceIn" /\ UNCHANGED <<protect, validate, forcedOut, forceAuthorized>>
    BY <1>4 DEF ForceIn, tableVars
  <2>2. \/ p \notin forcedIn /\ forcedIn' = forcedIn \union {p} /\ pc'[t] = "forceOut"
        \/ p \in forcedIn
    BY <1>4, Control DEF ForceIn, Write, Fail, Steps
  <2> QED BY <2>1, <2>2 DEF StageAt, Whole, Closed, Opened, Stage, Changing
<1>5. CASE ForceOut(t)
  <2>1. pc[t] = "forceOut" /\ UNCHANGED <<protect, validate, forcedIn>>
    BY <1>5 DEF ForceOut, tableVars
  <2>2. \/ /\ p \notin forcedOut /\ forcedOut' = forcedOut \union {p} /\ pc'[t] = "idle"
           /\ forceAuthorized' = forceAuthorized \union {p}
        \/ p \in forcedOut
    BY <1>5, Control DEF ForceOut, Installed, Write, Fail, Steps
  <2> QED BY <2>1, <2>2 DEF StageAt, Whole, Closed, Opened, Stage, Changing
<1> QED BY <1>1, <1>2, <1>3, <1>4, <1>5

\* Where a step of remove takes its port when no call is lost.
LEMMA RemoveStage ==
    ASSUME TypeOK, NEW t \in Threads, NEW p \in Ports, p = PortAt(t), failures = 0, failures' = 0,
           StageAt(p, pc[t]),
           \/ UnforceIn(t) \/ UnforceOut(t) \/ DeleteProtect(t) \/ DeleteValidate(t)
    PROVE  StageAt(p, pc[t])'
<1>0. /\ protect \in [Ports -> Entry \union {NoEntry}] /\ validate \in [Ports -> Entry \union {NoEntry}]
  BY DEF TypeOK, SwitchTypeOK
<1> failures' # failures + 1
  OBVIOUS
<1>1. CASE UnforceIn(t)
  <2>1. pc[t] = "unforceIn" /\ UNCHANGED <<protect, validate, forcedOut, forceAuthorized>>
    BY <1>1 DEF UnforceIn, tableVars
  <2>2. \/ p \in forcedIn /\ forcedIn' = forcedIn \ {p} /\ pc'[t] = "unforceOut"
        \/ p \notin forcedIn /\ forcedIn' = forcedIn /\ pc'[t] \in {"allocate", "idle"}
    BY <1>1, Control DEF UnforceIn, Write, Fail, Steps
  <2> QED BY <2>1, <2>2 DEF StageAt, Whole, Closed, Opened, Stage, Changing
<1>2. CASE UnforceOut(t)
  <2>1. pc[t] = "unforceOut" /\ UNCHANGED <<protect, validate, forcedIn>>
    BY <1>2 DEF UnforceOut, tableVars
  <2>2. \/ /\ p \in forcedOut /\ forcedOut' = forcedOut \ {p} /\ pc'[t] = "deleteProtect"
           /\ forceAuthorized' = forceAuthorized \ {p}
        \/ p \notin forcedOut \/ p \notin forceAuthorized
    BY <1>2, Control DEF UnforceOut, Unforced, Write, Fail, Steps
  <2> QED BY <2>1, <2>2 DEF StageAt, Whole, Closed, Opened, Stage, Changing
<1>3. CASE DeleteProtect(t)
  <2>1. pc[t] = "deleteProtect" /\ UNCHANGED <<validate, forcedIn, forcedOut, forceAuthorized>>
    BY <1>3 DEF DeleteProtect, forceVars
  <2>2. \/ protect' = [protect EXCEPT ![p] = NoEntry] /\ pc'[t] = "deleteValidate"
        \/ protect[p] = NoEntry
    BY <1>3, Control DEF DeleteProtect, Write, Fail, Steps
  <2> QED BY <1>0, <2>1, <2>2 DEF StageAt, Whole, Closed, Opened, Stage, Changing
<1>4. CASE DeleteValidate(t)
  <2>1. pc[t] = "deleteValidate" /\ UNCHANGED <<protect, forcedIn, forcedOut, forceAuthorized>>
    BY <1>4 DEF DeleteValidate, forceVars
  <2>2. \/ validate' = [validate EXCEPT ![p] = NoEntry]
        \/ validate[p] = NoEntry
    BY <1>4 DEF DeleteValidate, Write, Fail
  <2>3. pc'[t] \in {"allocate", "idle"}
    BY <1>4, Control DEF DeleteValidate
  <2> QED BY <1>0, <2>1, <2>2, <2>3 DEF StageAt, Whole, Closed, Opened, Stage, Changing
<1> QED BY <1>1, <1>2, <1>3, <1>4

\* A renewal changes what the entries hold, never whether there are any.
LEMMA ModifyStage ==
    ASSUME TypeOK, NEW t \in Threads, NEW p \in Ports, p = PortAt(t), StageAt(p, pc[t]), Modify(t)
    PROVE  StageAt(p, pc[t])'
<1>1. pc[t] = "modify" /\ pc'[t] = "idle" /\ UNCHANGED <<forcedIn, forcedOut, forceAuthorized>>
  BY Control DEF Modify, forceVars
<1>2. call[t].entry # NoEntry
  BY <1>1, LocalMacsecAssumption DEF TypeOK, ThreadsTypeOK, LocalsOK, Entry
<1>3. /\ protect' = protect \/ (protect[p] # NoEntry /\ protect' = Renewed(protect, t))
      /\ validate' = validate \/ (validate[p] # NoEntry /\ validate' = Renewed(validate, t))
  BY DEF Modify, MayApply
<1>4. /\ protect'[p] # NoEntry <=> protect[p] # NoEntry
      /\ validate'[p] # NoEntry <=> validate[p] # NoEntry
  BY <1>2, <1>3 DEF TypeOK, SwitchTypeOK, Renewed
<1> QED BY <1>1, <1>4 DEF StageAt, Whole, Closed, Opened, Stage, Changing

\* Every step keeps the stages.
LEMMA NextStageInv ==
    ASSUME Serial, TypeOK, Solo, StageInv, [Next]_vars
    PROVE  StageInv'
<1>1. ASSUME NEW t \in Threads, Step(t) PROVE StageInv'
  <2>1. ASSUME failures = 0, failures' = 0, StageAt(PortAt(t), pc[t]), NEW p \in Ports, p = PortAt(t)
        PROVE  StageAt(p, pc[t])'
    BY <1>1, <2>1, AddStage, RemoveStage, ModifyStage DEF Step
  <2> QED BY <1>1, <2>1, StageStep
<1>2. ASSUME NEW t \in Threads, Arrive(t) PROVE StageInv'
  <2>1. PICK a \in Addresses : CallAdd(t, a) \/ CallRemove(t, a) \/ CallRenew(t, a)
    BY <1>2 DEF Arrive
  <2>2. UNCHANGED <<protect, validate, forcedIn, forcedOut, forceAuthorized, failures>>
    BY <2>1 DEF CallAdd, CallRemove, CallRenew, tableVars, forceVars
  <2>3. /\ \A u \in Threads : Addr(u) = NoAddress
        /\ \A u \in Threads : u # t => Addr(u)' = NoAddress
        /\ Addr(t)' = a /\ pc'[t] \notin Changing
    <3>1. pc'[t] \in {"allocate", "unforceIn", "modify"} /\ Addr(t)' = a
      BY <2>1, ArriveAlone
    <3>2. NoCall.addr = NoAddress
      BY DEF NoCall
    <3>3. \A u \in Threads : call[u] = NoCall /\ (u # t => call'[u] = NoCall)
      BY <2>1, ArriveAlone
    <3> QED BY <3>1, <3>2, <3>3 DEF Addr, Changing
  <2>4. failures = 0 => \A b \in Addresses : Whole(PortOf[b])
    BY <2>3, LocalMacsecAssumption DEF StageInv
  <2>5. failures' = 0 => \A b \in Addresses : Whole(PortOf[b])'
    BY <2>2, <2>4 DEF Whole, Closed, Opened, Stage
  <2> QED BY <2>3, <2>5, LocalMacsecAssumption DEF StageInv, StageAt, Changing
<1>3. ASSUME Limits \/ UNCHANGED vars PROVE StageInv'
  <2>1. UNCHANGED <<protect, validate, forcedIn, forcedOut, forceAuthorized, pc, call>>
    BY <1>3 DEF Limits, SoftTimeLimit, DropRenew, RefuseRenew, SoftPacketLimit, vars, tableVars, forceVars
  <2>2. failures' = 0 => failures = 0
    BY <1>3 DEF Limits, SoftTimeLimit, DropRenew, RefuseRenew, SoftPacketLimit, Notify, Fail, vars, TypeOK, ManagerTypeOK
  <2> QED BY <2>1, <2>2 DEF StageInv, StageAt, Whole, Closed, Opened, Stage, Addr
<1> QED BY <1>1, <1>2, <1>3 DEF Next, Limits

\* All ports of addresses are closed when the controller starts.
LEMMA InitStageInv == ASSUME Serial, Init PROVE StageInv
BY LocalMacsecAssumption
   DEF Init, StageInv, StageAt, Whole, Closed, Opened, Stage, Addr, NoCall, Changing, Serial

-----------------------------------------------------------------------------
(* While no call is lost, the time limit of an open edge is set.           *)

Removing(a) == \E t \in Threads : call[t].op = "remove" /\ Addr(t) = a

ArmAt(a) ==
    PortOf[a] \in forceAuthorized =>
        /\ HasRule(a)
        /\ a \in topology \/ Removing(a)
        /\ a \in topology /\ looping => a \in timers \/ <<a, "time">> \in renewals \/ Renewing(a, "time")

\* What a thread relies on: add and renew run for an edge of the topology, and
\* add with the time limit set.
ArmFacts(t) ==
    /\ call[t].op \in {"add", "renew"} => Addr(t) \in topology
    /\ pc[t] \in Adding => Addr(t) \in timers

ArmInv ==
    failures = 0 => (\A a \in Addresses : ArmAt(a)) /\ (\A t \in Threads : ArmFacts(t))

\* A step owes the invariant only for its own address.
LEMMA ArmStep ==
    ASSUME Serial, TypeOK, Solo, ArmInv, NEW t \in Threads, Step(t),
           failures = 0 /\ failures' = 0 =>
               ArmFacts(t)' /\ (\A a \in Addresses : a = Addr(t) => ArmAt(a)')
    PROVE  ArmInv'
<1> SUFFICES ASSUME failures' = 0 PROVE (\A a \in Addresses : ArmAt(a)') /\ (\A u \in Threads : ArmFacts(u)')
  BY DEF ArmInv
<1>0. /\ Addr(t) \in Addresses /\ PortAt(t) = PortOf[Addr(t)] /\ Elsewhere(t)
      /\ \A u \in Threads : u # t => call[u] = NoCall /\ call'[u] = NoCall /\ pc'[u] = "idle"
      /\ call'[t].addr \in {Addr(t), NoAddress}
  <2>1. NoCall.addr = NoAddress
    BY DEF NoCall
  <2> QED BY <2>1, StepAlone, StepElsewhere DEF Addr, PortAt
<1>1. failures = 0 /\ NoAddress \notin Addresses /\ NoCall.op = "none"
  BY <1>0, LocalMacsecAssumption DEF Elsewhere, NoCall
<1>2. ASSUME NEW a \in Addresses, a # Addr(t) PROVE ArmAt(a)'
  <2>1. PortOf[a] # PortAt(t) /\ PortOf[a] \in Ports
    BY <1>0, <1>2, LocalMacsecAssumption DEF Serial
  <2>2. ~Removing(a) /\ ~Renewing(a, "time")
    BY <1>0, <1>1, <1>2 DEF Removing, Renewing, Addr
  <2>3. ArmAt(a)
    BY <1>1 DEF ArmInv
  <2>4. /\ PortOf[a] \in forceAuthorized' <=> PortOf[a] \in forceAuthorized
        /\ HasRule(a)' <=> HasRule(a)
        /\ a \in timers' <=> a \in timers
        /\ UNCHANGED <<topology, renewals>> /\ (looping' => looping)
    BY <1>0, <1>2, <2>1 DEF Elsewhere, HasRule
  <2> QED BY <2>2, <2>3, <2>4 DEF ArmAt
<1>3. \A u \in Threads : u # t => ArmFacts(u)'
  BY <1>0, <1>1 DEF ArmFacts, Adding
<1> QED BY <1>1, <1>2, <1>3

\* A step that neither changes what is known of a rule nor ends a handler on
\* an open port.
LEMMA SameArm ==
    ASSUME TypeOK, Solo, NEW t \in Threads, Step(t), NEW a \in Addresses, a = Addr(t), ArmAt(a),
           PortOf[a] \in forceAuthorized' => PortOf[a] \in forceAuthorized /\ pc'[t] # "idle",
           HasRule(a) => HasRule(a)',
           a \in timers => a \in timers'
    PROVE  ArmAt(a)'
<1>0. UNCHANGED <<topology, renewals>> /\ (looping' => looping) /\ (\A u \in Threads : u # t => call'[u] = call[u])
  BY StepAlone, StepElsewhere DEF Elsewhere
<1>1. pc'[t] # "idle" => call'[t].op = call[t].op /\ call'[t].addr = call[t].addr /\ call'[t].by = call[t].by
  BY StepAlone
<1>2. pc'[t] # "idle" => (Removing(a)' <=> Removing(a)) /\ (Renewing(a, "time")' <=> Renewing(a, "time"))
  BY <1>0, <1>1 DEF Removing, Renewing, Addr
<1> QED BY <1>0, <1>2 DEF ArmAt

\* add arms the time limit before it opens the port.
LEMMA AddArm ==
    ASSUME TypeOK, Solo, RegInv, NEW t \in Threads, NEW a \in Addresses, a = Addr(t),
           ArmAt(a), ArmFacts(t),
           \/ AllocateRegister(t) \/ InsertProtect(t) \/ InsertValidate(t) \/ ForceIn(t) \/ ForceOut(t)
    PROVE  ArmFacts(t)' /\ ArmAt(a)'
<1> Step(t)
  BY DEF Step
<1>0. /\ pc'[t] # "idle" => Addr(t)' = a /\ call'[t].op = call[t].op
      /\ pc'[t] = "idle" => call'[t].op = "none"
      /\ UNCHANGED topology
  BY StepAlone, StepElsewhere DEF Addr, NoCall, Elsewhere
<1>1. CASE AllocateRegister(t)
  <2>1. pc'[t] \in {"protect", "unforceIn"}
    BY <1>1, Control DEF AllocateRegister, TypeOK, ThreadsTypeOK
  <2>2. UNCHANGED <<forceAuthorized, rules, keyState>>
    BY <1>1 DEF AllocateRegister, forceVars, ruleVars
  <2>3. CASE Rollback(t) /\ UNCHANGED <<unused, registers, timers>>
    <3>1. pc'[t] = "unforceIn"
      BY <2>3, Control
    <3>2. ArmAt(a)'
      BY <2>2, <2>3, <3>1, SameArm DEF HasRule
    <3> QED BY <1>0, <3>1, <3>2 DEF ArmFacts, Adding
  <2>4. ASSUME NEW r \in Registers, registers' = [registers EXCEPT ![Addr(t)] = r],
               timers' = timers \union {Addr(t)}
        PROVE  ArmFacts(t)' /\ ArmAt(a)'
    <3>1. registers'[a] # NoRegister
      BY <2>4, LocalMacsecAssumption DEF TypeOK, ManagerTypeOK
    <3>2. ArmAt(a)'
      BY <2>1, <2>2, <2>4, <3>1, SameArm DEF HasRule
    <3> QED BY <1>0, <2>1, <2>4, <3>2 DEF ArmFacts
  <2> QED BY <1>1, <2>3, <2>4 DEF AllocateRegister
<1>2. CASE InsertProtect(t) \/ InsertValidate(t) \/ ForceIn(t)
  <2>1. pc[t] \in Adding /\ pc'[t] # "idle"
    BY <1>2, Control DEF InsertProtect, InsertValidate, ForceIn, Write, Fail, Adding, Steps
  <2>2. UNCHANGED <<forceAuthorized, rules, keyState, registers, timers>>
    BY <1>2 DEF InsertProtect, InsertValidate, ForceIn, forceVars, ruleVars, registerVars
  <2>3. ArmAt(a)'
    BY <2>1, <2>2, SameArm DEF HasRule
  <2> QED BY <1>0, <2>1, <2>2, <2>3 DEF ArmFacts
<1>3. CASE ForceOut(t)
  <2>1. pc[t] = "forceOut" /\ UNCHANGED <<registers, timers, topology>>
    BY <1>3 DEF ForceOut, globalVars
  <2>2. CASE Rollback(t) /\ UNCHANGED <<forceAuthorized, rules, registerToRules, keyState>>
    <3>1. pc'[t] = "unforceIn"
      BY <2>2, Control
    <3>2. ArmAt(a)'
      BY <2>1, <2>2, <3>1, SameArm DEF HasRule
    <3> QED BY <1>0, <3>1, <3>2 DEF ArmFacts, Adding
  <2>3. CASE Installed(t)
    <3>1. pc'[t] = "idle"
      BY <2>3, Control DEF Installed
    <3>2. a \in topology /\ a \in timers
      BY <2>1 DEF ArmFacts, Solo, Purpose, Adding
    <3>3. registers[a] # NoRegister
      BY <2>1, LocalMacsecAssumption DEF RegInv, InUse, OwnRegister, Adding
    <3>4. call[t].key # NoKey
      BY <2>1 DEF Solo, Purpose, Adding
    <3>5. rules'[a] # NoKey /\ keyState'[a] = "KEY1"
      BY <2>3, <3>4 DEF Installed, TypeOK, ManagerTypeOK
    <3>6. HasRule(a)'
      BY <2>1, <3>3, <3>5 DEF HasRule
    <3>7. ArmAt(a)'
      BY <2>1, <3>2, <3>6 DEF ArmAt
    <3> QED BY <1>0, <3>1, <3>7 DEF ArmFacts, Adding
  <2> QED BY <1>3, <2>2, <2>3 DEF ForceOut, Write, Fail
<1> QED BY <1>1, <1>2, <1>3

\* remove ends with the port closed, when no call is lost.
LEMMA RemoveArm ==
    ASSUME TypeOK, Solo, NEW t \in Threads, NEW a \in Addresses, a = Addr(t),
           ArmAt(a), ArmFacts(t), failures = 0, failures' = 0, StageAt(PortAt(t), pc[t]),
           \/ UnforceIn(t) \/ UnforceOut(t) \/ DeleteProtect(t) \/ DeleteValidate(t)
    PROVE  ArmFacts(t)' /\ ArmAt(a)'
<1> Step(t)
  BY DEF Step
<1> failures' # failures + 1
  OBVIOUS
<1>0. /\ pc'[t] # "idle" => Addr(t)' = a /\ call'[t].op = call[t].op
      /\ pc'[t] = "idle" => call'[t].op = "none"
      /\ UNCHANGED topology /\ PortAt(t) = PortOf[a]
  BY StepAlone, StepElsewhere DEF Addr, NoCall, Elsewhere, PortAt
<1>1. pc'[t] \in {"unforceOut", "deleteProtect", "deleteValidate", "allocate", "idle"}
  BY Control DEF UnforceIn, UnforceOut, Unforced, DeleteProtect, DeleteValidate, Write, Fail, Steps
<1>2. ArmFacts(t)'
  BY <1>0, <1>1 DEF ArmFacts, Adding
<1>3. CASE UnforceIn(t)
  <2>1. pc[t] = "unforceIn" /\ UNCHANGED <<forceAuthorized, rules, keyState, registers, timers>>
    BY <1>3 DEF UnforceIn, forceVars, ruleVars, registerVars
  <2>2. PortAt(t) \notin forcedIn \/ pc'[t] # "idle"
    BY <1>3, Control DEF UnforceIn, Write, Fail, Steps
  <2>3. PortAt(t) \notin forcedIn => PortAt(t) \notin forceAuthorized
    BY <2>1 DEF StageAt, Whole, Closed, Opened, Stage, Changing
  <2>4. ArmAt(a)'
    BY <1>0, <2>1, <2>2, <2>3, SameArm DEF HasRule
  <2> QED BY <1>2, <2>4
<1>4. CASE UnforceOut(t)
  <2>1. pc[t] = "unforceOut" /\ UNCHANGED <<rules, keyState, registers, timers>>
    BY <1>4 DEF UnforceOut, ruleVars, registerVars
  <2>2. PortAt(t) \in forcedOut /\ PortAt(t) \in forceAuthorized
    BY <2>1 DEF StageAt, Stage
  <2>3. PortAt(t) \notin forceAuthorized'
    BY <1>4, <2>2 DEF UnforceOut, Unforced, Write, Fail
  <2>4. ArmAt(a)'
    BY <1>0, <2>3 DEF ArmAt
  <2> QED BY <1>2, <2>4
<1>5. CASE DeleteProtect(t) \/ DeleteValidate(t)
  <2>1. pc[t] \in {"deleteProtect", "deleteValidate"} /\ UNCHANGED forceAuthorized
    BY <1>5 DEF DeleteProtect, DeleteValidate, forceVars
  <2>2. ArmAt(a)'
    BY <1>0, <2>1 DEF ArmAt, StageAt, Stage
  <2> QED BY <1>2, <2>2
<1> QED BY <1>3, <1>4, <1>5

\* A renewal of an open edge succeeds, and sets the time limit again.
LEMMA ModifyArm ==
    ASSUME TypeOK, Solo, RegInv, NEW t \in Threads, NEW a \in Addresses, a = Addr(t),
           ArmAt(a), failures = 0, failures' = 0, StageAt(PortAt(t), pc[t]), Modify(t)
    PROVE  ArmFacts(t)' /\ ArmAt(a)'
<1> Step(t)
  BY DEF Step
<1> failures' # failures + 1
  OBVIOUS
<1>0. /\ pc[t] = "modify" /\ pc'[t] = "idle" /\ call'[t].op = "none" /\ PortAt(t) = PortOf[a]
      /\ call[t].op = "renew" /\ call[t].key # NoKey
  <2>1. pc[t] = "modify" /\ Return(t)
    BY DEF Modify
  <2>2. pc'[t] = "idle" /\ call'[t].op = "none"
    <3>1. NoCall.op = "none"
      BY DEF NoCall
    <3> QED BY <2>1, <3>1, Control
  <2> QED BY <2>1, <2>2 DEF PortAt, Addr, Solo, Purpose
<1>1. UNCHANGED <<forceAuthorized, keyState, registers, topology>>
  BY DEF Modify, forceVars, registerVars, globalVars
<1>2. ArmFacts(t)'
  BY <1>0 DEF ArmFacts, Adding
<1>3. ~Removing(a)
  BY <1>0 DEF Removing, Solo, NoCall
<1>4. ASSUME PortOf[a] \in forceAuthorized PROVE a \in timers' /\ rules'[a] # NoKey
  <2>1. protect[PortAt(t)] # NoEntry /\ validate[PortAt(t)] # NoEntry
    BY <1>0, <1>4 DEF StageAt, Whole, Closed, Opened, Stage, Changing
  <2>2. ModifyDone(t)
    BY <2>1 DEF Modify, Fail
  <2> QED BY <1>0, <2>2 DEF ModifyDone, TypeOK, ManagerTypeOK
<1>5. ArmAt(a)'
  BY <1>1, <1>3, <1>4 DEF ArmAt, HasRule
<1> QED BY <1>2, <1>5

\* A call of the global controller.
LEMMA ArriveArm ==
    ASSUME Serial, TypeOK, Solo, ArmInv, NEW t \in Threads, Arrive(t)
    PROVE  ArmInv'
<1>1. PICK a \in Addresses : CallAdd(t, a) \/ CallRemove(t, a) \/ CallRenew(t, a)
  BY DEF Arrive
<1> SUFFICES ASSUME failures = 0 PROVE (\A b \in Addresses : ArmAt(b)') /\ (\A u \in Threads : ArmFacts(u)')
  BY <1>1 DEF ArmInv, CallAdd, CallRemove, CallRenew
<1>2. UNCHANGED <<forceAuthorized, rules, registers, timers, looping>>
  BY <1>1 DEF CallAdd, CallRemove, CallRenew, forceVars, registerVars, ruleVars
<1>3. /\ \A u \in Threads : call[u].op = "none" /\ (u # t => call'[u].op = "none" /\ pc'[u] = "idle")
      /\ Addr(t)' = a /\ pc'[t] \in {"allocate", "unforceIn", "modify"}
  <2>1. NoCall.op = "none"
    BY DEF NoCall
  <2> QED BY <1>1, <2>1, ArriveAlone
<1>4. \A b \in Addresses : ~Removing(b) /\ ~Renewing(b, "time") /\ ArmAt(b)
  BY <1>3 DEF Removing, Renewing, ArmInv
<1>5. CASE CallAdd(t, a)
  <2>1. topology' = topology \union {a} /\ UNCHANGED <<keyState, renewals>>
    BY <1>5 DEF CallAdd, ruleVars
  <2>2. \A u \in Threads : ArmFacts(u)'
    BY <1>3, <1>5, <2>1, ArriveAlone DEF ArmFacts, Adding
  <2>3. ASSUME NEW b \in Addresses PROVE ArmAt(b)'
    BY <1>2, <1>4, <2>1 DEF ArmAt, HasRule
  <2> QED BY <2>2, <2>3
<1>6. CASE CallRemove(t, a)
  <2>1. topology' \in {topology, topology \ {a}} /\ UNCHANGED <<keyState, renewals>>
    BY <1>6 DEF CallRemove, ruleVars
  <2>2. call'[t].op = "remove"
    BY <1>6, ArriveAlone DEF NoCall
  <2>3. \A u \in Threads : ArmFacts(u)'
    BY <1>3, <2>2 DEF ArmFacts, Adding
  <2>4. Removing(a)'
    BY <1>3, <2>2 DEF Removing
  <2>5. ASSUME NEW b \in Addresses PROVE ArmAt(b)'
    BY <1>2, <1>4, <2>1, <2>4 DEF ArmAt, HasRule
  <2> QED BY <2>3, <2>5
<1>7. CASE CallRenew(t, a)
  <2>1. a \in topology /\ keyState' = [keyState EXCEPT ![a] = Toggle(@)] /\ UNCHANGED topology
    BY <1>7 DEF CallRenew
  <2>2. call'[t].op = "renew" /\ call'[t].addr = a /\ renewals' = renewals \ {<<a, call'[t].by>>}
    BY <1>7, ArriveAlone
  <2>3. \A u \in Threads : ArmFacts(u)'
    BY <1>3, <2>1, <2>2 DEF ArmFacts, Adding
  <2>4. <<a, "time">> \in renewals => <<a, "time">> \in renewals' \/ Renewing(a, "time")'
    BY <2>2 DEF Renewing
  <2>5. \A b \in Addresses : HasRule(b) => HasRule(b)'
    BY <1>2, <2>1 DEF HasRule, Toggle, TypeOK, ManagerTypeOK
  <2>6. \A b \in Addresses : b # a /\ <<b, "time">> \in renewals => <<b, "time">> \in renewals'
    BY <2>2
  <2>7. ASSUME NEW b \in Addresses PROVE ArmAt(b)'
    BY <1>2, <1>4, <2>1, <2>4, <2>5, <2>6 DEF ArmAt
  <2> QED BY <2>3, <2>7
<1> QED BY <1>1, <1>5, <1>6, <1>7

\* A limit that runs out becomes a notification; one for an open edge of the
\* topology is neither dropped nor refused.
LEMMA LimitArm ==
    ASSUME Serial, TypeOK, ArmInv, Limits
    PROVE  ArmInv'
<1>1. UNCHANGED <<forceAuthorized, rules, keyState, registers, topology, pc, call>>
  BY DEF Limits, SoftTimeLimit, DropRenew, RefuseRenew, SoftPacketLimit, forceVars, registerVars, ruleVars
<1> failures \in Nat
  BY DEF TypeOK, ManagerTypeOK
<1> SUFFICES ASSUME failures' = 0 PROVE (\A b \in Addresses : ArmAt(b)') /\ (\A u \in Threads : ArmFacts(u)')
  BY DEF ArmInv
<1>2. ~Fail
  BY DEF Fail
<1>3. failures = 0
  BY <1>2 DEF Limits, SoftTimeLimit, DropRenew, RefuseRenew, SoftPacketLimit, Notify
<1>4. \A b \in Addresses : /\ Removing(b)' <=> Removing(b)
                           /\ Renewing(b, "time")' <=> Renewing(b, "time")
                           /\ HasRule(b)' <=> HasRule(b)
  BY <1>1 DEF Removing, Renewing, HasRule, Addr
<1>5. (\A b \in Addresses : ArmAt(b)) /\ (\A u \in Threads : ArmFacts(u))
  BY <1>3 DEF ArmInv
<1>6. ASSUME NEW a \in Addresses, SoftTimeLimit(a)
      PROVE  /\ Cardinality(Active) < MaxActive /\ looping' = looping
             /\ timers' = timers \ {a} /\ renewals' = renewals \union {<<a, "time">>}
  BY <1>2, <1>6 DEF SoftTimeLimit, Notify
<1>7. ASSUME NEW a \in Addresses, DropRenew(a) \/ RefuseRenew(a)
      PROVE  /\ timers' = timers /\ (looping' => looping)
             /\ \A b \in Addresses : b # a /\ <<b, "time">> \in renewals => <<b, "time">> \in renewals'
             /\ a \notin topology \/ ~HasRule(a)
  <2>1. \A by \in Askers : renewals' = renewals \ {<<a, by>>} =>
          \A b \in Addresses : b # a /\ <<b, "time">> \in renewals => <<b, "time">> \in renewals'
    OBVIOUS
  <2>2. CASE DropRenew(a)
    BY <2>1, <2>2 DEF DropRenew
  <2>3. CASE RefuseRenew(a)
    <3>1. timers' = timers /\ ~HasRule(a)
      BY <1>2, <2>3 DEF RefuseRenew
    <3>2. looping' => looping
      BY <2>3 DEF RefuseRenew, RaiseTo
    <3> QED BY <2>1, <2>3, <3>1, <3>2 DEF RefuseRenew
  <2> QED BY <1>7, <2>2, <2>3
<1>8. ASSUME NEW p \in Ports, SoftPacketLimit(p)
      PROVE  renewals \subseteq renewals' /\ timers' = timers /\ looping' = looping
  BY <1>2, <1>8 DEF SoftPacketLimit, Notify
<1>9. ASSUME NEW b \in Addresses PROVE ArmAt(b)'
  <2>1. ASSUME NEW a \in Addresses, SoftTimeLimit(a) PROVE ArmAt(b)'
    BY <1>1, <1>4, <1>5, <1>6, <2>1 DEF ArmAt
  <2>2. ASSUME NEW a \in Addresses, DropRenew(a) \/ RefuseRenew(a) PROVE ArmAt(b)'
    <3>1. CASE b = a
      BY <1>1, <1>4, <1>5, <1>7, <2>2, <3>1 DEF ArmAt
    <3>2. CASE b # a
      BY <1>1, <1>4, <1>5, <1>7, <2>2, <3>2 DEF ArmAt
    <3> QED BY <3>1, <3>2
  <2>3. ASSUME NEW p \in Ports, SoftPacketLimit(p) PROVE ArmAt(b)'
    BY <1>1, <1>4, <1>5, <1>8, <2>3 DEF ArmAt
  <2> QED BY <2>1, <2>2, <2>3 DEF Limits
<1>10. ASSUME NEW u \in Threads PROVE ArmFacts(u)'
  <2>1. Addr(u)' = Addr(u)
    BY <1>1 DEF Addr
  <2>2. \A a \in Addresses : SoftTimeLimit(a) => pc[u] = "idle"
    BY <1>6, NoneRuns
  <2>3. (\E a \in Addresses : SoftTimeLimit(a)) \/ timers' = timers
    BY <1>7, <1>8 DEF Limits
  <2> QED BY <1>1, <1>5, <2>1, <2>2, <2>3 DEF ArmFacts, Adding
<1> QED BY <1>9, <1>10

\* Every step keeps the time limits.
LEMMA NextArmInv ==
    ASSUME Serial, TypeOK, Solo, RegInv, StageInv, ArmInv, [Next]_vars
    PROVE  ArmInv'
<1>1. ASSUME NEW t \in Threads, Step(t) PROVE ArmInv'
  <2>0. Addr(t) \in Addresses
    BY <1>1, StepAlone
  <2>1. ASSUME failures = 0, failures' = 0, NEW a \in Addresses, a = Addr(t) PROVE ArmFacts(t)' /\ ArmAt(a)'
    <3>1. ArmAt(a) /\ ArmFacts(t)
      BY <2>1 DEF ArmInv
    <3>2. StageAt(PortAt(t), pc[t])
      BY <2>1 DEF StageInv, PortAt
    <3> QED BY <1>1, <2>1, <3>1, <3>2, AddArm, RemoveArm, ModifyArm DEF Step
  <2> QED BY <1>1, <2>0, <2>1, ArmStep
<1>2. CASE UNCHANGED vars
  BY <1>2 DEF vars, ArmInv, ArmAt, ArmFacts, HasRule, Removing, Renewing, Addr, forceVars,
              registerVars, ruleVars, globalVars
<1> QED BY <1>1, <1>2, ArriveArm, LimitArm DEF Next, Limits

\* No port of an address is open when the controller starts.
LEMMA InitArmInv == ASSUME Serial, Init PROVE ArmInv
BY DEF Init, ArmInv, ArmAt, ArmFacts, NoCall, Adding, Serial

-----------------------------------------------------------------------------
(* While no call is lost, the key state names the slot of the rule's key,  *)
(* and during a renewal the other one.                                     *)

Other(slot) == IF slot = "KEY1" THEN "KEY2" ELSE "KEY1"

\* A renewal of the address is under way.
InRenewal(a) == \E t \in Threads : call[t].op = "renew" /\ call[t].addr = a

SlotAt(a) ==
    PortOf[a] \in forceAuthorized /\ ~InRenewal(a) => SlotKey(protect[PortOf[a]], keyState[a]) = rules[a]

\* What a thread relies on.
SlotFacts(t) ==
    /\ pc[t] \in {"validate", "forceIn", "forceOut"} => protect[PortAt(t)].key1 = call[t].key
    /\ pc[t] = "modify" =>
          LET kept == Other(keyState[Addr(t)])
          IN  /\ PortAt(t) \in forceAuthorized => SlotKey(protect[PortAt(t)], kept) = rules[Addr(t)]
              /\ SlotKey(call[t].entry, kept) = rules[Addr(t)]
              /\ SlotKey(call[t].entry, keyState[Addr(t)]) = call[t].key

SlotInv ==
    failures = 0 => (\A a \in Addresses : SlotAt(a)) /\ (\A t \in Threads : SlotFacts(t))

\* A step owes the invariant only for its own address.
LEMMA SlotStep ==
    ASSUME Serial, TypeOK, Solo, SlotInv, NEW t \in Threads, Step(t),
           failures = 0 /\ failures' = 0 =>
               SlotFacts(t)' /\ (\A a \in Addresses : a = Addr(t) => SlotAt(a)')
    PROVE  SlotInv'
<1> SUFFICES ASSUME failures' = 0 PROVE (\A a \in Addresses : SlotAt(a)') /\ (\A u \in Threads : SlotFacts(u)')
  BY DEF SlotInv
<1>0. /\ Addr(t) \in Addresses /\ PortAt(t) = PortOf[Addr(t)] /\ Elsewhere(t)
      /\ \A u \in Threads : u # t => call[u] = NoCall /\ call'[u] = NoCall /\ pc'[u] = "idle"
  BY StepAlone, StepElsewhere DEF Addr, PortAt
<1>1. failures = 0 /\ NoCall.op = "none"
  BY <1>0 DEF Elsewhere, NoCall
<1>2. ASSUME NEW a \in Addresses, a # Addr(t) PROVE SlotAt(a)'
  <2>1. PortOf[a] # PortAt(t) /\ PortOf[a] \in Ports
    BY <1>0, <1>2, LocalMacsecAssumption DEF Serial
  <2>2. ~InRenewal(a)
    BY <1>0, <1>1, <1>2 DEF InRenewal, Addr
  <2>3. SlotAt(a)
    BY <1>1 DEF SlotInv
  <2>4. /\ PortOf[a] \in forceAuthorized' <=> PortOf[a] \in forceAuthorized
        /\ protect'[PortOf[a]] = protect[PortOf[a]]
        /\ keyState'[a] = keyState[a] /\ rules'[a] = rules[a]
    BY <1>0, <1>2, <2>1 DEF Elsewhere
  <2> QED BY <2>2, <2>3, <2>4 DEF SlotAt
<1>3. \A u \in Threads : u # t => SlotFacts(u)'
  BY <1>0 DEF SlotFacts
<1> QED BY <1>1, <1>2, <1>3

\* A step that leaves the keys of its address alone, or its port given up.
LEMMA SameSlot ==
    ASSUME TypeOK, Solo, NEW t \in Threads, Step(t), NEW a \in Addresses, a = Addr(t), SlotAt(a),
           pc[t] # "modify",
           PortOf[a] \in forceAuthorized' =>
               /\ PortOf[a] \in forceAuthorized
               /\ protect'[PortOf[a]] = protect[PortOf[a]]
               /\ keyState'[a] = keyState[a] /\ rules'[a] = rules[a]
    PROVE  SlotAt(a)'
<1>1. call[t].op # "renew"
  BY DEF Solo, Purpose
<1>2. NoCall.op = "none"
  BY DEF NoCall
<1>3. ~InRenewal(a)
  BY <1>1, <1>2, StepAlone DEF InRenewal
<1> QED BY <1>3 DEF SlotAt

\* add begins with its key in the first slot, and says so at the end.
LEMMA AddSlot ==
    ASSUME TypeOK, Solo, KeyInv, NEW t \in Threads, NEW a \in Addresses, a = Addr(t),
           SlotAt(a), SlotFacts(t),
           \/ AllocateRegister(t) \/ InsertProtect(t) \/ InsertValidate(t) \/ ForceIn(t) \/ ForceOut(t)
    PROVE  SlotFacts(t)' /\ SlotAt(a)'
<1> Step(t)
  BY DEF Step
<1>0. /\ PortAt(t) = PortOf[a] /\ PortAt(t) \in Ports
      /\ protect \in [Ports -> Entry \union {NoEntry}]
  BY StepAlone, BusyThread DEF PortAt, TypeOK, SwitchTypeOK
<1>1. pc'[t] # "idle" => PortAt(t)' = PortAt(t) /\ call'[t].key = call[t].key
  BY StepAlone DEF PortAt, Addr
<1>2. CASE AllocateRegister(t)
  <2>1. pc[t] = "allocate" /\ pc'[t] \in {"protect", "unforceIn"}
    BY <1>2, Control DEF AllocateRegister, TypeOK, ThreadsTypeOK
  <2>2. UNCHANGED <<protect, rules, keyState, forceAuthorized>>
    BY <1>2 DEF AllocateRegister, tableVars, forceVars, ruleVars
  <2>3. SlotAt(a)'
    BY <2>1, <2>2, SameSlot
  <2> QED BY <2>1, <2>3 DEF SlotFacts
<1>3. CASE InsertProtect(t)
  <2>1. pc[t] = "protect" /\ pc'[t] \in {"validate", "unforceIn"}
    BY <1>3, Control DEF InsertProtect, Write, Fail, Steps
  <2>2. UNCHANGED <<rules, keyState, forceAuthorized>>
    BY <1>3 DEF InsertProtect, forceVars, ruleVars
  <2>3. \/ protect' = protect /\ pc'[t] = "unforceIn"
        \/ protect[PortAt(t)] = NoEntry /\ protect' = [protect EXCEPT ![PortAt(t)] = NewEntry(t)]
    BY <1>3, Control DEF InsertProtect, Write, Fail, MayInsert
  <2>4. protect[PortOf[a]] = NoEntry => PortOf[a] \notin forceAuthorized
    BY DEF KeyInv, KeyAt, Secured
  <2>5. SlotAt(a)'
    BY <1>0, <2>1, <2>2, <2>3, <2>4, SameSlot
  <2>6. NewEntry(t).key1 = call[t].key
    BY DEF NewEntry
  <2>7. SlotFacts(t)'
    BY <1>0, <1>1, <2>1, <2>3, <2>6 DEF SlotFacts
  <2> QED BY <2>5, <2>7
<1>4. CASE InsertValidate(t) \/ ForceIn(t)
  <2>1. pc[t] \in {"validate", "forceIn"} /\ pc'[t] \in {"forceIn", "forceOut", "unforceIn"}
    BY <1>4, Control DEF InsertValidate, ForceIn, Write, Fail, Steps
  <2>2. UNCHANGED <<protect, rules, keyState, forceAuthorized>>
    BY <1>4 DEF InsertValidate, ForceIn, tableVars, forceVars, ruleVars
  <2>3. SlotAt(a)'
    BY <2>1, <2>2, SameSlot
  <2>4. SlotFacts(t)'
    BY <1>1, <2>1, <2>2 DEF SlotFacts
  <2> QED BY <2>3, <2>4
<1>5. CASE ForceOut(t)
  <2>1. pc[t] = "forceOut" /\ UNCHANGED protect /\ pc'[t] \in {"idle", "unforceIn"}
    BY <1>5, Control DEF ForceOut, Installed, Write, Fail, tableVars, Steps
  <2>2. CASE UNCHANGED <<forceAuthorized, rules, registerToRules, keyState>>
    <3>1. SlotAt(a)'
      BY <2>1, <2>2, SameSlot
    <3> QED BY <2>1, <3>1 DEF SlotFacts
  <2>3. CASE Installed(t)
    <3>1. rules'[a] = call[t].key /\ keyState'[a] = "KEY1"
      BY <2>3 DEF Installed, TypeOK, ManagerTypeOK
    <3>2. protect'[PortOf[a]].key1 = call[t].key
      BY <1>0, <2>1 DEF SlotFacts
    <3>3. SlotAt(a)'
      BY <3>1, <3>2 DEF SlotAt, SlotKey
    <3> QED BY <2>1, <3>3 DEF SlotFacts
  <2> QED BY <1>5, <2>2, <2>3 DEF ForceOut, Write, Fail
<1> QED BY <1>2, <1>3, <1>4, <1>5

\* remove gives the port up before it deletes or forgets.
LEMMA RemoveSlot ==
    ASSUME TypeOK, Solo, RegInv, NEW t \in Threads, NEW a \in Addresses, a = Addr(t), SlotAt(a),
           \/ UnforceIn(t) \/ UnforceOut(t) \/ DeleteProtect(t) \/ DeleteValidate(t)
    PROVE  SlotFacts(t)' /\ SlotAt(a)'
<1> Step(t)
  BY DEF Step
<1>1. pc'[t] \in {"unforceOut", "deleteProtect", "deleteValidate", "allocate", "idle"}
  BY Control DEF UnforceIn, UnforceOut, Unforced, DeleteProtect, DeleteValidate, Write, Fail, Steps
<1>2. SlotFacts(t)'
  BY <1>1 DEF SlotFacts
<1>3. CASE UnforceIn(t) \/ UnforceOut(t)
  <2>1. /\ UNCHANGED <<protect, rules, keyState>> /\ forceAuthorized' \subseteq forceAuthorized
        /\ pc[t] \in {"unforceIn", "unforceOut"}
    BY <1>3 DEF UnforceIn, UnforceOut, Unforced, Write, Fail, tableVars, ruleVars
  <2>2. SlotAt(a)'
    BY <2>1, SameSlot
  <2> QED BY <1>2, <2>2
<1>4. CASE DeleteProtect(t) \/ DeleteValidate(t)
  <2>1. PortOf[a] \notin forceAuthorized'
    BY <1>4 DEF RegInv, RegisterFacts, PortAt, DeleteProtect, DeleteValidate, forceVars
  <2> QED BY <1>2, <2>1 DEF SlotAt
<1> QED BY <1>3, <1>4

\* A renewal that is not lost replaces the entry and the rule's key, or finds
\* the port closed.
LEMMA ModifySlot ==
    ASSUME TypeOK, Solo, NEW t \in Threads, NEW a \in Addresses, a = Addr(t),
           SlotFacts(t), failures = 0, failures' = 0, StageAt(PortAt(t), pc[t]), Modify(t)
    PROVE  SlotFacts(t)' /\ SlotAt(a)'
<1> Step(t)
  BY DEF Step
<1> failures' # failures + 1
  OBVIOUS
<1>0. /\ pc[t] = "modify" /\ pc'[t] = "idle" /\ PortAt(t) = PortOf[a] /\ PortAt(t) \in Ports
      /\ UNCHANGED <<keyState, forceAuthorized>>
  BY Control, BusyThread DEF Modify, PortAt, forceVars
<1>1. SlotFacts(t)'
  BY <1>0 DEF SlotFacts
<1>2. ASSUME PortOf[a] \in forceAuthorized
      PROVE  protect'[PortOf[a]] = call[t].entry /\ rules'[a] = call[t].key
  <2>1. protect[PortAt(t)] # NoEntry /\ validate[PortAt(t)] # NoEntry
    BY <1>0, <1>2 DEF StageAt, Whole, Closed, Opened, Stage, Changing
  <2>2. protect' = Renewed(protect, t) /\ ModifyDone(t)
    BY <2>1 DEF Modify, Fail
  <2> QED BY <1>0, <2>2 DEF Renewed, ModifyDone, TypeOK, SwitchTypeOK, ManagerTypeOK
<1>3. SlotAt(a)'
  BY <1>0, <1>2 DEF SlotAt, SlotFacts
<1> QED BY <1>1, <1>3

\* renew keeps the rule's key in its slot and takes the other for its own.
LEMMA ArriveSlot ==
    ASSUME Serial, TypeOK, Solo, SlotInv, NEW t \in Threads, Arrive(t)
    PROVE  SlotInv'
<1>1. PICK a \in Addresses : CallAdd(t, a) \/ CallRemove(t, a) \/ CallRenew(t, a)
  BY DEF Arrive
<1> SUFFICES ASSUME failures = 0 PROVE (\A b \in Addresses : SlotAt(b)') /\ (\A u \in Threads : SlotFacts(u)')
  BY <1>1 DEF SlotInv, CallAdd, CallRemove, CallRenew
<1>2. UNCHANGED <<protect, forceAuthorized, rules, registers>>
  BY <1>1 DEF CallAdd, CallRemove, CallRenew, tableVars, forceVars, registerVars, ruleVars
<1>3. /\ \A u \in Threads : call[u].op = "none" /\ (u # t => pc'[u] = "idle")
      /\ Addr(t)' = a /\ PortAt(t)' = PortOf[a] /\ pc'[t] \in {"allocate", "unforceIn", "modify"}
  <2>1. NoCall.op = "none"
    BY DEF NoCall
  <2> QED BY <1>1, <2>1, ArriveAlone DEF PortAt
<1>4. \A b \in Addresses : ~InRenewal(b) /\ SlotAt(b)
  BY <1>3 DEF InRenewal, SlotInv
<1>5. CASE CallAdd(t, a) \/ CallRemove(t, a)
  <2>1. keyState' = keyState /\ pc'[t] # "modify"
    BY <1>1, <1>5, ArriveAlone DEF CallAdd, CallRemove, ruleVars
  <2> QED BY <1>2, <1>3, <1>4, <2>1 DEF SlotAt, SlotFacts
<1>6. CASE CallRenew(t, a)
  <2> DEFINE new == RenewedEntry(a, calls + 1)
  <2>1. keyState' = [keyState EXCEPT ![a] = Toggle(@)] /\ keyState[a] \in {"KEY1", "KEY2"}
    BY <1>6 DEF CallRenew, HasRule, TypeOK, ManagerTypeOK, KeyStates
  <2>2. /\ keyState'[a] = Toggle(keyState[a]) /\ Other(Toggle(keyState[a])) = keyState[a]
        /\ \A b \in Addresses : b # a => keyState'[b] = keyState[b]
    BY <2>1 DEF TypeOK, ManagerTypeOK, Toggle, Other
  <2>3. /\ call'[t].op = "renew" /\ call'[t].addr = a
        /\ call'[t].key = calls + 1 /\ call'[t].entry = new
    BY <1>6, ArriveAlone DEF new
  <2>4. SlotKey(new, keyState[a]) = rules[a] /\ SlotKey(new, Toggle(keyState[a])) = calls + 1
    BY <2>1 DEF SlotKey, RenewedEntry, Toggle
  <2> HIDE DEF new
  <2>5. PortOf[a] \in forceAuthorized => SlotKey(protect[PortOf[a]], keyState[a]) = rules[a]
    BY <1>4 DEF SlotAt
  <2>6. SlotFacts(t)'
    BY <1>2, <1>3, <2>2, <2>3, <2>4, <2>5 DEF SlotFacts
  <2>7. InRenewal(a)'
    BY <2>3 DEF InRenewal
  <2>8. ASSUME NEW b \in Addresses PROVE SlotAt(b)'
    BY <1>2, <1>4, <2>2, <2>7 DEF SlotAt
  <2>9. \A u \in Threads : u # t => SlotFacts(u)'
    BY <1>3 DEF SlotFacts
  <2> QED BY <2>6, <2>8, <2>9
<1> QED BY <1>1, <1>5, <1>6

\* Every step keeps the slots.
LEMMA NextSlotInv ==
    ASSUME Serial, TypeOK, Solo, RegInv, KeyInv, StageInv, SlotInv, [Next]_vars
    PROVE  SlotInv'
<1>1. ASSUME NEW t \in Threads, Step(t) PROVE SlotInv'
  <2>0. Addr(t) \in Addresses
    BY <1>1, StepAlone
  <2>1. ASSUME failures = 0, failures' = 0, NEW a \in Addresses, a = Addr(t) PROVE SlotFacts(t)' /\ SlotAt(a)'
    <3>1. SlotAt(a) /\ SlotFacts(t)
      BY <2>1 DEF SlotInv
    <3>2. StageAt(PortAt(t), pc[t])
      BY <2>1 DEF StageInv, PortAt
    <3> QED BY <1>1, <2>1, <3>1, <3>2, AddSlot, RemoveSlot, ModifySlot DEF Step
  <2> QED BY <1>1, <2>0, <2>1, SlotStep
<1>2. ASSUME Limits \/ UNCHANGED vars PROVE SlotInv'
  <2>1. UNCHANGED <<protect, rules, keyState, forceAuthorized, pc, call>>
    BY <1>2 DEF Limits, SoftTimeLimit, DropRenew, RefuseRenew, SoftPacketLimit, vars, tableVars, forceVars, ruleVars
  <2>2. failures' = 0 => failures = 0
    BY <1>2 DEF Limits, SoftTimeLimit, DropRenew, RefuseRenew, SoftPacketLimit, Notify, Fail, vars, TypeOK, ManagerTypeOK
  <2> QED BY <2>1, <2>2 DEF SlotInv, SlotAt, SlotFacts, InRenewal, PortAt, Addr
<1> QED BY <1>1, <1>2, ArriveSlot DEF Next, Limits

\* No port of an address is open when the controller starts.
LEMMA InitSlotInv == ASSUME Serial, Init PROVE SlotInv
BY DEF Init, SlotInv, SlotAt, SlotFacts, Serial

-----------------------------------------------------------------------------
(* The theorems about handlers one at a time.                              *)

SerialSafety == TypeOK /\ Solo /\ RegInv /\ KeyInv
SerialWhole  == StageInv /\ ArmInv /\ SlotInv

\* The invariant holds in every behaviour.
LEMMA SerialInvariant ==
    ASSUME Serial
    PROVE  Spec => [](SerialSafety /\ SerialWhole)
<1>1. Init => SerialSafety /\ SerialWhole
  BY InitTypeOK, InitSolo, InitRegInv, InitKeyInv, InitStageInv, InitArmInv, InitSlotInv
     DEF SerialSafety, SerialWhole
<1>2. SerialSafety /\ SerialWhole /\ [Next]_vars => SerialSafety' /\ SerialWhole'
  BY NextTypeOK, NextSolo, NextRegInv, NextKeyInv, NextStageInv, NextArmInv, NextSlotInv
     DEF SerialSafety, SerialWhole
<1> QED BY <1>1, <1>2, PTL DEF Spec

\* The register allocator of MacsecManager (_unused_registers, _registers,
\* _register_to_rules): whatever writes are refused or lost, no register that
\* is in use is handed out again and no two ports count in one.
THEOREM RegistersApart ==
    ASSUME Serial
    PROVE  Spec => []RegistersExclusive
<1>1. SerialSafety => RegistersExclusive
  BY DEF SerialSafety, RegInv
<1> QED BY <1>1, SerialInvariant, PTL

\* What MacsecManager remembers in _rules is what the switch has on every port
\* the authorizer holds open, whatever writes are refused or lost.
THEOREM RememberedKeys ==
    ASSUME Serial
    PROVE  Spec => []CurrentKeyInstalled
<1>1. SerialSafety => CurrentKeyInstalled
  BY DEF SerialSafety, KeyInv, KeyAt, CurrentKeyInstalled
<1> QED BY <1>1, SerialInvariant, PTL

\* The soft time limits of MacsecManager: as long as no call is lost, no other end
\* refuses a renewal and the event loop runs, an open edge of the topology is never
\* left without the next renewal.
THEOREM OpenEdgesArmed ==
    ASSUME Serial
    PROVE  Spec => []RenewalArmed
<1>1. SerialWhole => RenewalArmed
  BY DEF SerialWhole, ArmInv, ArmAt, RenewalArmed
<1> QED BY <1>1, SerialInvariant, PTL

\* What the renewal of an edge raises reaches the event loop only when the port of
\* the edge is closed.
LEMMA RaiseStep ==
    ASSUME SerialSafety, SerialWhole, [Next]_vars, looping, ~looping', failures' = 0
    PROVE  \E a \in topology : PortOf[a] \notin forceAuthorized
<1> USE DEF SerialSafety, SerialWhole
<1>1. ~Fail /\ failures = 0
  <2>1. failures \in Nat /\ ~Fail
    BY DEF Fail, TypeOK, ManagerTypeOK
  <2>2. ASSUME NEW t \in Threads, Step(t) PROVE failures = 0
    BY <2>2, StepElsewhere DEF Elsewhere
  <2>3. ASSUME NEW t \in Threads, Arrive(t) PROVE failures = 0
    BY <2>3 DEF Arrive, CallAdd, CallRemove, CallRenew
  <2>4. ASSUME Limits \/ UNCHANGED vars PROVE failures = 0
    BY <2>1, <2>4 DEF Limits, SoftTimeLimit, DropRenew, RefuseRenew, SoftPacketLimit, Notify, vars
  <2> QED BY <2>1, <2>2, <2>3, <2>4 DEF Next
<1>2. (\A a \in Addresses : ArmAt(a)) /\ (\A t \in Threads : ArmFacts(t))
  BY <1>1 DEF ArmInv
<1>3. ASSUME NEW a \in Addresses, RefuseRenew(a) PROVE a \in topology /\ PortOf[a] \notin forceAuthorized
  BY <1>1, <1>2, <1>3 DEF RefuseRenew, ArmAt
<1>4. ASSUME NEW t \in Threads, Modify(t)
      PROVE  Addr(t) \in topology /\ PortOf[Addr(t)] \notin forceAuthorized
  <2>1. /\ pc[t] = "modify" /\ call[t].op = "renew" /\ PortAt(t) \in Ports
        /\ protect[PortAt(t)] = NoEntry \/ validate[PortAt(t)] = NoEntry
    BY <1>1, <1>4, BusyThread DEF Modify, Solo, Purpose
  <2>2. StageAt(PortAt(t), "modify")
    <3>1. Addr(t) \in Addresses /\ PortAt(t) = PortOf[Addr(t)]
      BY <2>1, BusyThread DEF PortAt
    <3> QED BY <1>1, <2>1, <3>1 DEF StageInv
  <2>3. PortAt(t) \notin forceAuthorized
    BY <2>1, <2>2 DEF StageAt, Whole, Closed, Opened, Stage, Changing
  <2> QED BY <1>2, <2>1, <2>3 DEF ArmFacts, PortAt
<1>5. \/ \E t \in Threads : Modify(t)
      \/ \E a \in Addresses : RefuseRenew(a)
  <2>1. ASSUME NEW t \in Threads, Step(t), ~Modify(t) PROVE looping' = looping
    BY <2>1 DEF Step, AllocateRegister, InsertProtect, InsertValidate, ForceIn, ForceOut, UnforceIn,
         UnforceOut, DeleteProtect, DeleteValidate
  <2>2. ASSUME NEW t \in Threads, Arrive(t) PROVE looping' = looping
    BY <2>2 DEF Arrive, CallAdd, CallRemove, CallRenew
  <2>3. ASSUME Limits, ~\E a \in Addresses : RefuseRenew(a) PROVE looping' = looping
    BY <1>1, <2>3 DEF Limits, SoftTimeLimit, DropRenew, SoftPacketLimit, Notify
  <2>4. ASSUME UNCHANGED vars PROVE looping' = looping
    BY <2>4 DEF vars
  <2> QED BY <2>1, <2>2, <2>3, <2>4 DEF Next
<1> QED BY <1>3, <1>4, <1>5

\* MacsecManager.renew and the event loop that asked for it: as long as no call is
\* lost and no other end refuses, no renewal of an open edge raises, so that only an
\* edge that is closed here and still known to the global controller ends the loop.
THEOREM OpenEdgesKeepLooping ==
    ASSUME Serial
    PROVE  Spec => OpenEdgesKeepLoop
<1>1. SerialSafety /\ SerialWhole /\ [Next]_vars =>
        [looping /\ ~looping' /\ failures' = 0 => \E a \in topology : PortOf[a] \notin forceAuthorized]_vars
  BY RaiseStep
<1> QED BY <1>1, SerialInvariant, PTL DEF Spec, OpenEdgesKeepLoop

\* Only a renewal changes an entry that stays, and it replaces the older key.
LEMMA OverlapStep ==
    ASSUME Serial, SerialSafety, SerialWhole, [Next]_vars, NEW a \in Addresses,
           protect[PortOf[a]] # NoEntry, protect'[PortOf[a]] # NoEntry,
           protect'[PortOf[a]] # protect[PortOf[a]], failures = 0
    PROVE  /\ rules[a] \in Keys(protect'[PortOf[a]])
           /\ \E slot \in {"KEY1", "KEY2"} :
                SlotKey(protect[PortOf[a]], slot) = rules[a] /\ SlotKey(protect'[PortOf[a]], slot) = rules[a]
<1> USE DEF SerialSafety, SerialWhole
<1>1. PICK t \in Threads : Step(t)
  <2>1. ASSUME NEW t \in Threads, Arrive(t) PROVE UNCHANGED protect
    BY <2>1 DEF Arrive, CallAdd, CallRemove, CallRenew, tableVars
  <2>2. ASSUME Limits \/ UNCHANGED vars PROVE UNCHANGED protect
    BY <2>2 DEF Limits, SoftTimeLimit, DropRenew, RefuseRenew, SoftPacketLimit, vars, tableVars
  <2> QED BY <2>1, <2>2 DEF Next, Limits
<1>2. Addr(t) = a /\ PortAt(t) = PortOf[a] /\ PortOf[a] \in Ports
  <2>1. PortOf[a] \in Ports
    BY LocalMacsecAssumption
  <2>2. Elsewhere(t) /\ Addr(t) \in Addresses
    BY <1>1, StepElsewhere, StepAlone
  <2>3. PortAt(t) = PortOf[a]
    BY <2>1, <2>2 DEF Elsewhere
  <2> QED BY <2>1, <2>2, <2>3 DEF PortAt, Serial
<1>3. Modify(t)
  <2>1. AllocateRegister(t) \/ InsertValidate(t) \/ ForceIn(t) \/ ForceOut(t) \/ UnforceIn(t)
        \/ UnforceOut(t) \/ DeleteValidate(t) => protect' = protect
    BY DEF AllocateRegister, InsertValidate, ForceIn, ForceOut, UnforceIn, UnforceOut, DeleteValidate,
           tableVars
  <2>2. InsertProtect(t) => protect' = protect
    BY <1>2 DEF InsertProtect, Write, Fail, MayInsert
  <2>3. DeleteProtect(t) => protect' = protect \/ protect' = [protect EXCEPT ![PortOf[a]] = NoEntry]
    BY <1>2 DEF DeleteProtect, Write, Fail
  <2>4. protect' # protect /\ protect' # [protect EXCEPT ![PortOf[a]] = NoEntry]
    BY <1>2 DEF TypeOK, SwitchTypeOK
  <2> QED BY <1>1, <2>1, <2>2, <2>3, <2>4 DEF Step
<1>4. pc[t] = "modify" /\ protect'[PortOf[a]] = call[t].entry
  BY <1>2, <1>3 DEF Modify, MayApply, Renewed, TypeOK, SwitchTypeOK
<1>5. PortOf[a] \in forceAuthorized
  <2>1. StageAt(PortOf[a], pc[t])
    BY <1>2 DEF StageInv
  <2> QED BY <1>4, <2>1 DEF StageAt, Whole, Closed, Opened, Stage, Changing
<1>6. SlotFacts(t) /\ KeyFacts(t)
  BY DEF SlotInv, KeyInv
<1> DEFINE kept == Other(keyState[a])
<1>7. kept \in {"KEY1", "KEY2"}
  BY DEF Other
<1>8. SlotKey(protect[PortOf[a]], kept) = rules[a] /\ SlotKey(call[t].entry, kept) = rules[a]
  BY <1>2, <1>4, <1>5, <1>6 DEF SlotFacts
<1>9. rules[a] \in Keys(call[t].entry)
  BY <1>2, <1>4, <1>6 DEF KeyFacts
<1> HIDE DEF kept
<1> QED BY <1>4, <1>7, <1>8, <1>9

\* MacsecManager.renew never takes away the key the neighbour may still use:
\* while no call is lost, the key installed last stays in its slot.
THEOREM KeysOverlap ==
    ASSUME Serial
    PROVE  Spec => RenewalOverlaps
<1> DEFINE Keeps(a) ==
      LET p == PortOf[a]
      IN  /\ protect[p] # NoEntry /\ protect'[p] # NoEntry /\ protect'[p] # protect[p]
          /\ rules[a] # NoKey /\ failures = 0
          => /\ rules[a] \in Keys(protect'[p])
             /\ \E slot \in {"KEY1", "KEY2"} :
                  SlotKey(protect[p], slot) = rules[a] /\ SlotKey(protect'[p], slot) = rules[a]
<1>1. SerialSafety /\ SerialWhole /\ [Next]_vars => [\A a \in Addresses : Keeps(a)]_vars
  BY OverlapStep
<1> QED BY <1>1, SerialInvariant, PTL DEF Spec, RenewalOverlaps

=============================================================================
