-------------------------- MODULE EventSystemProofs --------------------------
(***************************************************************************)
(* Proofs about the lock of EventSystem for any number of threads and      *)
(* tasks, whatever raises and times out.                                   *)
(***************************************************************************)
EXTENDS EventSystem, SequenceTheorems, TLAPS

\* The types of the lock and of its users.
LockTypeOK ==
    /\ owner \in Threads \union {NoThread} /\ depth \in Nat
    /\ pc \in [Threads -> Steps]
    /\ bypassing \subseteq Workers /\ forcing \subseteq Threads

\* Who holds the lock is inside, once, or twice around set_timeout.
HolderOK ==
    IF owner = NoThread THEN depth = 0
    ELSE /\ pc[owner] \notin Unlocked
         /\ depth = 1 \/ (depth = 2 /\ pc[owner] \in {"push", "signal"})

\* A worker that did not take the lock holds it only around set_timeout.
BypassOK ==
    \A w \in bypassing :
        /\ pc[w] \in {"body", "schedule", "push", "signal"}
        /\ owner = w => pc[w] \in {"push", "signal"} /\ depth = 1

\* A thread whose wait is over does not hold the lock.
ForcingOK == \A t \in forcing : Waiting(t) /\ owner # t

LockInv == LockTypeOK /\ HolderOK /\ BypassOK /\ ForcingOK

-----------------------------------------------------------------------------
\* Where acquire is called, and where it goes on.
LEMMA AcquiredSteps ==
    /\ DOMAIN Acquired = {"acquire", "schedule", "take", "retake"}
    /\ Acquired["acquire"] = "body" /\ Acquired["schedule"] = "push"
    /\ Acquired["take"] = "pop" /\ Acquired["retake"] = "release"
BY DEF Acquired

\* No thread is NoThread, and the loop is no worker.
LEMMA ThreadNames == NoThread \notin Threads /\ Loop \notin Workers /\ Workers \subseteq Threads
BY EventSystemAssumption DEF Threads

\* A thread that does not touch the lock keeps the invariant when it goes to a
\* step its hold on the lock allows.
LEMMA MoveOK ==
    ASSUME LockInv, NEW t \in Threads, NEW step \in Steps, Goto(t, step),
           UNCHANGED <<owner, depth, forcing>>, t \notin forcing,
           owner = t => /\ step \notin Unlocked
                        /\ depth = 1 \/ step \in {"push", "signal"},
           bypassing' \subseteq Workers, bypassing' \subseteq bypassing \union {t},
           t \in bypassing' => /\ step \in {"body", "schedule", "push", "signal"}
                               /\ owner = t => step \in {"push", "signal"} /\ depth = 1
    PROVE  LockInv'
<1>1. pc' \in [Threads -> Steps] /\ pc'[t] = step /\ \A u \in Threads \ {t} : pc'[u] = pc[u]
  BY DEF LockInv, LockTypeOK, Goto
<1>2. LockTypeOK'
  BY <1>1 DEF LockInv, LockTypeOK
<1>3. HolderOK'
  BY <1>1, ThreadNames DEF LockInv, HolderOK, LockTypeOK
<1>4. BypassOK'
  BY <1>1, ThreadNames DEF LockInv, BypassOK, LockTypeOK
<1>5. ForcingOK'
  BY <1>1 DEF LockInv, ForcingOK, LockTypeOK, Waiting
<1> QED BY <1>2, <1>3, <1>4, <1>5 DEF LockInv

\* A thread that is past its acquire gives the lock back and goes on.
LEMMA UnlockOK ==
    ASSUME LockInv, NEW t \in Threads, owner = t, Unlock(t), NEW step \in Steps, Goto(t, step),
           UNCHANGED <<forcing, bypassing>>,
           depth = 2 => step \notin Unlocked,
           t \in bypassing => step \in {"body", "schedule", "push", "signal"}
    PROVE  LockInv'
<1>1. pc' \in [Threads -> Steps] /\ pc'[t] = step /\ \A u \in Threads \ {t} : pc'[u] = pc[u]
  BY DEF LockInv, LockTypeOK, Goto
<1>2. t # NoThread /\ (depth = 1 \/ depth = 2)
  BY ThreadNames DEF LockInv, HolderOK
<1>3. \/ depth = 1 /\ depth' = 0 /\ owner' = NoThread
      \/ depth = 2 /\ depth' = 1 /\ owner' = t
  BY <1>2 DEF Unlock
<1>4. LockTypeOK'
  BY <1>1, <1>3 DEF LockInv, LockTypeOK
<1>5. HolderOK'
  BY <1>1, <1>2, <1>3 DEF HolderOK
<1>6. BypassOK'
  BY <1>1, <1>2, <1>3, ThreadNames DEF LockInv, BypassOK, LockTypeOK
<1>7. ForcingOK'
  BY <1>1, <1>3, ThreadNames DEF LockInv, ForcingOK, LockTypeOK, Waiting
<1> QED BY <1>4, <1>5, <1>6, <1>7 DEF LockInv

\* A release that raises, or that gives the lock back.
LEMMA ReleaseOK ==
    ASSUME LockInv, NEW t \in Threads, NEW ok \in Steps, NEW raise \in Steps,
           Release(t, ok, raise), t \notin forcing, t \notin bypassing,
           pc[t] \in {"push", "signal"} => ok \notin Unlocked,
           UNCHANGED <<forcing, bypassing>>
    PROVE  LockInv'
<1>1. CASE owner = t /\ Unlock(t) /\ Goto(t, ok)
  <2>1. depth = 2 => ok \notin Unlocked
    BY <1>1, ThreadNames DEF LockInv, HolderOK
  <2> QED BY <1>1, <2>1, UnlockOK
<1>2. CASE owner # t /\ UNCHANGED <<owner, depth>> /\ Goto(t, raise)
  BY <1>2, MoveOK DEF LockInv, LockTypeOK
<1> QED BY <1>1, <1>2 DEF Release

-----------------------------------------------------------------------------
(* The operations of the lock.                                             *)

\* acquire returns.
LEMMA AcquireOK ==
    ASSUME LockInv, NEW t \in Threads, Acquire(t)
    PROVE  LockInv'
<1> DEFINE step == Acquired[pc[t]]
<1>1. /\ step \in {"body", "push", "pop", "release"}
      /\ pc[t] \in {"acquire", "schedule", "take", "retake"}
      /\ pc[t] = "schedule" => step = "push"
  BY AcquiredSteps DEF Acquire, Waiting
<1>2. pc' \in [Threads -> Steps] /\ pc'[t] = step /\ \A u \in Threads \ {t} : pc'[u] = pc[u]
  BY <1>1 DEF LockInv, LockTypeOK, Acquire, Goto, Steps
<1>3. owner' = t /\ depth' = depth + 1 /\ t # NoThread
  BY ThreadNames DEF Acquire
<1>4. \/ owner = NoThread /\ depth = 0
      \/ owner = t /\ depth = 1 /\ pc[t] = "schedule" /\ t \notin bypassing
  BY <1>1, ThreadNames DEF LockInv, HolderOK, BypassOK, Acquire, Unlocked
<1>5. LockTypeOK'
  BY <1>2, <1>3 DEF LockInv, LockTypeOK, Acquire, callVars
<1>6. HolderOK'
  BY <1>1, <1>2, <1>3, <1>4 DEF HolderOK, Unlocked
<1>7. t \in bypassing => pc[t] = "schedule"
  BY <1>1 DEF LockInv, BypassOK
<1>8. BypassOK'
  BY <1>1, <1>2, <1>3, <1>4, <1>7, ThreadNames DEF LockInv, LockTypeOK, BypassOK, Acquire, callVars
<1>9. ForcingOK'
  BY <1>2, <1>3 DEF LockInv, LockTypeOK, ForcingOK, Acquire, Waiting
<1> QED BY <1>5, <1>6, <1>8, <1>9 DEF LockInv

\* acquire times out.
LEMMA TimeOutOK ==
    ASSUME LockInv, NEW t \in Threads, TimeOut(t)
    PROVE  LockInv'
BY DEF LockInv, LockTypeOK, HolderOK, BypassOK, ForcingOK, TimeOut, Waiting, callVars

\* force_release.
LEMMA ForceReleaseOK ==
    ASSUME LockInv, NEW t \in Threads, ForceRelease(t)
    PROVE  LockInv'
<1>1. t \in forcing /\ owner # t /\ pc[t] \in {"acquire", "schedule", "take", "retake"}
  BY AcquiredSteps DEF LockInv, ForcingOK, ForceRelease, Waiting
<1>2. /\ Acquired[pc[t]] \in {"body", "push", "pop", "release"}
      /\ pc[t] = "schedule" => Acquired[pc[t]] = "push"
  BY <1>1, AcquiredSteps
<1>3. Refused(t) \in {"idle", "gone", "cleanup", "release"}
  BY <1>1 DEF Refused, AfterRaise
<1>4. PICK step \in Steps :
        /\ Goto(t, step)
        /\ bypassing' \subseteq bypassing
        /\ t \in bypassing' => step = "push"
  <2>1. CASE Goto(t, Acquired[pc[t]]) /\ UNCHANGED bypassing
    <3>1. t \in bypassing => pc[t] = "schedule"
      BY <1>1 DEF LockInv, BypassOK
    <3> QED BY <1>2, <2>1, <3>1 DEF Steps
  <2>2. CASE Goto(t, Refused(t)) /\ bypassing' = bypassing \ {t}
    BY <1>3, <2>2 DEF Steps
  <2> QED BY <2>1, <2>2 DEF ForceRelease
<1>5. UNCHANGED <<owner, depth>> /\ forcing' = forcing \ {t}
  BY DEF ForceRelease
<1>6. pc' \in [Threads -> Steps] /\ pc'[t] = step /\ \A u \in Threads \ {t} : pc'[u] = pc[u]
  BY <1>4 DEF LockInv, LockTypeOK, Goto
<1>7. LockTypeOK' /\ ForcingOK'
  BY <1>4, <1>5, <1>6 DEF LockInv, LockTypeOK, ForcingOK, Waiting
<1>8. HolderOK'
  BY <1>1, <1>5, <1>6, ThreadNames DEF LockInv, HolderOK, LockTypeOK
<1>9. BypassOK'
  BY <1>1, <1>4, <1>5, <1>6, ThreadNames DEF LockInv, BypassOK, LockTypeOK
<1> QED BY <1>7, <1>8, <1>9 DEF LockInv

\* The end of set_timeout.
LEMMA SignalOK ==
    ASSUME LockInv, NEW t \in Threads, Signal(t)
    PROVE  LockInv'
<1>0. pc[t] = "signal" /\ UNCHANGED forcing
  BY DEF Signal
<1>1. t \notin forcing
  BY <1>0, AcquiredSteps DEF LockInv, ForcingOK, Waiting
<1>2. PICK ok, raise \in Steps :
        /\ Release(t, ok, raise)
        /\ ok \in {"release", "body"}
        /\ t \in bypassing => ok = "body" /\ raise = "idle"
        /\ raise \in {"release", "idle", "cleanup"}
  <2>1. CASE t = Loop
    BY <2>1, ThreadNames DEF Signal, EndTimeout, Steps, LockInv, LockTypeOK
  <2>2. CASE t # Loop
    BY <2>2 DEF Signal, EndTimeout, Steps, AfterRaise
  <2> QED BY <2>1, <2>2
<1>3. CASE owner = t
  <2>1. Unlock(t) /\ Goto(t, ok) /\ UNCHANGED bypassing
    BY <1>2, <1>3 DEF Release, Signal
  <2>2. depth = 2 => ok \notin Unlocked
    BY <1>2 DEF Unlocked
  <2> QED BY <1>0, <1>2, <1>3, <2>1, <2>2, UnlockOK
<1>4. CASE owner # t
  <2>1. Goto(t, raise) /\ UNCHANGED <<owner, depth>> /\ bypassing' = bypassing \ {t}
    BY <1>2, <1>4 DEF Release, Signal
  <2> QED BY <1>0, <1>1, <1>2, <1>4, <2>1, MoveOK DEF LockInv, LockTypeOK
<1> QED BY <1>3, <1>4

-----------------------------------------------------------------------------
(* The users of the lock.                                                  *)

\* A thread at a step that is no acquire has not timed out, and one that is not
\* running a method does not bypass the lock.
LEMMA AtStep ==
    ASSUME LockInv, NEW t \in Threads
    PROVE  /\ pc[t] \notin {"acquire", "schedule", "take", "retake"} => t \notin forcing
           /\ pc[t] \notin {"body", "schedule", "push", "signal"} => t \notin bypassing
           /\ pc[t] \in Unlocked => owner # t
           /\ owner = t /\ pc[t] \notin {"push", "signal"} => depth = 1
           /\ owner = t /\ pc[t] = "body" => t \notin bypassing
BY AcquiredSteps, ThreadNames DEF LockInv, LockTypeOK, HolderOK, BypassOK, ForcingOK, Waiting

\* The steps of a gRPC worker.
LEMMA WorkerOK ==
    ASSUME LockInv, NEW w \in Workers,
           \/ Call(w) \/ Return(w) \/ Raise(w) \/ WorkerStep(w)
           \/ \E task \in Tasks : Schedule(w, task)
    PROVE  LockInv'
<1>0. w \in Threads
  BY ThreadNames
<1>1. CASE Call(w)
  <2>1. pc[w] = "idle" /\ owner # w /\ w \notin forcing
    BY <1>0, <1>1, AtStep DEF Call, Unlocked
  <2>2. CASE bypassing' = bypassing \union {w} /\ Goto(w, "body")
    BY <1>0, <1>1, <2>1, <2>2, MoveOK DEF Call, LockInv, LockTypeOK, lockVars, Steps
  <2>3. CASE UNCHANGED bypassing /\ Goto(w, "set")
    <3>1. w \notin bypassing
      BY <1>0, <2>1, AtStep
    <3> QED BY <1>0, <1>1, <2>1, <2>3, <3>1, MoveOK DEF Call, LockInv, LockTypeOK, lockVars, Steps
  <2> QED BY <1>1, <2>2, <2>3 DEF Call
<1>2. CASE Return(w) \/ Raise(w)
  <2>1. PICK step \in {"idle", "release", "cleanup"} :
          Goto(w, step) /\ (step = "idle" => w \in bypassing)
    BY <1>2 DEF Return, Raise, AfterRaise
  <2>2. pc[w] = "body" /\ bypassing' = bypassing \ {w} /\ UNCHANGED <<owner, depth, forcing>>
    BY <1>2 DEF Return, Raise, lockVars
  <2>3. owner = w => step \notin Unlocked /\ depth = 1
    BY <1>0, <2>1, <2>2, AtStep DEF Unlocked
  <2>4. w \notin forcing
    BY <1>0, <2>2, AtStep
  <2> QED BY <1>0, <2>1, <2>2, <2>3, <2>4, MoveOK DEF LockInv, LockTypeOK, Steps
<1>3. CASE SetContext(w) \/ ResetContext(w)
  <2>1. PICK step \in {"acquire", "idle"} : Goto(w, step)
    BY <1>3 DEF SetContext, ResetContext
  <2>2. pc[w] \in {"set", "reset"} /\ UNCHANGED <<owner, depth, forcing, bypassing>>
    BY <1>3 DEF SetContext, ResetContext, lockVars
  <2>3. owner # w /\ w \notin forcing /\ w \notin bypassing
    BY <1>0, <2>2, AtStep DEF Unlocked
  <2> QED BY <1>0, <2>1, <2>2, <2>3, MoveOK DEF LockInv, LockTypeOK, Steps
<1>4. CASE ReleaseCall(w)
  <2>1. pc[w] \in {"release", "cleanup"} /\ UNCHANGED <<forcing, bypassing>>
    BY <1>4 DEF ReleaseCall, callVars
  <2>2. Release(w, "reset", "idle") \/ Release(w, "idle", "idle")
    BY <1>4 DEF ReleaseCall
  <2>3. w \notin forcing /\ w \notin bypassing
    BY <1>0, <2>1, AtStep
  <2> QED BY <1>0, <2>1, <2>2, <2>3, ReleaseOK DEF Steps
<1>5. CASE \E task \in Tasks : Schedule(w, task)
  <2>1. pc[w] = "body" /\ Goto(w, "schedule") /\ UNCHANGED <<owner, depth, forcing, bypassing>>
    BY <1>5 DEF Schedule, lockVars, callVars
  <2>2. /\ w \notin forcing
        /\ owner = w => depth = 1 /\ w \notin bypassing
    BY <1>0, <2>1, AtStep
  <2> QED BY <1>0, <2>1, <2>2, MoveOK DEF LockInv, LockTypeOK, Steps, Unlocked
<1> QED BY <1>1, <1>2, <1>3, <1>4, <1>5 DEF WorkerStep

\* The steps of the REPL and the port monitor.
LEMMA OtherOK ==
    ASSUME LockInv, NEW o \in Others, Enter(o) \/ Exit(o) \/ EndCommand(o) \/ ReleaseCommand(o)
    PROVE  LockInv'
<1>0. o \in Threads /\ o \notin bypassing
  BY EventSystemAssumption DEF Threads, LockInv, LockTypeOK
<1>1. CASE ReleaseCommand(o)
  <2>1. pc[o] \in {"release", "leave"} /\ UNCHANGED <<forcing, bypassing>>
    BY <1>1 DEF ReleaseCommand, callVars
  <2>2. Release(o, "idle", "gone") \/ Release(o, "gone", "gone")
    BY <1>1 DEF ReleaseCommand
  <2>3. o \notin forcing
    BY <1>0, <2>1, AtStep
  <2> QED BY <1>0, <2>1, <2>2, <2>3, ReleaseOK DEF Steps
<1>2. CASE Enter(o)
  <2>1. pc[o] = "idle" /\ Goto(o, "acquire") /\ UNCHANGED <<owner, depth, forcing, bypassing>>
    BY <1>2 DEF Enter, lockVars, callVars
  <2>2. o \notin forcing /\ owner # o
    BY <1>0, <2>1, AtStep DEF Unlocked
  <2> QED BY <1>0, <2>1, <2>2, MoveOK DEF LockInv, LockTypeOK, Steps
<1>3. CASE Exit(o) \/ EndCommand(o)
  <2>1. PICK step \in {"leave", "release"} : Goto(o, step)
    BY <1>3 DEF Exit, EndCommand
  <2>2. pc[o] = "body" /\ UNCHANGED <<owner, depth, forcing, bypassing>>
    BY <1>3 DEF Exit, EndCommand, lockVars, callVars
  <2>3. o \notin forcing /\ (owner = o => depth = 1)
    BY <1>0, <2>2, AtStep
  <2> QED BY <1>0, <2>1, <2>2, <2>3, MoveOK DEF LockInv, LockTypeOK, Steps, Unlocked
<1> QED BY <1>1, <1>2, <1>3

\* The steps of run.
LEMMA LoopOK ==
    ASSUME LockInv, LoopStep
    PROVE  LockInv'
<1>0. Loop \in Threads /\ Loop \notin bypassing
  BY ThreadNames DEF Threads, LockInv, LockTypeOK
<1>1. CASE Start \/ Clear \/ Peek \/ Awake
  <2>1. PICK step \in {"clear", "peek", "wait", "ended", "take"} : Goto(Loop, step)
    BY <1>1 DEF Start, Clear, Peek, Awake
  <2>2. /\ pc[Loop] \in {"start", "clear", "peek", "wait"}
        /\ UNCHANGED <<owner, depth, forcing, bypassing>>
    BY <1>1 DEF Start, Clear, Peek, Awake, lockVars, callVars
  <2>3. Loop \notin forcing /\ owner # Loop
    BY <1>0, <2>2, AtStep DEF Unlocked
  <2> QED BY <1>0, <2>1, <2>2, <2>3, MoveOK DEF LockInv, LockTypeOK, Steps
<1>2. CASE Pop \/ RunTask
  <2>1. PICK step \in {"task", "release", "schedule"} : Goto(Loop, step)
    BY <1>2 DEF Pop, RunTask, Done
  <2>2. pc[Loop] \in {"pop", "task"} /\ UNCHANGED <<owner, depth, forcing, bypassing>>
    BY <1>2 DEF Pop, RunTask, lockVars, callVars
  <2>3. Loop \notin forcing /\ (owner = Loop => depth = 1)
    BY <1>0, <2>2, AtStep
  <2> QED BY <1>0, <2>1, <2>2, <2>3, MoveOK DEF LockInv, LockTypeOK, Steps, Unlocked
<1>3. CASE RpcReturns
  <2>1. PICK step \in {"retake", "release"} : Goto(Loop, step)
    BY <1>3 DEF RpcReturns, AfterRpc
  <2>2. pc[Loop] = "rpc" /\ UNCHANGED <<owner, depth, forcing, bypassing>>
    BY <1>3 DEF RpcReturns, lockVars, callVars
  <2>3. Loop \notin forcing /\ owner # Loop
    BY <1>0, <2>2, AtStep DEF Unlocked
  <2> QED BY <1>0, <2>1, <2>2, <2>3, MoveOK DEF LockInv, LockTypeOK, Steps
<1>4. CASE NotifyTask \/ ReleaseLoop
  <2>1. pc[Loop] \in {"task", "release"} /\ UNCHANGED <<forcing, bypassing>>
    BY <1>4 DEF NotifyTask, ReleaseLoop, callVars
  <2>2. Release(Loop, "rpc", "release") \/ Release(Loop, "clear", "died")
    BY <1>4 DEF NotifyTask, ReleaseLoop
  <2>3. Loop \notin forcing
    BY <1>0, <2>1, AtStep
  <2> QED BY <1>0, <2>1, <2>2, <2>3, ReleaseOK DEF Steps
<1> QED BY <1>1, <1>2, <1>3, <1>4 DEF LoopStep

\* The middle of set_timeout.
LEMMA PushOK ==
    ASSUME LockInv, NEW t \in Threads, Push(t)
    PROVE  LockInv'
<1>1. pc[t] = "push" /\ Goto(t, "signal") /\ UNCHANGED <<owner, depth, forcing, bypassing>>
  BY DEF Push, lockVars, callVars
<1>2. t \notin forcing
  BY <1>1, AtStep
<1>3. t \in bypassing => (owner = t => depth = 1)
  BY DEF LockInv, BypassOK
<1> QED BY <1>1, <1>2, <1>3, MoveOK DEF LockInv, LockTypeOK, Steps, Unlocked

-----------------------------------------------------------------------------
\* The lock is free before anything runs.
LEMMA InitLockInv == Init => LockInv
BY ThreadNames DEF Init, LockInv, LockTypeOK, HolderOK, BypassOK, ForcingOK, Steps, Threads

\* Every step keeps the invariant of the lock.
LEMMA NextLockInv == LockInv /\ [Next]_vars => LockInv'
<1> SUFFICES ASSUME LockInv, [Next]_vars PROVE LockInv'
  OBVIOUS
<1>1. CASE \/ \E task \in Tasks : Elapse(task)
           \/ UNCHANGED vars
  <2>1. UNCHANGED <<owner, depth, forcing, bypassing, pc>>
    BY <1>1 DEF Elapse, vars, lockVars, callVars
  <2> QED BY <2>1 DEF LockInv, LockTypeOK, HolderOK, BypassOK, ForcingOK, Waiting
<1>2. ASSUME NEW t \in Threads,
             Acquire(t) \/ TimeOut(t) \/ ForceRelease(t) \/ Push(t) \/ Signal(t)
      PROVE  LockInv'
  BY <1>2, AcquireOK, TimeOutOK, ForceReleaseOK, PushOK, SignalOK
<1>3. ASSUME NEW w \in Workers,
             \/ Call(w) \/ Return(w) \/ Raise(w) \/ WorkerStep(w)
             \/ \E task \in Tasks \ PeriodicTasks : Schedule(w, task)
      PROVE  LockInv'
  <2>1. \/ Call(w) \/ Return(w) \/ Raise(w) \/ WorkerStep(w)
        \/ \E task \in Tasks : Schedule(w, task)
    BY <1>3
  <2> QED BY <2>1, WorkerOK
<1> QED BY <1>1, <1>2, <1>3, LoopOK, OtherOK DEF Next

\* The lock is given back by whoever took it: by methods that raise, around a
\* task that gives it away, after waits that timed out and force_release, with
\* any number of workers that never took it (EventSystem.acquire and release,
\* synchronize).
THEOREM LockDiscipline == Spec => []LockIsGivenBack
<1>1. LockInv => LockIsGivenBack
  BY DEF LockInv, LockTypeOK, HolderOK, LockIsGivenBack
<1> QED BY <1>1, InitLockInv, NextLockInv, PTL DEF Spec


-----------------------------------------------------------------------------
(* Exclusion, where no wait times out and no RPC raises.                   *)

\* Who is in a section under the lock owns it, twice in the middle of
\* set_timeout.
Held ==
    /\ forcing = {}
    /\ \A t \in Threads : Inside(t) => owner = t /\ (pc[t] \in {"push", "signal"} => depth = 2)

\* A thread that does not touch the lock goes on to where it holds what it has to.
LEMMA HeldMove ==
    ASSUME LockInv, Held, NEW t \in Threads, NEW step \in Steps, Goto(t, step),
           UNCHANGED <<owner, depth, forcing>>,
           \A u \in Threads \ {t} : u \in bypassing' <=> u \in bypassing,
           Inside(t)' => owner = t /\ (step \in {"push", "signal"} => depth = 2)
    PROVE  Held'
<1>1. pc'[t] = step /\ \A u \in Threads \ {t} : pc'[u] = pc[u]
  BY DEF LockInv, LockTypeOK, Goto
<1> QED BY <1>1 DEF Held, Inside

\* A thread inside gives the lock back, and leaves when it gives it back for good.
LEMMA HeldRelease ==
    ASSUME LockInv, Held, NEW t \in Threads, NEW ok \in Steps, NEW raise \in Steps,
           Release(t, ok, raise), owner = t, UNCHANGED <<forcing, bypassing>>,
           ok \notin {"push", "signal"},
           depth = 1 => ~Inside(t)'
    PROVE  Held'
<1>1. pc'[t] = ok /\ \A u \in Threads \ {t} : pc'[u] = pc[u]
  BY DEF LockInv, LockTypeOK, Goto, Release
<1>2. depth = 1 \/ (depth = 2 /\ owner' = t)
  BY ThreadNames DEF LockInv, HolderOK, Release, Unlock
<1>3. \A u \in Threads \ {t} : ~Inside(u)
  BY DEF Held
<1> QED BY <1>1, <1>2, <1>3 DEF Held, Inside

\* acquire returns: nobody was inside, or the thread itself, in set_timeout.
LEMMA HeldAcquire ==
    ASSUME LockInv, Held, NEW t \in Threads, Acquire(t)
    PROVE  Held'
<1>1. /\ pc[t] \in {"acquire", "schedule", "take", "retake"}
      /\ Acquired[pc[t]] \in {"body", "push", "pop", "release"}
      /\ Acquired[pc[t]] = "push" => pc[t] = "schedule"
  BY AcquiredSteps DEF Acquire, Waiting
<1>2. pc'[t] = Acquired[pc[t]] /\ \A u \in Threads \ {t} : pc'[u] = pc[u]
  BY <1>1 DEF LockInv, LockTypeOK, Acquire, Goto
<1>3. owner' = t /\ depth' = depth + 1 /\ UNCHANGED <<forcing, bypassing>>
  BY DEF Acquire, callVars
<1>4. \A u \in Threads \ {t} : ~Inside(u)'
  <2>1. \A u \in Threads \ {t} : ~Inside(u)
    BY ThreadNames DEF Held, Acquire
  <2> QED BY <1>2, <1>3, <2>1 DEF Inside
<1>5. Inside(t)' /\ pc'[t] \in {"push", "signal"} => depth' = 2
  <2> SUFFICES ASSUME Inside(t)', pc'[t] \in {"push", "signal"} PROVE depth' = 2
    OBVIOUS
  <2>1. pc[t] = "schedule" /\ t \notin bypassing
    BY <1>1, <1>2, <1>3 DEF Inside
  <2>2. owner = t
    BY <2>1 DEF Held, Inside
  <2>3. depth = 1
    BY <2>1, <2>2, AtStep
  <2> QED BY <1>3, <2>3
<1> QED BY <1>3, <1>4, <1>5 DEF Held

\* The two steps of set_timeout under the lock.
LEMMA HeldPush ==
    ASSUME LockInv, Held, NEW t \in Threads, Push(t) \/ Signal(t)
    PROVE  Held'
<1>1. CASE Push(t)
  <2>1. pc[t] = "push" /\ Goto(t, "signal") /\ UNCHANGED <<owner, depth, forcing, bypassing>>
    BY <1>1 DEF Push, lockVars, callVars
  <2>2. Inside(t)' => Inside(t)
    BY <2>1 DEF Inside
  <2>3. Inside(t)' => owner = t /\ depth = 2
    BY <2>1, <2>2 DEF Held
  <2> QED BY <2>1, <2>3, HeldMove DEF Steps
<1>2. CASE Signal(t)
  <2>0. pc[t] = "signal" /\ UNCHANGED forcing
    BY <1>2 DEF Signal
  <2>1. PICK ok, raise \in Steps :
          /\ Release(t, ok, raise)
          /\ ok \in {"release", "body"}
          /\ t \in bypassing => raise = "idle"
    <3>1. CASE t = Loop
      BY <1>2, <3>1, ThreadNames DEF Signal, EndTimeout, Steps, LockInv, LockTypeOK
    <3>2. CASE t # Loop
      BY <1>2, <3>2 DEF Signal, EndTimeout, Steps, AfterRaise
    <3> QED BY <3>1, <3>2
  <2>2. CASE owner = t
    <3>1. UNCHANGED bypassing
      BY <1>2, <2>2 DEF Signal
    <3>2. depth = 1 => t \in bypassing
      BY <2>0, <2>2 DEF Held, Inside
    <3> QED BY <2>0, <2>1, <2>2, <3>1, <3>2, HeldRelease DEF Inside
  <2>3. CASE owner # t
    <3>1. t \in bypassing
      BY <2>0, <2>3 DEF Held, Inside
    <3>2. Goto(t, "idle") /\ UNCHANGED <<owner, depth>> /\ bypassing' = bypassing \ {t}
      BY <1>2, <2>1, <2>3, <3>1 DEF Release, Signal
    <3>3. pc'[t] = "idle"
      BY <3>2 DEF Goto, LockInv, LockTypeOK
    <3> QED BY <2>0, <3>2, <3>3, HeldMove DEF Inside, Steps
  <2> QED BY <2>2, <2>3
<1> QED BY <1>1, <1>2

\* The steps of a gRPC worker.
LEMMA HeldWorker ==
    ASSUME LockInv, Held, NEW w \in Workers,
           \/ Call(w) \/ Return(w) \/ Raise(w) \/ WorkerStep(w)
           \/ \E task \in Tasks : Schedule(w, task)
    PROVE  Held'
<1>1. w \in Threads
  BY ThreadNames
<1>2. CASE Call(w) \/ SetContext(w) \/ ResetContext(w)
  <2>1. PICK step \in {"body", "set", "acquire", "idle"} :
          Goto(w, step) /\ (step = "body" => w \in bypassing')
    BY <1>2 DEF Call, SetContext, ResetContext
  <2>2. /\ UNCHANGED <<owner, depth, forcing>>
        /\ bypassing' \in {bypassing, bypassing \union {w}}
    BY <1>2 DEF Call, SetContext, ResetContext, lockVars
  <2>3. ~Inside(w)'
    BY <1>1, <2>1 DEF Inside, Goto, LockInv, LockTypeOK
  <2> QED BY <1>1, <2>1, <2>2, <2>3, HeldMove DEF Steps
<1>3. CASE Return(w) \/ Raise(w)
  <2>1. PICK step \in {"idle", "release", "cleanup"} :
          Goto(w, step) /\ (step = "idle" <=> w \in bypassing)
    BY <1>3 DEF Return, Raise, AfterRaise
  <2>2. pc[w] = "body" /\ bypassing' = bypassing \ {w} /\ UNCHANGED <<owner, depth, forcing>>
    BY <1>3 DEF Return, Raise, lockVars
  <2>3. Inside(w)' => Inside(w)
    BY <1>1, <2>1, <2>2 DEF Inside, Goto, LockInv, LockTypeOK
  <2>4. Inside(w)' => owner = w
    BY <1>1, <2>3 DEF Held
  <2> QED BY <1>1, <2>1, <2>2, <2>4, HeldMove DEF Steps
<1>4. CASE ReleaseCall(w)
  <2>1. pc[w] \in {"release", "cleanup"} /\ UNCHANGED <<forcing, bypassing>>
    BY <1>4 DEF ReleaseCall, callVars
  <2>2. PICK ok \in {"reset", "idle"} : Release(w, ok, "idle")
    BY <1>4 DEF ReleaseCall
  <2>3. Inside(w)
    BY <1>1, <2>1, AtStep DEF Inside
  <2>4. owner = w
    BY <1>1, <2>3 DEF Held
  <2>5. ~Inside(w)'
    BY <1>1, <2>2, <2>4 DEF Release, Inside, Goto, LockInv, LockTypeOK
  <2> QED BY <1>1, <2>1, <2>2, <2>4, <2>5, HeldRelease DEF Steps
<1>5. CASE \E task \in Tasks : Schedule(w, task)
  <2>1. pc[w] = "body" /\ Goto(w, "schedule") /\ UNCHANGED <<owner, depth, forcing, bypassing>>
    BY <1>5 DEF Schedule, lockVars, callVars
  <2>2. Inside(w)' => Inside(w)
    BY <2>1 DEF Inside
  <2>3. Inside(w)' => owner = w
    BY <1>1, <2>2 DEF Held
  <2> QED BY <1>1, <2>1, <2>3, HeldMove DEF Steps
<1> QED BY <1>2, <1>3, <1>4, <1>5 DEF WorkerStep

\* The steps of the REPL and the port monitor.
LEMMA HeldOther ==
    ASSUME LockInv, Held, NEW o \in Others,
           Enter(o) \/ Exit(o) \/ EndCommand(o) \/ ReleaseCommand(o)
    PROVE  Held'
<1>1. o \in Threads /\ o \notin bypassing
  BY EventSystemAssumption DEF Threads, LockInv, LockTypeOK
<1>2. CASE ReleaseCommand(o)
  <2>1. pc[o] \in {"release", "leave"} /\ UNCHANGED <<forcing, bypassing>>
    BY <1>2 DEF ReleaseCommand, callVars
  <2>2. PICK ok \in {"idle", "gone"} : Release(o, ok, "gone")
    BY <1>2 DEF ReleaseCommand
  <2>3. owner = o
    BY <1>1, <2>1 DEF Held, Inside
  <2>4. ~Inside(o)'
    BY <1>1, <2>2, <2>3 DEF Release, Inside, Goto, LockInv, LockTypeOK
  <2> QED BY <1>1, <2>1, <2>2, <2>3, <2>4, HeldRelease DEF Steps
<1>3. CASE Enter(o)
  <2>1. Goto(o, "acquire") /\ UNCHANGED <<owner, depth, forcing, bypassing>>
    BY <1>3 DEF Enter, lockVars, callVars
  <2>2. ~Inside(o)'
    BY <1>1, <2>1 DEF Inside, Goto, LockInv, LockTypeOK
  <2> QED BY <1>1, <2>1, <2>2, HeldMove DEF Steps
<1>4. CASE Exit(o) \/ EndCommand(o)
  <2>1. PICK step \in {"leave", "release"} : Goto(o, step)
    BY <1>4 DEF Exit, EndCommand
  <2>2. pc[o] = "body" /\ UNCHANGED <<owner, depth, forcing, bypassing>>
    BY <1>4 DEF Exit, EndCommand, lockVars, callVars
  <2>3. owner = o
    BY <1>1, <2>2 DEF Held, Inside
  <2> QED BY <1>1, <2>1, <2>2, <2>3, HeldMove DEF Steps
<1> QED BY <1>2, <1>3, <1>4

\* The steps of run.
LEMMA HeldLoop ==
    ASSUME LockInv, Held, LoopStep, "rpc" \notin MayRaise
    PROVE  Held'
<1>1. Loop \in Threads /\ Loop \notin bypassing
  BY ThreadNames DEF Threads, LockInv, LockTypeOK
<1>2. CASE Start \/ Clear \/ Peek \/ Awake \/ RpcReturns
  <2>1. PICK step \in {"clear", "peek", "wait", "ended", "take", "retake"} : Goto(Loop, step)
    BY <1>2 DEF Start, Clear, Peek, Awake, RpcReturns, AfterRpc
  <2>2. UNCHANGED <<owner, depth, forcing, bypassing>>
    BY <1>2 DEF Start, Clear, Peek, Awake, RpcReturns, lockVars, callVars
  <2>3. ~Inside(Loop)'
    BY <1>1, <2>1 DEF Inside, Goto, LockInv, LockTypeOK
  <2> QED BY <1>1, <2>1, <2>2, <2>3, HeldMove DEF Steps
<1>3. CASE Pop \/ RunTask
  <2>1. PICK step \in {"task", "release", "schedule"} : Goto(Loop, step)
    BY <1>3 DEF Pop, RunTask, Done
  <2>2. pc[Loop] \in {"pop", "task"} /\ UNCHANGED <<owner, depth, forcing, bypassing>>
    BY <1>3 DEF Pop, RunTask, lockVars, callVars
  <2>3. owner = Loop
    BY <1>1, <2>2 DEF Held, Inside
  <2> QED BY <1>1, <2>1, <2>2, <2>3, HeldMove DEF Steps
<1>4. CASE NotifyTask \/ ReleaseLoop
  <2>1. pc[Loop] \in {"task", "release"} /\ UNCHANGED <<forcing, bypassing>>
    BY <1>4 DEF NotifyTask, ReleaseLoop, callVars
  <2>2. PICK ok \in {"rpc", "clear"}, raise \in {"release", "died"} : Release(Loop, ok, raise)
    BY <1>4 DEF NotifyTask, ReleaseLoop
  <2>3. owner = Loop
    BY <1>1, <2>1 DEF Held, Inside
  <2>4. ~Inside(Loop)'
    BY <1>1, <2>2, <2>3 DEF Release, Inside, Goto, LockInv, LockTypeOK
  <2> QED BY <1>1, <2>1, <2>2, <2>3, <2>4, HeldRelease DEF Steps
<1> QED BY <1>2, <1>3, <1>4 DEF LoopStep

\* Every step keeps it.
LEMMA HeldNext ==
    ASSUME MayTimeOut = FALSE, "rpc" \notin MayRaise, LockInv, Held, [Next]_vars
    PROVE  Held'
<1>1. CASE (\E task \in Tasks : Elapse(task)) \/ UNCHANGED vars
  <2>1. UNCHANGED <<owner, depth, forcing, bypassing, pc>>
    BY <1>1 DEF Elapse, vars, lockVars, callVars
  <2> QED BY <2>1 DEF Held, Inside
<1>2. ASSUME NEW t \in Threads,
             Acquire(t) \/ TimeOut(t) \/ ForceRelease(t) \/ Push(t) \/ Signal(t)
      PROVE  Held'
  <2>1. ~TimeOut(t) /\ ~ForceRelease(t)
    BY DEF TimeOut, ForceRelease, Held
  <2> QED BY <1>2, <2>1, HeldAcquire, HeldPush
<1>3. ASSUME NEW w \in Workers,
             \/ Call(w) \/ Return(w) \/ Raise(w) \/ WorkerStep(w)
             \/ \E task \in Tasks \ PeriodicTasks : Schedule(w, task)
      PROVE  Held'
  <2>1. \/ Call(w) \/ Return(w) \/ Raise(w) \/ WorkerStep(w)
        \/ \E task \in Tasks : Schedule(w, task)
    BY <1>3
  <2> QED BY <2>1, HeldWorker
<1> QED BY <1>1, <1>2, <1>3, HeldLoop, HeldOther DEF Next

\* The exclusion that the lock is for: without timeouts and RPCs that raise, no
\* two threads are in sections under the lock at once, for any number of workers
\* that raise and that bypass the lock.
THEOREM LockExcludes ==
    ASSUME MayTimeOut = FALSE, "rpc" \notin MayRaise
    PROVE  Spec => []LockedSectionsExclude
<1>1. Init => Held
  BY DEF Init, Held, Inside
<1>2. LockInv /\ Held /\ [Next]_vars => Held'
  BY HeldNext
<1>3. Held => LockedSectionsExclude
  BY DEF Held, LockedSectionsExclude
<1> QED BY <1>1, <1>2, <1>3, InitLockInv, NextLockInv, PTL DEF Spec

\* A step of another thread leaves the loop where it is.
LEMMA LoopStays ==
    ASSUME LockInv, NEW t \in Threads \ {Loop}, NEW step, Goto(t, step)
    PROVE  pc'[Loop] = pc[Loop]
BY ThreadNames DEF Goto, LockInv, LockTypeOK, Threads

\* Then the release in the finally of the loop never raises, and run ends only
\* when it is told to stop.
THEOREM LoopGoesOn ==
    ASSUME MayTimeOut = FALSE, "rpc" \notin MayRaise
    PROVE  Spec => []LoopSurvives
<1>1. Init => Held /\ LoopSurvives
  BY ThreadNames DEF Init, Held, Inside, LoopSurvives, Threads
<1>2. LockInv /\ Held /\ LoopSurvives /\ [Next]_vars => LoopSurvives'
  <2> SUFFICES ASSUME LockInv, Held, LoopSurvives, [Next]_vars PROVE LoopSurvives'
    OBVIOUS
  <2>0. Loop \in Threads /\ Loop \notin bypassing /\ pc \in [Threads -> Steps]
    BY ThreadNames DEF Threads, LockInv, LockTypeOK
  <2>1. CASE (\E task \in Tasks : Elapse(task)) \/ UNCHANGED vars
    BY <2>1 DEF Elapse, vars, LoopSurvives
  <2>2. CASE LoopStep
    <3>1. CASE ReleaseLoop
      <4>1. owner = Loop
        BY <2>0, <3>1 DEF ReleaseLoop, Held, Inside
      <4>2. Goto(Loop, "clear")
        BY <3>1, <4>1 DEF ReleaseLoop, Release
      <4> QED BY <2>0, <4>2 DEF Goto, LoopSurvives
    <3>2. CASE ~ReleaseLoop
      <4>1. PICK step \in Steps \ {"died"} : Goto(Loop, step)
        BY <2>2, <3>2 DEF LoopStep, Start, Clear, Peek, Awake, Pop, RunTask, Done, NotifyTask,
             Release, RpcReturns, AfterRpc, Steps
      <4> QED BY <2>0, <4>1 DEF Goto, LoopSurvives
    <3> QED BY <3>1, <3>2
  <2>3. ASSUME NEW t \in Threads,
               Acquire(t) \/ TimeOut(t) \/ ForceRelease(t) \/ Push(t) \/ Signal(t)
        PROVE  LoopSurvives'
    <3>1. CASE t = Loop
      <4>1. PICK step \in Steps \ {"died"} : Goto(Loop, step)
        BY <2>0, <2>3, <3>1, AcquiredSteps
           DEF Acquire, Waiting, TimeOut, ForceRelease, Push, Signal, EndTimeout, Release, Held, Steps
      <4> QED BY <2>0, <4>1 DEF Goto, LoopSurvives
    <3>2. CASE t # Loop
      <4>1. PICK step : Goto(t, step)
        BY <2>3 DEF Acquire, TimeOut, ForceRelease, Push, Signal, EndTimeout, Release, Held
      <4> QED BY <3>2, <4>1, LoopStays DEF LoopSurvives
    <3> QED BY <3>1, <3>2
  <2>4. ASSUME NEW w \in Workers,
               \/ Call(w) \/ Return(w) \/ Raise(w) \/ WorkerStep(w)
               \/ \E task \in Tasks \ PeriodicTasks : Schedule(w, task)
        PROVE  LoopSurvives'
    <3>1. PICK step : Goto(w, step)
      BY <2>4 DEF Call, Return, Raise, WorkerStep, SetContext, ReleaseCall, Release, ResetContext,
           Schedule
    <3> QED BY <3>1, ThreadNames, LoopStays DEF LoopSurvives
  <2>5. ASSUME NEW o \in Others, Enter(o) \/ Exit(o) \/ EndCommand(o) \/ ReleaseCommand(o)
        PROVE  LoopSurvives'
    <3>1. PICK step : Goto(o, step)
      BY <2>5 DEF Enter, Exit, EndCommand, ReleaseCommand, Release
    <3>2. o \in Threads \ {Loop}
      BY EventSystemAssumption DEF Threads
    <3> QED BY <3>1, <3>2, LoopStays DEF LoopSurvives
  <2> QED BY <2>1, <2>2, <2>3, <2>4, <2>5 DEF Next
<1>3. LockInv /\ Held /\ [Next]_vars => Held'
  BY HeldNext
<1> QED BY <1>1, <1>2, <1>3, InitLockInv, NextLockInv, PTL DEF Spec


-----------------------------------------------------------------------------
(* The tasks: pending, taken by the loop, on their way to the queue.       *)

Scheduling == {"schedule", "push", "signal"}

\* A thread in set_timeout that has not put its task into the queue yet.
Holding(t) == pc[t] \in {"schedule", "push"}

\* The task a thread is about to put into the queue is not there yet, and nobody
\* else has it; only the loop has tasks of set_interval.
Carries ==
    \A t \in Threads :
        /\ pc[t] \in Scheduling \union {"task"} => current[t] # NoTask
        /\ Holding(t) => current[t] \notin Pending /\ \A u \in Threads \ {t} : current[u] # current[t]
        /\ t # Loop => current[t] \notin PeriodicTasks

\* The loop has a task from the moment it takes it until it has run it, and a
\* task of set_interval until it is in the queue again.
LoopCarries ==
    /\ pc[Loop] = "task" => current[Loop] \notin Pending
    /\ pc[Loop] = "signal" => current[Loop] \in Pending
    /\ pc[Loop] \in Scheduling => current[Loop] \in PeriodicTasks
    /\ pc[Loop] \notin Scheduling \union {"task"} => current[Loop] = NoTask

QueueOK == queue \in Seq(Tasks) /\ IsInjective(queue) /\ due \in 0..Len(queue)

CurrentOK == current \in [Threads -> Tasks \union {NoTask}]

FlagsOK == newTask \in BOOLEAN /\ stop \in BOOLEAN /\ timed \in BOOLEAN /\ context \in BOOLEAN

TaskInv == QueueOK /\ CurrentOK /\ Carries /\ LoopCarries

\* NoTask is no task, and the loop is a thread like the others.
LEMMA TaskNames ==
    /\ NoTask \notin Tasks /\ NoTask \notin PeriodicTasks
    /\ Loop \in Threads /\ Workers \subseteq Threads \ {Loop} /\ Others \subseteq Threads \ {Loop}
BY EventSystemAssumption DEF Threads

\* What an insertion does to a sequence of tasks.
LEMMA InsertTask ==
    ASSUME NEW q \in Seq(Tasks), NEW e \in Tasks, NEW i \in 1..Len(q) + 1
    PROVE  /\ InsertAt(q, i, e) \in Seq(Tasks)
           /\ Len(InsertAt(q, i, e)) = Len(q) + 1
           /\ \A j \in 1..Len(q) + 1 :
                InsertAt(q, i, e)[j] = IF j < i THEN q[j] ELSE IF j = i THEN e ELSE q[j - 1]
<1> DEFINE front == SubSeq(q, 1, i - 1)
           back  == SubSeq(q, i, Len(q))
           start == front \o <<e>>
<1>1. Len(q) \in Nat /\ \A j \in 1..Len(q) : q[j] \in Tasks
  BY ElementOfSeq
<1>2. /\ front \in Seq(Tasks) /\ Len(front) = i - 1
      /\ \A j \in 1..(i - 1) : front[j] = q[j]
  BY <1>1, SubSeqProperties
<1>3. /\ back \in Seq(Tasks) /\ Len(back) = Len(q) - i + 1
      /\ \A j \in 1..(Len(q) - i + 1) : back[j] = q[i + j - 1]
  BY <1>1, SubSeqProperties
<1>4. <<e>> \in Seq(Tasks) /\ Len(<<e>>) = 1 /\ <<e>>[1] = e
  OBVIOUS
<1>5. InsertAt(q, i, e) = start \o back
  BY DEF InsertAt
<1> HIDE DEF front, back
<1>6. /\ start \in Seq(Tasks) /\ Len(start) = i
      /\ \A j \in 1..i : start[j] = IF j <= i - 1 THEN front[j] ELSE <<e>>[j - (i - 1)]
  BY <1>1, <1>2, <1>4, ConcatProperties
<1>7. \A j \in 1..i : start[j] = IF j < i THEN q[j] ELSE e
  BY <1>1, <1>2, <1>4, <1>6
<1> HIDE DEF start
<1>8. /\ start \o back \in Seq(Tasks) /\ Len(start \o back) = Len(start) + Len(back)
      /\ \A j \in 1..Len(start) + Len(back) :
           (start \o back)[j] = IF j <= Len(start) THEN start[j] ELSE back[j - Len(start)]
  BY <1>3, <1>6, ConcatProperties
<1>9. Len(start) = i /\ Len(start) + Len(back) = Len(q) + 1
  BY <1>1, <1>3, <1>6
<1>10. ASSUME NEW j \in 1..Len(q) + 1
       PROVE  (start \o back)[j] = IF j < i THEN q[j] ELSE IF j = i THEN e ELSE q[j - 1]
  <2>1. CASE j <= i
    BY <1>1, <1>7, <1>8, <1>9, <2>1
  <2>2. CASE j > i
    <3>1. j - i \in 1..(Len(q) - i + 1) /\ i + (j - i) - 1 = j - 1
      BY <1>1, <2>2
    <3>2. back[j - i] = q[j - 1]
      BY <1>3, <3>1
    <3>3. (start \o back)[j] = back[j - i]
      BY <1>1, <1>8, <1>9, <2>2
    <3> QED BY <1>1, <2>2, <3>2, <3>3
  <2>3. j <= i \/ j > i
    BY <1>1
  <2> QED BY <2>1, <2>2, <2>3
<1> QED BY <1>5, <1>8, <1>9, <1>10

\* A task that is inserted is new, and the others stay.
LEMMA InsertNew ==
    ASSUME NEW q \in Seq(Tasks), IsInjective(q), NEW e \in Tasks \ ToSet(q),
           NEW i \in 1..Len(q) + 1
    PROVE  /\ IsInjective(InsertAt(q, i, e))
           /\ ToSet(InsertAt(q, i, e)) = ToSet(q) \union {e}
<1> DEFINE r == InsertAt(q, i, e)
<1>1. /\ Len(q) \in Nat /\ r \in Seq(Tasks) /\ Len(r) = Len(q) + 1
      /\ \A j \in 1..Len(q) + 1 : r[j] = IF j < i THEN q[j] ELSE IF j = i THEN e ELSE q[j - 1]
  BY InsertTask
<1> HIDE DEF r
<1>2. DOMAIN r = 1..Len(q) + 1 /\ DOMAIN q = 1..Len(q)
  BY <1>1
<1>3. \A j \in 1..Len(q) : q[j] # e
  BY <1>2 DEF ToSet
<1>4. \A a, b \in 1..Len(q) : q[a] = q[b] => a = b
  BY <1>2 DEF IsInjective
<1>5. ASSUME NEW a \in 1..Len(q) + 1, NEW b \in 1..Len(q) + 1, a < b PROVE r[a] # r[b]
  <2>1. CASE b < i
    <3>1. a \in 1..Len(q) /\ b \in 1..Len(q) /\ r[a] = q[a] /\ r[b] = q[b]
      BY <1>1, <1>5, <2>1
    <3> QED BY <1>4, <1>5, <3>1
  <2>2. CASE b = i
    <3>1. a \in 1..Len(q) /\ r[a] = q[a] /\ r[b] = e
      BY <1>1, <1>5, <2>2
    <3> QED BY <1>3, <3>1
  <2>3. CASE b > i /\ a < i
    <3>1. a \in 1..Len(q) /\ b - 1 \in 1..Len(q) /\ r[a] = q[a] /\ r[b] = q[b - 1] /\ a # b - 1
      BY <1>1, <1>5, <2>3
    <3> QED BY <1>4, <3>1
  <2>4. CASE b > i /\ a = i
    <3>1. b - 1 \in 1..Len(q) /\ r[a] = e /\ r[b] = q[b - 1]
      BY <1>1, <1>5, <2>4
    <3> QED BY <1>3, <3>1
  <2>5. CASE b > i /\ a > i
    <3>1. a - 1 \in 1..Len(q) /\ b - 1 \in 1..Len(q) /\ r[a] = q[a - 1] /\ r[b] = q[b - 1]
          /\ a - 1 # b - 1
      BY <1>1, <1>5, <2>5
    <3> QED BY <1>4, <3>1
  <2> QED BY <2>1, <2>2, <2>3, <2>4, <2>5
<1>6. IsInjective(r)
  <2>1. SUFFICES ASSUME NEW a \in DOMAIN r, NEW b \in DOMAIN r, r[a] = r[b] PROVE a = b
    BY DEF IsInjective
  <2>2. a \in 1..Len(q) + 1 /\ b \in 1..Len(q) + 1
    BY <1>2
  <2>3. ~(a < b) /\ ~(b < a)
    BY <1>5, <2>1, <2>2
  <2> QED BY <1>1, <2>2, <2>3
<1>7. ASSUME NEW x PROVE x \in ToSet(r) <=> x \in ToSet(q) \union {e}
  <2>1. ASSUME NEW j \in 1..Len(q) + 1, x = r[j] PROVE x \in ToSet(q) \union {e}
    <3>1. j < i \/ j = i \/ j > i
      BY <1>1, <2>1
    <3>2. CASE j < i
      <4>1. j \in 1..Len(q) /\ r[j] = q[j]
        BY <1>1, <3>2
      <4> QED BY <1>2, <2>1, <4>1 DEF ToSet
    <3>3. CASE j = i
      BY <1>1, <2>1, <3>3
    <3>4. CASE j > i
      <4>1. j - 1 \in 1..Len(q) /\ r[j] = q[j - 1]
        BY <1>1, <3>4
      <4> QED BY <1>2, <2>1, <4>1 DEF ToSet
    <3> QED BY <3>1, <3>2, <3>3, <3>4
  <2>2. ASSUME NEW j \in 1..Len(q), x = q[j] PROVE x \in ToSet(r)
    <3>1. CASE j < i
      <4>1. j \in 1..Len(q) + 1 /\ r[j] = q[j]
        BY <1>1, <3>1
      <4> QED BY <1>2, <2>2, <4>1 DEF ToSet
    <3>2. CASE ~(j < i)
      <4>1. j + 1 \in 1..Len(q) + 1 /\ r[j + 1] = q[j]
        BY <1>1, <3>2
      <4> QED BY <1>2, <2>2, <4>1 DEF ToSet
    <3> QED BY <3>1, <3>2
  <2>3. e \in ToSet(r)
    <3>1. r[i] = e /\ i \in DOMAIN r
      BY <1>1, <1>2
    <3> QED BY <3>1 DEF ToSet
  <2> QED BY <1>2, <2>1, <2>2, <2>3 DEF ToSet
<1> QED BY <1>6, <1>7 DEF r

\* The first task leaves the queue, and the others stay.
LEMMA TailTask ==
    ASSUME NEW q \in Seq(Tasks), IsInjective(q), q # <<>>
    PROVE  /\ Tail(q) \in Seq(Tasks) /\ Len(Tail(q)) = Len(q) - 1 /\ Len(q) > 0
           /\ IsInjective(Tail(q))
           /\ Head(q) \in ToSet(q) /\ Head(q) \in Tasks
           /\ ToSet(Tail(q)) = ToSet(q) \ {Head(q)}
<1> DEFINE r == Tail(q)
<1>1. /\ Len(q) \in Nat /\ Len(q) > 0 /\ r \in Seq(Tasks) /\ Len(r) = Len(q) - 1
      /\ \A j \in 1..Len(r) : r[j] = q[j + 1]
  BY HeadTailProperties, EmptySeq
<1>2. Head(q) = q[1] /\ Head(q) \in Tasks
  BY <1>1, HeadTailProperties
<1> HIDE DEF r
<1>3. DOMAIN r = 1..(Len(q) - 1) /\ DOMAIN q = 1..Len(q)
  BY <1>1
<1>4. \A a, b \in 1..Len(q) : q[a] = q[b] => a = b
  BY <1>3 DEF IsInjective
<1>5. IsInjective(r)
  <2>1. SUFFICES ASSUME NEW a \in DOMAIN r, NEW b \in DOMAIN r, r[a] = r[b] PROVE a = b
    BY DEF IsInjective
  <2>2. a + 1 \in 1..Len(q) /\ b + 1 \in 1..Len(q) /\ r[a] = q[a + 1] /\ r[b] = q[b + 1]
    BY <1>1, <1>3
  <2>3. a + 1 = b + 1
    BY <1>4, <2>1, <2>2
  <2> QED BY <1>1, <1>3, <2>3
<1>6. Head(q) \in ToSet(q)
  <2>1. 1 \in DOMAIN q
    BY <1>1, <1>3
  <2> QED BY <1>2, <2>1 DEF ToSet
<1>7. ASSUME NEW x PROVE x \in ToSet(r) <=> x \in ToSet(q) \ {Head(q)}
  <2>1. ASSUME NEW j \in DOMAIN r, x = r[j] PROVE x \in ToSet(q) /\ x # Head(q)
    <3>1. j + 1 \in 1..Len(q) /\ r[j] = q[j + 1] /\ j + 1 # 1 /\ 1 \in 1..Len(q)
      BY <1>1, <1>3
    <3>2. q[j + 1] # q[1]
      BY <1>4, <3>1
    <3> QED BY <1>2, <1>3, <2>1, <3>1, <3>2 DEF ToSet
  <2>2. ASSUME NEW j \in DOMAIN q, x = q[j], x # Head(q) PROVE x \in ToSet(r)
    <3>1. j # 1
      BY <1>2, <2>2
    <3>2. j - 1 \in 1..(Len(q) - 1) /\ r[j - 1] = q[j]
      BY <1>1, <1>3, <3>1
    <3> QED BY <1>3, <2>2, <3>2 DEF ToSet
  <2> QED BY <2>1, <2>2 DEF ToSet
<1> QED BY <1>1, <1>2, <1>5, <1>6, <1>7 DEF r

\* A thread that keeps what it has goes on: with a task to put into the queue,
\* from schedule to push only.
LEMMA CarryMove ==
    ASSUME LockInv, TaskInv, NEW t \in Threads, NEW step \in Steps, Goto(t, step),
           UNCHANGED <<queue, due, current>>,
           step \notin {"task", "schedule", "signal"},
           step = "push" => pc[t] = "schedule",
           t = Loop => \/ step = "push"
                       \/ pc[Loop] \notin Scheduling \union {"task"}
    PROVE  TaskInv'
<1>1. pc'[t] = step /\ \A u \in Threads \ {t} : pc'[u] = pc[u]
  BY DEF LockInv, LockTypeOK, Goto
<1>2. Carries'
  <2>1. \A u \in Threads : Holding(u)' => Holding(u)
    BY <1>1 DEF Holding
  <2> QED BY <1>1, <2>1 DEF TaskInv, Carries, Scheduling, Pending
<1>3. LoopCarries'
  BY <1>1, TaskNames DEF TaskInv, LoopCarries, Scheduling, Pending
<1> QED BY <1>2, <1>3 DEF TaskInv, QueueOK, CurrentOK

\* A thread lets go of its task.
LEMMA CarryDrop ==
    ASSUME LockInv, TaskInv, NEW t \in Threads, NEW step \in Steps, Goto(t, step),
           UNCHANGED <<queue, due>>, current' = [current EXCEPT ![t] = NoTask],
           step \notin Scheduling \union {"task"}
    PROVE  TaskInv'
<1>1. pc'[t] = step /\ \A u \in Threads \ {t} : pc'[u] = pc[u]
  BY DEF LockInv, LockTypeOK, Goto
<1>2. current'[t] = NoTask /\ \A u \in Threads \ {t} : current'[u] = current[u]
  BY DEF TaskInv, CurrentOK
<1>3. CurrentOK'
  BY DEF TaskInv, CurrentOK
<1>4. Carries'
  <2>1. ~Holding(t)'
    BY <1>1 DEF Holding, Scheduling
  <2>2. ASSUME NEW u \in Threads \ {t}
        PROVE  /\ pc'[u] \in Scheduling \union {"task"} => current'[u] # NoTask
               /\ Holding(u)' => /\ current'[u] \notin Pending'
                                 /\ \A v \in Threads \ {u} : current'[v] # current'[u]
               /\ u # Loop => current'[u] \notin PeriodicTasks
    <3>1. Holding(u)' => Holding(u) /\ pc[u] \in Scheduling
      BY <1>1 DEF Holding, Scheduling
    <3> QED BY <1>1, <1>2, <3>1 DEF TaskInv, Carries, Pending
  <2> QED BY <1>1, <1>2, <2>1, <2>2, TaskNames DEF Carries
<1>5. LoopCarries'
  <2>1. CASE t = Loop
    BY <1>1, <1>2, <2>1 DEF LoopCarries, Scheduling
  <2>2. CASE t # Loop
    BY <1>1, <1>2, <2>2, TaskNames DEF TaskInv, LoopCarries, Pending
  <2> QED BY <2>1, <2>2
<1> QED BY <1>3, <1>4, <1>5 DEF TaskInv, QueueOK

\* A method schedules a task that nobody has.
LEMMA ScheduleOK ==
    ASSUME LockInv, TaskInv, NEW w \in Workers, NEW task \in Tasks \ PeriodicTasks,
           Schedule(w, task)
    PROVE  TaskInv'
<1>0. w \in Threads /\ w # Loop
  BY TaskNames
<1>1. /\ pc'[w] = "schedule" /\ \A u \in Threads \ {w} : pc'[u] = pc[u]
      /\ UNCHANGED <<queue, due>>
  BY <1>0 DEF LockInv, LockTypeOK, Schedule, Goto, taskVars
<1>2. /\ current'[w] = task /\ \A u \in Threads \ {w} : current'[u] = current[u]
      /\ CurrentOK'
  BY <1>0 DEF TaskInv, CurrentOK, Schedule
<1>3. task \notin Pending /\ \A u \in Threads : current[u] # task
  BY DEF Schedule
<1>4. Carries'
  <2>1. ASSUME NEW u \in Threads \ {w}
        PROVE  /\ pc'[u] \in Scheduling \union {"task"} => current'[u] # NoTask
               /\ Holding(u)' => /\ current'[u] \notin Pending'
                                 /\ \A v \in Threads \ {u} : current'[v] # current'[u]
               /\ u # Loop => current'[u] \notin PeriodicTasks
    <3>1. Holding(u)' <=> Holding(u)
      BY <1>1 DEF Holding
    <3> QED BY <1>1, <1>2, <1>3, <3>1 DEF TaskInv, Carries, Pending
  <2> QED BY <1>1, <1>2, <1>3, <2>1, TaskNames DEF Carries, Pending
<1>5. LoopCarries'
  BY <1>0, <1>1, <1>2, TaskNames DEF TaskInv, LoopCarries, Pending
<1> QED BY <1>1, <1>2, <1>4, <1>5 DEF TaskInv, QueueOK

\* The task comes into the queue.
LEMMA PushTask ==
    ASSUME LockInv, TaskInv, NEW t \in Threads, Push(t)
    PROVE  /\ TaskInv'
           /\ Pending' = Pending \union {current[t]} /\ UNCHANGED current
<1>0. pc[t] = "push" /\ Holding(t) /\ UNCHANGED <<due, current>>
  BY DEF Push, Holding
<1>1. pc'[t] = "signal" /\ \A u \in Threads \ {t} : pc'[u] = pc[u]
  BY DEF LockInv, LockTypeOK, Push, Goto
<1>2. /\ queue \in Seq(Tasks) /\ IsInjective(queue) /\ due \in 0..Len(queue)
      /\ current[t] \in Tasks \ Pending
  BY <1>0 DEF TaskInv, QueueOK, CurrentOK, Carries, Scheduling
<1>3. PICK i \in due + 1 .. Len(queue) + 1 : queue' = InsertAt(queue, i, current[t])
  BY DEF Push
<1>4. i \in 1..Len(queue) + 1 /\ Len(queue) \in Nat
  BY <1>2
<1>5. /\ queue' \in Seq(Tasks) /\ Len(queue') = Len(queue) + 1
      /\ IsInjective(queue') /\ Pending' = Pending \union {current[t]}
  BY <1>2, <1>3, <1>4, InsertTask, InsertNew DEF Pending
<1>6. due' \in 0..Len(queue')
  BY <1>0, <1>2, <1>4, <1>5
<1>7. Carries'
  <2>1. ASSUME NEW u \in Threads
        PROVE  Holding(u)' => /\ current'[u] \notin Pending'
                              /\ \A v \in Threads \ {u} : current'[v] # current'[u]
    <3>1. Holding(u)' => u # t /\ Holding(u)
      BY <1>1 DEF Holding
    <3>2. Holding(u) /\ u # t => current[u] # current[t]
      BY DEF TaskInv, Carries
    <3> QED BY <1>0, <1>5, <3>1, <3>2 DEF TaskInv, Carries
  <2>2. \A u \in Threads : pc'[u] \in Scheduling \union {"task"} => pc[u] \in Scheduling \union {"task"}
    BY <1>0, <1>1 DEF Scheduling
  <2> QED BY <1>0, <2>1, <2>2 DEF TaskInv, Carries
<1>8. LoopCarries'
  <2>1. CASE t = Loop
    BY <1>0, <1>1, <1>5, <2>1 DEF TaskInv, LoopCarries, Scheduling
  <2>2. CASE t # Loop
    <3>1. pc[Loop] = "task" => current[Loop] # current[t]
      BY <1>0, <2>2, TaskNames DEF TaskInv, Carries
    <3> QED BY <1>0, <1>1, <1>5, <2>2, <3>1, TaskNames DEF TaskInv, LoopCarries
  <2> QED BY <2>1, <2>2
<1> QED BY <1>0, <1>5, <1>6, <1>7, <1>8 DEF TaskInv, QueueOK, CurrentOK

\* The loop takes the first task.
LEMMA PopTask ==
    ASSUME LockInv, TaskInv, Pop, due > 0
    PROVE  /\ TaskInv'
           /\ current'[Loop] \in Pending /\ Pending' = Pending \ {current'[Loop]}
           /\ current[Loop] = NoTask
<1>0. pc[Loop] = "pop" /\ current[Loop] = NoTask
  BY DEF Pop, TaskInv, LoopCarries, Scheduling
<1>1. queue \in Seq(Tasks) /\ IsInjective(queue) /\ due \in 0..Len(queue)
  BY DEF TaskInv, QueueOK
<1>2. queue # <<>> /\ due \in Nat /\ Len(queue) \in Nat
  BY <1>1
<1>3. /\ queue' = Tail(queue) /\ due' = due - 1
      /\ current' = [current EXCEPT ![Loop] = Head(queue)] /\ Goto(Loop, "task")
  BY <1>2 DEF Pop, TakeFirst
<1>4. pc'[Loop] = "task" /\ \A u \in Threads \ {Loop} : pc'[u] = pc[u]
  BY <1>3, TaskNames DEF LockInv, LockTypeOK, Goto
<1>5. current'[Loop] = Head(queue) /\ \A u \in Threads \ {Loop} : current'[u] = current[u]
  BY <1>3, TaskNames DEF TaskInv, CurrentOK
<1>6. /\ queue' \in Seq(Tasks) /\ IsInjective(queue') /\ Len(queue') = Len(queue) - 1
      /\ Head(queue) \in Tasks /\ Head(queue) \in Pending
      /\ Pending' = Pending \ {Head(queue)}
  BY <1>1, <1>2, <1>3, TailTask DEF Pending
<1>7. due' \in 0..Len(queue')
  BY <1>1, <1>2, <1>3, <1>6
<1>8. CurrentOK'
  BY <1>3, <1>6 DEF TaskInv, CurrentOK
<1>9. Carries'
  <2>1. ASSUME NEW u \in Threads \ {Loop}
        PROVE  /\ pc'[u] \in Scheduling \union {"task"} => current'[u] # NoTask
               /\ Holding(u)' => /\ current'[u] \notin Pending'
                                 /\ \A v \in Threads \ {u} : current'[v] # current'[u]
               /\ u # Loop => current'[u] \notin PeriodicTasks
    <3>1. Holding(u)' => Holding(u)
      BY <1>4 DEF Holding
    <3>2. Holding(u) => current[u] # Head(queue)
      BY <1>6 DEF TaskInv, Carries
    <3> QED BY <1>4, <1>5, <1>6, <3>1, <3>2 DEF TaskInv, Carries
  <2>2. ~Holding(Loop)' /\ current'[Loop] # NoTask
    BY <1>4, <1>5, <1>6, TaskNames DEF Holding
  <2> QED BY <2>1, <2>2 DEF Carries
<1>10. LoopCarries'
  BY <1>4, <1>5, <1>6 DEF LoopCarries, Scheduling
<1> QED BY <1>0, <1>5, <1>6, <1>7, <1>8, <1>9, <1>10 DEF TaskInv, QueueOK

\* set_interval begins to schedule its task again.
LEMMA Again ==
    ASSUME LockInv, TaskInv, pc[Loop] = "task", current[Loop] \in PeriodicTasks,
           Goto(Loop, "schedule"), UNCHANGED <<queue, due, current>>
    PROVE  TaskInv'
<1>1. pc'[Loop] = "schedule" /\ \A u \in Threads \ {Loop} : pc'[u] = pc[u]
  BY TaskNames DEF LockInv, LockTypeOK, Goto
<1>2. current[Loop] \notin Pending /\ \A u \in Threads \ {Loop} : current[u] # current[Loop]
  BY DEF TaskInv, LoopCarries, Carries
<1>3. Carries'
  <2>1. \A u \in Threads \ {Loop} : Holding(u)' <=> Holding(u)
    BY <1>1 DEF Holding
  <2>2. current[Loop] # NoTask
    BY TaskNames
  <2> QED BY <1>1, <1>2, <2>1, <2>2 DEF TaskInv, Carries, Pending
<1>4. LoopCarries'
  BY <1>1 DEF LoopCarries, Scheduling
<1> QED BY <1>3, <1>4 DEF TaskInv, QueueOK, CurrentOK

\* The time of a task comes: the task is found in the queue.
LEMMA ElapseOK ==
    ASSUME TaskInv, NEW task \in Tasks, Elapse(task)
    PROVE  TaskInv'
<1>1. queue \in Seq(Tasks) /\ UNCHANGED <<queue, pc, current>> /\ task \in Pending
  BY DEF TaskInv, QueueOK, Elapse
<1>2. \E i \in 1..Len(queue) : queue[i] = task
  BY <1>1 DEF Pending, ToSet
<1>3. due' \in 1..Len(queue)
  BY <1>2 DEF Elapse
<1>4. due' \in 0..Len(queue')
  BY <1>1, <1>3
<1> QED BY <1>1, <1>4 DEF TaskInv, QueueOK, CurrentOK, Carries, LoopCarries, Holding, Pending

\* The steps of a gRPC worker.
LEMMA WorkerTasks ==
    ASSUME LockInv, TaskInv, NEW w \in Workers,
           \/ Call(w) \/ Return(w) \/ Raise(w) \/ WorkerStep(w)
           \/ \E task \in Tasks \ PeriodicTasks : Schedule(w, task)
    PROVE  TaskInv'
<1>0. w \in Threads /\ w # Loop
  BY TaskNames
<1>1. CASE Call(w) \/ Return(w) \/ Raise(w) \/ WorkerStep(w)
  <2>1. PICK step \in {"idle", "set", "acquire", "body", "release", "cleanup", "reset"} :
          Goto(w, step)
    BY <1>1 DEF Call, Return, Raise, AfterRaise, WorkerStep, SetContext, ReleaseCall, Release,
         ResetContext
  <2>2. UNCHANGED <<queue, due, current>>
    BY <1>1 DEF Call, Return, Raise, WorkerStep, SetContext, ReleaseCall, ResetContext, taskVars
  <2> QED BY <1>0, <2>1, <2>2, CarryMove DEF Steps
<1> QED BY <1>1, ScheduleOK

\* The steps of the REPL and the port monitor.
LEMMA OtherTasks ==
    ASSUME LockInv, TaskInv, NEW o \in Others,
           Enter(o) \/ Exit(o) \/ EndCommand(o) \/ ReleaseCommand(o)
    PROVE  TaskInv'
<1>0. o \in Threads /\ o # Loop
  BY TaskNames
<1>1. PICK step \in {"idle", "acquire", "leave", "release", "gone"} : Goto(o, step)
  BY DEF Enter, Exit, EndCommand, ReleaseCommand, Release
<1>2. UNCHANGED <<queue, due, current>>
  BY DEF Enter, Exit, EndCommand, ReleaseCommand, taskVars
<1> QED BY <1>0, <1>1, <1>2, CarryMove DEF Steps

\* The steps of run that take no task and finish none.
LEMMA LoopMoves ==
    ASSUME LockInv, TaskInv,
           \/ Start \/ Clear \/ Peek \/ Awake \/ RpcReturns \/ ReleaseLoop
           \/ Pop /\ due = 0
    PROVE  TaskInv' /\ UNCHANGED <<queue, due, current>>
<1>1. PICK step \in {"clear", "peek", "wait", "ended", "take", "retake", "release", "died"} :
        Goto(Loop, step)
  BY DEF Start, Clear, Peek, Awake, RpcReturns, AfterRpc, ReleaseLoop, Release, Pop
<1>2. UNCHANGED <<queue, due, current>>
  <2>1. CASE Pop /\ due = 0
    BY <2>1 DEF Pop, PutBack, taskVars
  <2>2. CASE ~(Pop /\ due = 0)
    BY <2>2 DEF Start, Clear, Peek, Awake, RpcReturns, ReleaseLoop, taskVars
  <2> QED BY <2>1, <2>2
<1>3. pc[Loop] \in {"start", "clear", "peek", "wait", "rpc", "release", "pop"}
  BY DEF Start, Clear, Peek, Awake, RpcReturns, ReleaseLoop, Pop
<1> QED BY <1>1, <1>2, <1>3, TaskNames, CarryMove DEF Steps, Scheduling

\* The steps of run that finish a task.
LEMMA LoopDrops ==
    ASSUME LockInv, TaskInv, (RunTask \/ NotifyTask) /\ ~Goto(Loop, "schedule")
    PROVE  /\ TaskInv' /\ UNCHANGED <<queue, due>>
           /\ "task" \in MayRaise \/ current[Loop] \notin PeriodicTasks
<1>1. PICK step \in {"release", "rpc"} : Goto(Loop, step)
  BY DEF RunTask, NotifyTask, Done, Release
<1>2. UNCHANGED <<queue, due>> /\ current' = [current EXCEPT ![Loop] = NoTask]
  BY DEF RunTask, NotifyTask, Done, taskVars
<1>3. "task" \in MayRaise \/ current[Loop] \notin PeriodicTasks
  BY EventSystemAssumption DEF RunTask, NotifyTask
<1> QED BY <1>1, <1>2, <1>3, TaskNames, CarryDrop DEF Steps, Scheduling

\* set_interval schedules its task again.
LEMMA LoopAgain ==
    ASSUME LockInv, TaskInv, RunTask, Goto(Loop, "schedule")
    PROVE  TaskInv' /\ UNCHANGED <<queue, due, current>>
<1>1. ~Done("release")
  BY TaskNames DEF Done, Goto, LockInv, LockTypeOK
<1> QED BY <1>1, Again DEF RunTask, taskVars

\* The steps of run.
LEMMA LoopTasks ==
    ASSUME LockInv, TaskInv, LoopStep
    PROVE  TaskInv'
<1>1. CASE Pop /\ due # 0
  <2>1. due > 0
    BY <1>1 DEF TaskInv, QueueOK
  <2> QED BY <1>1, <2>1, PopTask
<1>2. CASE (RunTask \/ NotifyTask) /\ ~Goto(Loop, "schedule")
  BY <1>2, LoopDrops
<1>3. CASE RunTask /\ Goto(Loop, "schedule")
  BY <1>3, LoopAgain
<1>4. CASE NotifyTask /\ Goto(Loop, "schedule")
  <2>1. PICK step \in {"rpc", "release"} : Goto(Loop, step)
    BY <1>4 DEF NotifyTask, Release
  <2> QED BY <1>4, <2>1, TaskNames DEF Goto, LockInv, LockTypeOK
<1> QED BY <1>1, <1>2, <1>3, <1>4, LoopMoves DEF LoopStep

\* A thread that takes the lock, or goes on without it, keeps its task.
LEMMA AcquireTasks ==
    ASSUME LockInv, TaskInv, NEW t \in Threads, Waiting(t), Goto(t, Acquired[pc[t]]),
           UNCHANGED <<queue, due, current>>
    PROVE  TaskInv'
<1>1. /\ pc[t] \in {"acquire", "schedule", "take", "retake"}
      /\ Acquired[pc[t]] \in {"body", "push", "pop", "release"}
      /\ Acquired[pc[t]] = "push" <=> pc[t] = "schedule"
  BY AcquiredSteps DEF Waiting
<1> QED BY <1>1, CarryMove DEF Steps, Scheduling

\* The lock and set_timeout.
LEMMA ThreadTasks ==
    ASSUME LockInv, TaskInv, NEW t \in Threads,
           Acquire(t) \/ TimeOut(t) \/ ForceRelease(t) \/ Push(t) \/ Signal(t)
    PROVE  TaskInv'
<1>1. CASE Acquire(t)
  BY <1>1, AcquireTasks DEF Acquire, taskVars
<1>2. CASE TimeOut(t)
  <2>1. UNCHANGED <<queue, due, current, pc>>
    BY <1>2 DEF TimeOut, taskVars
  <2> QED BY <2>1 DEF TaskInv, QueueOK, CurrentOK, Carries, LoopCarries, Holding, Pending
<1>3. CASE ForceRelease(t)
  <2>0. Waiting(t) /\ UNCHANGED <<queue, due>>
    BY <1>3 DEF ForceRelease, LockInv, ForcingOK, taskVars
  <2>1. CASE Goto(t, Acquired[pc[t]]) /\ UNCHANGED current
    BY <2>0, <2>1, AcquireTasks
  <2>2. CASE Goto(t, Refused(t)) /\ current' = [current EXCEPT ![t] = NoTask]
    <3>1. Refused(t) \in {"idle", "gone", "cleanup", "release"}
      BY DEF Refused, AfterRaise
    <3> QED BY <2>0, <2>2, <3>1, CarryDrop DEF Steps, Scheduling
  <2> QED BY <1>3, <2>1, <2>2 DEF ForceRelease
<1>4. CASE Push(t)
  BY <1>4, PushTask
<1>5. CASE Signal(t)
  <2>1. PICK step \in {"release", "body", "idle", "cleanup"} : Goto(t, step)
    BY <1>5 DEF Signal, EndTimeout, Release, AfterRaise
  <2>2. UNCHANGED <<queue, due>> /\ current' = [current EXCEPT ![t] = NoTask]
    BY <1>5 DEF Signal, taskVars
  <2> QED BY <2>1, <2>2, CarryDrop DEF Steps, Scheduling
<1> QED BY <1>1, <1>2, <1>3, <1>4, <1>5

\* Nothing is taken, and what prepare scheduled is in the queue.
LEMMA InitTaskInv == Init => TaskInv /\ FlagsOK
<1> SUFFICES ASSUME Init PROVE TaskInv /\ FlagsOK
  OBVIOUS
<1>1. QueueOK
  BY EventSystemAssumption DEF Init, QueueOK
<1>2. CurrentOK /\ FlagsOK
  BY DEF Init, CurrentOK, FlagsOK
<1>3. Carries /\ LoopCarries
  BY TaskNames DEF Init, Carries, LoopCarries, Scheduling, Holding
<1> QED BY <1>1, <1>2, <1>3 DEF TaskInv

\* Every step keeps the tasks.
LEMMA NextTaskInv == LockInv /\ TaskInv /\ [Next]_vars => TaskInv'
<1> SUFFICES ASSUME LockInv, TaskInv, [Next]_vars PROVE TaskInv'
  OBVIOUS
<1>1. CASE UNCHANGED vars
  BY <1>1 DEF vars, taskVars, TaskInv, QueueOK, CurrentOK, Carries, LoopCarries, Holding, Pending
<1> QED BY <1>1, LoopTasks, WorkerTasks, OtherTasks, ThreadTasks, ElapseOK DEF Next

\* Every step leaves the flags flags.
LEMMA NextFlags == FlagsOK /\ [Next]_vars => FlagsOK'
<1> SUFFICES ASSUME FlagsOK, [Next]_vars PROVE FlagsOK'
  OBVIOUS
<1> DEFINE Flagged ==
             /\ newTask' \in {newTask, TRUE, FALSE} /\ stop' \in {stop, TRUE, FALSE}
             /\ timed' \in {timed, queue # <<>>} /\ context' \in {context, TRUE, FALSE}
<1>1. Flagged
  <2>1. CASE UNCHANGED vars
    BY <2>1 DEF vars, loopVars, callVars
  <2>2. CASE LoopStep
    BY <2>2 DEF LoopStep, Start, Clear, Peek, Awake, Pop, RunTask, NotifyTask, RpcReturns,
         ReleaseLoop, loopVars, callVars
  <2>3. ASSUME NEW t \in Threads,
               Acquire(t) \/ TimeOut(t) \/ ForceRelease(t) \/ Push(t) \/ Signal(t)
        PROVE  Flagged
    BY <2>3 DEF Acquire, TimeOut, ForceRelease, Push, Signal, Wake, loopVars, callVars
  <2>4. ASSUME NEW w \in Workers,
               \/ Call(w) \/ Return(w) \/ Raise(w) \/ WorkerStep(w)
               \/ \E task \in Tasks \ PeriodicTasks : Schedule(w, task)
        PROVE  Flagged
    BY <2>4 DEF Call, Return, Raise, WorkerStep, SetContext, ReleaseCall, ResetContext, Schedule,
         loopVars, callVars
  <2>5. ASSUME NEW o \in Others, Enter(o) \/ Exit(o) \/ EndCommand(o) \/ ReleaseCommand(o)
        PROVE  Flagged
    BY <2>5 DEF Enter, Exit, EndCommand, ReleaseCommand, loopVars, callVars
  <2>6. ASSUME NEW task \in Tasks, Elapse(task) PROVE Flagged
    BY <2>6 DEF Elapse, loopVars, callVars
  <2> QED BY <2>1, <2>2, <2>3, <2>4, <2>5, <2>6 DEF Next
<1> QED BY <1>1 DEF FlagsOK

\* The state of the event loop stays in its types: the set of tasks has no task
\* twice although methods schedule tasks while the loop takes others, the first
\* due of them are there, and the lock is held once, or twice in set_timeout.
THEOREM EventTypes == Spec => []TypeOK
<1>1. LockInv /\ TaskInv /\ FlagsOK => TypeOK
  <2> SUFFICES ASSUME LockInv, TaskInv, FlagsOK PROVE TypeOK
    OBVIOUS
  <2>1. depth \in 0..2 /\ (owner = NoThread <=> depth = 0)
    BY ThreadNames DEF LockInv, LockTypeOK, HolderOK
  <2>2. forcing \subseteq {t \in Threads : Waiting(t)}
    BY DEF LockInv, LockTypeOK, ForcingOK
  <2>3. owner \in Threads \union {NoThread} /\ pc \in [Threads -> Steps] /\ bypassing \subseteq Workers
    BY DEF LockInv, LockTypeOK
  <2>4. (owner = NoThread) = (depth = 0)
    BY <2>1
  <2> QED BY <2>1, <2>2, <2>3, <2>4 DEF TypeOK, TaskInv, QueueOK, CurrentOK, FlagsOK
<1> QED BY <1>1, InitLockInv, NextLockInv, InitTaskInv, NextTaskInv, NextFlags, PTL DEF Spec

\* Where no wait times out, nothing is ever forced.
NoForce == forcing = {}

\* A step of another thread takes no task from the loop, and puts none away.
LEMMA OthersKeep ==
    ASSUME TaskInv, NEW t \in Threads \ {Loop}, UNCHANGED <<queue, current>> \/
             (UNCHANGED queue /\ \E x : current' = [current EXCEPT ![t] = x]),
           NEW task, Kept(task)
    PROVE  Kept(task)'
BY TaskNames DEF TaskInv, CurrentOK, Kept, Pending

\* A task of set_interval is never lost, where no wait times out and no task
\* raises: in the queue, taken by the loop or on its way back it is always there
\* (EventSystem.set_interval and run), whatever methods and commands do.
THEOREM IntervalsLast ==
    ASSUME MayTimeOut = FALSE, "task" \notin MayRaise
    PROVE  Spec => IntervalKept
<1>1. Init => NoForce
  BY DEF Init, NoForce
<1>2. NoForce /\ [Next]_vars => NoForce'
  <2> SUFFICES ASSUME NoForce, [Next]_vars PROVE NoForce'
    OBVIOUS
  <2>1. CASE UNCHANGED vars
    BY <2>1 DEF vars, lockVars, NoForce
  <2>2. CASE LoopStep
    BY <2>2 DEF LoopStep, Start, Clear, Peek, Awake, Pop, RunTask, NotifyTask, RpcReturns,
         ReleaseLoop, lockVars, NoForce
  <2>3. ASSUME NEW t \in Threads,
               Acquire(t) \/ TimeOut(t) \/ ForceRelease(t) \/ Push(t) \/ Signal(t)
        PROVE  NoForce'
    BY <2>3 DEF Acquire, TimeOut, ForceRelease, Push, Signal, lockVars, NoForce
  <2>4. ASSUME NEW w \in Workers,
               \/ Call(w) \/ Return(w) \/ Raise(w) \/ WorkerStep(w)
               \/ \E task \in Tasks \ PeriodicTasks : Schedule(w, task)
        PROVE  NoForce'
    BY <2>4 DEF Call, Return, Raise, WorkerStep, SetContext, ReleaseCall, ResetContext, Schedule,
         lockVars, NoForce
  <2>5. ASSUME NEW o \in Others, Enter(o) \/ Exit(o) \/ EndCommand(o) \/ ReleaseCommand(o)
        PROVE  NoForce'
    BY <2>5 DEF Enter, Exit, EndCommand, ReleaseCommand, lockVars, NoForce
  <2>6. ASSUME NEW task \in Tasks, Elapse(task) PROVE NoForce'
    BY <2>6 DEF Elapse, lockVars, NoForce
  <2> QED BY <2>1, <2>2, <2>3, <2>4, <2>5, <2>6 DEF Next
<1>3. ASSUME LockInv, TaskInv, NoForce, [Next]_vars, NEW task \in PeriodicTasks, Kept(task)
      PROVE  Kept(task)'
  <2>1. CASE (\E other \in Tasks : Elapse(other)) \/ UNCHANGED vars
    <3>1. UNCHANGED <<queue, current>>
      BY <2>1 DEF Elapse, vars, taskVars
    <3> QED BY <1>3, <3>1 DEF Kept, Pending
  <2>2. CASE LoopStep
    <3>1. CASE Pop /\ due # 0
      <4>1. due > 0
        BY <1>3, <3>1 DEF TaskInv, QueueOK
      <4> QED BY <1>3, <3>1, <4>1, PopTask, TaskNames DEF Kept
    <3>2. CASE (RunTask \/ NotifyTask) /\ ~Goto(Loop, "schedule")
      <4>1. current[Loop] # task /\ UNCHANGED queue
        BY <1>3, <3>2, LoopDrops
      <4> QED BY <1>3, <4>1 DEF Kept, Pending
    <3>3. CASE RunTask /\ Goto(Loop, "schedule")
      BY <1>3, <3>3, LoopAgain DEF Kept, Pending
    <3>4. CASE NotifyTask /\ Goto(Loop, "schedule")
      <4>1. PICK step \in {"rpc", "release"} : Goto(Loop, step)
        BY <3>4 DEF NotifyTask, Release
      <4> QED BY <1>3, <3>4, <4>1, TaskNames DEF Goto, LockInv, LockTypeOK
    <3>5. CASE \/ Start \/ Clear \/ Peek \/ Awake \/ RpcReturns \/ ReleaseLoop
               \/ Pop /\ due = 0
      BY <1>3, <3>5, LoopMoves DEF Kept, Pending
    <3> QED BY <2>2, <3>1, <3>2, <3>3, <3>4, <3>5 DEF LoopStep
  <2>3. ASSUME NEW t \in Threads,
               Acquire(t) \/ TimeOut(t) \/ ForceRelease(t) \/ Push(t) \/ Signal(t)
        PROVE  Kept(task)'
    <3>1. ~TimeOut(t) /\ ~ForceRelease(t)
      BY <1>3 DEF TimeOut, ForceRelease, NoForce
    <3>2. CASE Acquire(t)
      BY <1>3, <3>2 DEF Acquire, taskVars, Kept, Pending
    <3>3. CASE Push(t)
      BY <1>3, <3>3, PushTask DEF Kept
    <3>4. CASE Signal(t)
      <4>1. UNCHANGED queue /\ current' = [current EXCEPT ![t] = NoTask]
        BY <3>4 DEF Signal, taskVars
      <4>2. CASE t = Loop
        <5>1. current[Loop] \in Pending
          BY <1>3, <3>4, <4>2 DEF Signal, TaskInv, LoopCarries
        <5> QED BY <1>3, <4>1, <5>1 DEF Kept, Pending
      <4>3. CASE t # Loop
        BY <1>3, <4>1, <4>3, OthersKeep
      <4> QED BY <4>2, <4>3
    <3> QED BY <2>3, <3>1, <3>2, <3>3, <3>4
  <2>4. ASSUME NEW w \in Workers,
               \/ Call(w) \/ Return(w) \/ Raise(w) \/ WorkerStep(w)
               \/ \E other \in Tasks \ PeriodicTasks : Schedule(w, other)
        PROVE  Kept(task)'
    <3>1. \/ UNCHANGED <<queue, current>>
          \/ UNCHANGED queue /\ \E x : current' = [current EXCEPT ![w] = x]
      BY <2>4 DEF Call, Return, Raise, WorkerStep, SetContext, ReleaseCall, ResetContext, Schedule,
           taskVars
    <3> QED BY <1>3, <3>1, TaskNames, OthersKeep
  <2>5. ASSUME NEW o \in Others, Enter(o) \/ Exit(o) \/ EndCommand(o) \/ ReleaseCommand(o)
        PROVE  Kept(task)'
    BY <1>3, <2>5 DEF Enter, Exit, EndCommand, ReleaseCommand, taskVars, Kept, Pending
  <2> QED BY <1>3, <2>1, <2>2, <2>3, <2>4, <2>5 DEF Next
<1>4. LockInv /\ TaskInv /\ NoForce /\ [Next]_vars
        => [\A task \in PeriodicTasks : Kept(task) => Kept(task)']_vars
  BY <1>3
<1> QED BY <1>1, <1>2, <1>4, InitLockInv, NextLockInv, InitTaskInv, NextTaskInv, PTL
        DEF Spec, IntervalKept

=============================================================================
