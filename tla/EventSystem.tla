----------------------------- MODULE EventSystem -----------------------------
(***************************************************************************)
(* The event loop of a controller, its reentrant lock and its timeouts     *)
(* (common_lib/event/system.py), with the threads that use them: gRPC      *)
(* workers whose methods are wrapped by synchronize                        *)
(* (common_lib/server/synchronous.py), and the threads that take the lock  *)
(* directly: the REPL and the port monitor.                                *)
(*                                                                         *)
(* A step of a thread ends where it blocks, or where another thread may    *)
(* see or change what it has read.  Time is left out of the tasks: queue   *)
(* holds them by the time they are ready, and the first due of them are    *)
(* past it.                                                                *)
(***************************************************************************)
EXTENDS Naturals, Sequences, SequencesExt

CONSTANTS
    Loop,           \* the thread of EventSystem.run
    Workers,        \* threads of the gRPC server, between them all callers
    Others,         \* REPL and port monitor
    NoThread,
    Tasks,
    PeriodicTasks,  \* those of set_interval
    NotifyTasks,    \* soft time limits, which release the lock around an RPC
    NoTask,
    InitialTasks,   \* what prepare may have scheduled before the loop starts
    MayTimeOut,     \* whether a thread may wait for the lock longer than 10 s
    MayRaise        \* what may raise: "handler", "task", "rpc"

ASSUME EventSystemAssumption ==
    /\ Loop \notin Workers \union Others \union {NoThread}
    /\ Workers \intersect Others = {} /\ NoThread \notin Workers \union Others
    /\ PeriodicTasks \subseteq Tasks /\ NotifyTasks \subseteq Tasks /\ NoTask \notin Tasks
    /\ PeriodicTasks \intersect NotifyTasks = {}
    /\ InitialTasks \subseteq Seq(Tasks) /\ \A q \in InitialTasks : IsInjective(q)
    /\ MayTimeOut \in BOOLEAN /\ MayRaise \subseteq {"handler", "task", "rpc"}

VARIABLES
    owner, depth,  \* _lock
    queue, due,    \* _tasks
    newTask,       \* _new_task_event
    stop,          \* _stop
    context,       \* whether _context names a peer under "server.peer"
    pc,
    bypassing,     \* workers whose method runs without taking the lock
    forcing,       \* threads whose acquire timed out
    current,       \* the task the loop took, or a worker schedules
    timed          \* whether the loop waits with a timeout

lockVars == <<owner, depth, forcing>>
taskVars == <<queue, due>>
loopVars == <<newTask, stop, timed>>
callVars == <<context, bypassing>>
vars == <<lockVars, taskVars, loopVars, callVars, pc, current>>

Threads == Workers \union Others \union {Loop}

Pending == ToSet(queue)

-----------------------------------------------------------------------------
(* The lock.                                                               *)

Goto(t, step) == pc' = [pc EXCEPT ![t] = step]

\* Wrong on purpose: the release is not in a finally.
AfterRaise_NoFinally(w) == "idle"

\* Where a worker goes on when its method raises.
AfterRaise(w) == IF w \in bypassing THEN "idle" ELSE "cleanup"

\* Where a thread goes on when acquire returns, and when it raises instead.
Acquired == [acquire |-> "body", schedule |-> "push", take |-> "pop", retake |-> "release"]
Refused(t) == CASE pc[t] = "acquire" -> IF t \in Workers THEN "idle" ELSE "gone"
                [] pc[t] = "schedule" /\ t \in Workers -> AfterRaise(t)
                [] OTHER -> "release"

Waiting(t) == pc[t] \in DOMAIN Acquired

Acquire(t) ==
    /\ Waiting(t) /\ t \notin forcing
    /\ owner \in {NoThread, t}
    /\ owner' = t /\ depth' = depth + 1
    /\ Goto(t, Acquired[pc[t]])
    /\ UNCHANGED <<forcing, taskVars, loopVars, callVars, current>>

\* The ten seconds are over.
TimeOut(t) ==
    /\ MayTimeOut
    /\ Waiting(t) /\ t \notin forcing
    /\ owner \notin {NoThread, t}
    /\ forcing' = forcing \union {t}
    /\ UNCHANGED <<owner, depth, taskVars, loopVars, callVars, pc, current>>

\* force_release: a lock that was freed meanwhile is taken and released, and the
\* thread goes on without it; another's lock cannot be released, which raises.
ForceRelease(t) ==
    /\ t \in forcing
    /\ forcing' = forcing \ {t}
    /\ \/ owner = NoThread /\ Goto(t, Acquired[pc[t]]) /\ UNCHANGED <<bypassing, current>>
       \/ /\ owner # NoThread
          /\ Goto(t, Refused(t))
          /\ bypassing' = bypassing \ {t}
          /\ current' = [current EXCEPT ![t] = NoTask]
    /\ UNCHANGED <<owner, depth, taskVars, loopVars, context>>

\* Wrong on purpose: the lock is not reentrant.
Unlock_Flat(t) == owner' = NoThread /\ depth' = 0

Unlock(t) ==
    /\ depth' = depth - 1
    /\ owner' = IF depth = 1 THEN NoThread ELSE t

\* release raises in a thread that does not own the lock.
Release(t, ok, raise) ==
    \/ owner = t /\ Unlock(t) /\ Goto(t, ok)
    \/ owner # t /\ UNCHANGED <<owner, depth>> /\ Goto(t, raise)

-----------------------------------------------------------------------------
(* synchronize                                                             *)

\* All callers have the same peer_identity_key, the name of the certificate
\* field: a call that finds it in the context runs without the lock.
Call(w) ==
    /\ pc[w] = "idle"
    /\ \/ context /\ bypassing' = bypassing \union {w} /\ Goto(w, "body")
       \/ ~context /\ UNCHANGED bypassing /\ Goto(w, "set")
    /\ UNCHANGED <<lockVars, taskVars, loopVars, context, current>>

SetContext(w) ==
    /\ pc[w] = "set"
    /\ context' = TRUE
    /\ Goto(w, "acquire")
    /\ UNCHANGED <<lockVars, taskVars, loopVars, bypassing, current>>

\* The method returns.
Return(w) ==
    /\ pc[w] = "body"
    /\ Goto(w, IF w \in bypassing THEN "idle" ELSE "release")
    /\ bypassing' = bypassing \ {w}
    /\ UNCHANGED <<lockVars, taskVars, loopVars, context, current>>

\* The method raises, past the statement that clears the context.
Raise(w) ==
    /\ "handler" \in MayRaise
    /\ pc[w] = "body"
    /\ Goto(w, AfterRaise(w))
    /\ bypassing' = bypassing \ {w}
    /\ UNCHANGED <<lockVars, taskVars, loopVars, context, current>>

ReleaseCall(w) ==
    /\ \/ pc[w] = "release" /\ Release(w, "reset", "idle")
       \/ pc[w] = "cleanup" /\ Release(w, "idle", "idle")
    /\ UNCHANGED <<forcing, taskVars, loopVars, callVars, current>>

ResetContext(w) ==
    /\ pc[w] = "reset"
    /\ context' = FALSE
    /\ Goto(w, "idle")
    /\ UNCHANGED <<lockVars, taskVars, loopVars, bypassing, current>>

-----------------------------------------------------------------------------
(* set_timeout, called by a method or, by set_interval, in the loop        *)

\* A method schedules a task that is not pending.
Schedule(w, task) ==
    /\ pc[w] = "body"
    /\ task \notin Pending /\ \A t \in Threads : current[t] # task
    /\ current' = [current EXCEPT ![w] = task]
    /\ Goto(w, "schedule")
    /\ UNCHANGED <<lockVars, taskVars, loopVars, callVars>>

\* The task is ready later than those that are due already.
Push(t) ==
    /\ pc[t] = "push"
    /\ \E i \in due + 1 .. Len(queue) + 1 : queue' = InsertAt(queue, i, current[t])
    /\ Goto(t, "signal")
    /\ UNCHANGED <<lockVars, due, loopVars, callVars, current>>

\* Wrong on purpose: the loop is not told.
Wake_Silent(t) == UNCHANGED newTask

Wake(t) == newTask' = TRUE

\* Wrong on purpose: the loop runs all tasks that are due before it releases.
EndTimeout_Drain(t) ==
    IF t = Loop THEN Release(t, "pop", "release") ELSE Release(t, "body", AfterRaise(t))

\* Where set_timeout returns to.
EndTimeout(t) ==
    IF t = Loop THEN Release(t, "release", "release") ELSE Release(t, "body", AfterRaise(t))

Signal(t) ==
    /\ pc[t] = "signal"
    /\ Wake(t)
    /\ EndTimeout(t)
    /\ current' = [current EXCEPT ![t] = NoTask]
    /\ bypassing' = IF owner = t THEN bypassing ELSE bypassing \ {t}
    /\ UNCHANGED <<forcing, taskVars, stop, timed, context>>

\* The time of a task comes.
Elapse(task) ==
    /\ task \in Pending
    /\ \A i \in 1..due : queue[i] # task
    /\ due' = CHOOSE i \in 1..Len(queue) : queue[i] = task
    /\ UNCHANGED <<lockVars, queue, loopVars, callVars, pc, current>>

-----------------------------------------------------------------------------
(* The REPL and the port monitor                                           *)

Enter(o) ==
    /\ pc[o] = "idle"
    /\ Goto(o, "acquire")
    /\ UNCHANGED <<lockVars, taskVars, loopVars, callVars, current>>

\* The command exit ends the loop and the REPL.
Exit(o) ==
    /\ pc[o] = "body"
    /\ stop' = TRUE /\ newTask' = TRUE
    /\ Goto(o, "leave")
    /\ UNCHANGED <<lockVars, taskVars, timed, callVars, current>>

EndCommand(o) ==
    /\ pc[o] = "body"
    /\ Goto(o, "release")
    /\ UNCHANGED <<lockVars, taskVars, loopVars, callVars, current>>

ReleaseCommand(o) ==
    /\ \/ pc[o] = "release" /\ Release(o, "idle", "gone")
       \/ pc[o] = "leave" /\ Release(o, "gone", "gone")
    /\ UNCHANGED <<forcing, taskVars, loopVars, callVars, current>>

-----------------------------------------------------------------------------
(* run                                                                     *)

Start ==
    /\ pc[Loop] = "start"
    /\ stop' = FALSE
    /\ Goto(Loop, "clear")
    /\ UNCHANGED <<lockVars, taskVars, newTask, timed, callVars, current>>

Clear ==
    /\ pc[Loop] = "clear"
    /\ newTask' = FALSE
    /\ Goto(Loop, "peek")
    /\ UNCHANGED <<lockVars, taskVars, stop, timed, callVars, current>>

Peek ==
    /\ pc[Loop] = "peek"
    /\ timed' = (queue # <<>>)
    /\ Goto(Loop, "wait")
    /\ UNCHANGED <<lockVars, taskVars, newTask, stop, callVars, current>>

\* Wrong on purpose: while tasks are due, the flag is not looked at.
MustStop_Idle == stop /\ due = 0

MustStop == stop

\* The event is set, or the time of the first task has come.
Awake ==
    /\ pc[Loop] = "wait"
    /\ newTask \/ (timed /\ due > 0)
    /\ Goto(Loop, IF MustStop THEN "ended" ELSE "take")
    /\ UNCHANGED <<lockVars, taskVars, loopVars, callVars, current>>

\* Wrong on purpose: a task taken too early is dropped.
PutBack_Drop == queue' = Tail(queue) /\ UNCHANGED due

PutBack == UNCHANGED taskVars

\* Wrong on purpose: the task stays in the set.
TakeFirst_Peek == UNCHANGED taskVars

TakeFirst == queue' = Tail(queue) /\ due' = due - 1

\* The first task is run, or put back when its time has not come; an empty
\* set of tasks raises.
Pop ==
    /\ pc[Loop] = "pop"
    /\ \/ /\ due > 0
          /\ TakeFirst
          /\ current' = [current EXCEPT ![Loop] = Head(queue)]
          /\ Goto(Loop, "task")
       \/ due = 0 /\ queue # <<>> /\ PutBack /\ UNCHANGED current /\ Goto(Loop, "release")
       \/ queue = <<>> /\ UNCHANGED <<taskVars, current>> /\ Goto(Loop, "release")
    /\ UNCHANGED <<lockVars, loopVars, callVars>>

Done(step) == Goto(Loop, step) /\ current' = [current EXCEPT ![Loop] = NoTask]

\* set_interval schedules the task again when it has returned.
RunTask ==
    /\ pc[Loop] = "task" /\ current[Loop] \notin NotifyTasks
    /\ \/ current[Loop] \in PeriodicTasks /\ Goto(Loop, "schedule") /\ UNCHANGED current
       \/ current[Loop] \notin PeriodicTasks /\ Done("release")
       \/ "task" \in MayRaise /\ Done("release")
    /\ UNCHANGED <<lockVars, taskVars, loopVars, callVars>>

\* handle_soft_time_limit gives the lock away while the global controller
\* calls back.
NotifyTask ==
    /\ pc[Loop] = "task" /\ current[Loop] \in NotifyTasks
    /\ Release(Loop, "rpc", "release")
    /\ current' = [current EXCEPT ![Loop] = NoTask]
    /\ UNCHANGED <<forcing, taskVars, loopVars, callVars>>

\* Wrong on purpose: the lock is not taken back.
AfterRpc_Forget == "release"

AfterRpc == "retake"

RpcReturns ==
    /\ pc[Loop] = "rpc"
    /\ \/ Goto(Loop, AfterRpc)
       \/ "rpc" \in MayRaise /\ Goto(Loop, "release")
    /\ UNCHANGED <<lockVars, taskVars, loopVars, callVars, current>>

\* The finally of the loop; when it raises, run is over.
ReleaseLoop ==
    /\ pc[Loop] = "release"
    /\ Release(Loop, "clear", "died")
    /\ UNCHANGED <<forcing, taskVars, loopVars, callVars, current>>

-----------------------------------------------------------------------------
Init ==
    /\ owner = NoThread /\ depth = 0
    /\ queue \in InitialTasks /\ due = 0
    /\ newTask = (queue # <<>>)
    /\ stop = FALSE /\ context = FALSE /\ timed = FALSE
    /\ pc = [t \in Threads |-> IF t = Loop THEN "start" ELSE "idle"]
    /\ bypassing = {} /\ forcing = {}
    /\ current = [t \in Threads |-> NoTask]

LoopStep ==
    \/ Start \/ Clear \/ Peek \/ Awake \/ Pop \/ RunTask \/ NotifyTask \/ RpcReturns
    \/ ReleaseLoop

\* What the thread does of its own, once its method or command has returned.
WorkerStep(w) == SetContext(w) \/ ReleaseCall(w) \/ ResetContext(w)

Next ==
    \/ LoopStep
    \/ \E w \in Workers :
         \/ Call(w) \/ Return(w) \/ Raise(w) \/ WorkerStep(w)
         \/ \E task \in Tasks \ PeriodicTasks : Schedule(w, task)
    \/ \E o \in Others : Enter(o) \/ Exit(o) \/ EndCommand(o) \/ ReleaseCommand(o)
    \/ \E t \in Threads : Acquire(t) \/ TimeOut(t) \/ ForceRelease(t) \/ Push(t) \/ Signal(t)
    \/ \E task \in Tasks : Elapse(task)

Spec == Init /\ [][Next]_vars

\* Threads run, time passes, methods and commands return, and a thread that
\* wants the lock gets it when it is free again and again: the lock promises no
\* order, but it is free most of the time.
Fairness ==
    /\ WF_vars(LoopStep)
    /\ \A t \in Threads : SF_vars(Acquire(t)) /\ WF_vars(Push(t) \/ Signal(t))
    /\ \A w \in Workers : WF_vars(WorkerStep(w)) /\ SF_vars(Return(w))
    /\ \A o \in Others : WF_vars(EndCommand(o)) /\ WF_vars(ReleaseCommand(o))
    /\ \A task \in Tasks : WF_vars(Elapse(task))

FairSpec == Spec /\ Fairness

-----------------------------------------------------------------------------
(* Properties.                                                             *)

Steps == {"idle", "set", "acquire", "body", "schedule", "push", "signal", "release", "cleanup",
          "reset", "leave", "gone", "start", "clear", "peek", "wait", "take", "pop", "task",
          "rpc", "retake", "ended", "died"}

\* The variables stay in their types: a task is pending once, only the tasks at
\* the front are due, and the lock is held once, or twice around set_timeout.
TypeOK ==
    /\ owner \in Threads \union {NoThread} /\ depth \in 0..2
    /\ (owner = NoThread) = (depth = 0)
    /\ queue \in Seq(Tasks) /\ IsInjective(queue) /\ due \in 0..Len(queue)
    /\ newTask \in BOOLEAN /\ stop \in BOOLEAN /\ timed \in BOOLEAN /\ context \in BOOLEAN
    /\ pc \in [Threads -> Steps]
    /\ bypassing \subseteq Workers
    /\ forcing \subseteq {t \in Threads : Waiting(t)}
    /\ current \in [Threads -> Tasks \union {NoTask}]

Unlocked == {"idle", "set", "acquire", "reset", "gone", "start", "clear", "peek", "wait", "take",
             "rpc", "retake", "ended", "died"}

\* No thread keeps the lock when it is through with it, although methods raise,
\* acquire times out, the lock is force-released and methods run that never
\* took it; and only set_timeout takes it twice.
LockIsGivenBack ==
    owner # NoThread =>
        /\ pc[owner] \notin Unlocked
        /\ depth = 2 => pc[owner] \in {"push", "signal"}

Inside(t) == pc[t] \in {"body", "schedule", "push", "signal", "release", "cleanup", "leave",
                        "pop", "task"} /\ t \notin bypassing

\* As long as no wait for the lock times out, of the threads that take the lock
\* one at most is between its acquire and its release, also when set_timeout
\* takes it again inside and a task gives it away for a while.
LockedSectionsExclude == \A t1, t2 \in Threads : Inside(t1) /\ Inside(t2) => t1 = t2

\* The release in the finally of the loop never raises, so run ends only when it
\* is told to stop.
LoopSurvives == pc[Loop] # "died"

\* A task of set_interval is waiting, running or being scheduled again: the
\* early wake-ups of the loop and the tasks of others never lose it.
Kept(task) == task \in Pending \/ current[Loop] = task
IntervalKept == [][\A task \in PeriodicTasks : Kept(task) => Kept(task)']_vars

\* A task that is scheduled, also one the loop has to be woken for because it
\* sleeps without a timeout, is taken by the loop in the end.
TaskRuns ==
    \A task \in Tasks : task \in Pending ~> (current[Loop] = task \/ stop)

\* exit ends the loop of a controller that has an interval to run.
StopEnds ==
    stop /\ pc[Loop] # "start" /\ (\E task \in PeriodicTasks : Kept(task))
        ~> pc[Loop] \in {"ended", "died"}

\* Every call is answered.
CallReturns == \A w \in Workers : pc[w] # "idle" ~> pc[w] = "idle"

-----------------------------------------------------------------------------
(* What the document says and the code does not do.                        *)

\* "Every time an event occures a reentrant lock is set and the event is
\* executed": two events, a method or a task, are never executed at once.  The
\* code runs a method without the lock while another call is under way.
EventsExclude ==
    \A t1, t2 \in Threads :
        t1 # t2 => ~(pc[t1] \in {"body", "task"} /\ pc[t2] \in {"body", "task"})

=============================================================================
