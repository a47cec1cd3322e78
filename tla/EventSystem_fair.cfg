\* No wait times out and no task or RPC raises.
CONSTANTS
    w1 = w1  w2 = w2  repl = repl  interval = interval  limit = limit
    Loop = Loop  NoThread = NoThread  NoTask = NoTask
    Workers = {w1}
    Others = {repl}
    Tasks = {interval, limit}
    PeriodicTasks = {interval}
    NotifyTasks = {limit}
    InitialTasks <- Either
    MayTimeOut = FALSE
    MayRaise = {"handler"}
SPECIFICATION FairSpec
INVARIANTS LockedSectionsExclude LoopSurvives
PROPERTIES IntervalKept TaskRuns StopEnds CallReturns
