\* Everything may go wrong: two calls, the REPL and the loop.
CONSTANTS
    w1 = w1  w2 = w2  repl = repl  interval = interval  limit = limit
    Loop = Loop  NoThread = NoThread  NoTask = NoTask
    Workers = {w1, w2}
    Others = {repl}
    Tasks = {interval, limit}
    PeriodicTasks = {interval}
    NotifyTasks = {limit}
    InitialTasks <- IntervalFirst
    MayTimeOut = TRUE
    MayRaise = {"handler", "task", "rpc"}
SYMMETRY WorkerSymmetry
SPECIFICATION Spec
INVARIANTS TypeOK LockIsGivenBack
