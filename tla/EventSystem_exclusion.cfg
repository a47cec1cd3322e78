\* The document promises that events exclude each other.
CONSTANTS
    w1 = w1  w2 = w2  repl = repl  interval = interval  limit = limit
    Loop = Loop  NoThread = NoThread  NoTask = NoTask
    Workers = {w1, w2}
    Others = {}
    Tasks = {interval}
    PeriodicTasks = {interval}
    NotifyTasks = {}
    InitialTasks <- IntervalFirst
    MayTimeOut = FALSE
    MayRaise = {}
SPECIFICATION Spec
INVARIANTS EventsExclude
