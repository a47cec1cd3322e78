---------------------------- MODULE MCEventSystem ----------------------------
\* Instances of EventSystem.
EXTENDS EventSystem, TLC

CONSTANTS w1, w2, repl, interval, limit

\* A controller with an interval, and the client, whose loop sleeps until a call
\* schedules a task.
IntervalFirst == {<<interval>>}
Either        == {<<interval>>, <<>>}

WorkerSymmetry == Permutations(Workers)
=============================================================================
