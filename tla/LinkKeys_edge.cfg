\* Updates and renewals, one after the other and next to each other, with
\* lost calls.
CONSTANTS
    left = left  right = right  w1 = w1  w2 = w2
    Ends = {left, right}
    NoEnd = NoEnd
    Workers = {w1, w2}
    MaxUpdates = 2
    MaxRules = 4
    MaxLost = 2
SYMMETRY WorkersAndEnds
SPECIFICATION Spec
INVARIANTS SerialEndsAgree CommonSlot SamePhase InstalledTogether
CHECK_DEADLOCK FALSE
