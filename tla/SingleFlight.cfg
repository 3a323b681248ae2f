SPECIFICATION Spec
CONSTANTS
    Callers = {c1, c2, c3}
    Keys = {k1, k2}
    MaxCalls = 4
    MaxChanges = 2
INVARIANTS OneRun AnsweredFromOwnInputs
PROPERTY EveryCallReturns
CHECK_DEADLOCK FALSE
