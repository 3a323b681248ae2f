SPECIFICATION Spec
CONSTANTS
    Callers = {c1, c2, c3}
    MaxCalls = 3
INVARIANTS OneLaunchPerOpening RetryIsNotSettledBefore RegistryIsLive
PROPERTY EveryCallerReturns
CHECK_DEADLOCK FALSE
