SPECIFICATION FairSpec
CONSTANTS
    op1 = op1  op2 = op2  b0 = b0  b1 = b1  b2 = b2  r1 = r1  r2 = r2
    Operations = {op1}
    NoOperation = NoOperation
    Builds = {b0, b1}
    InitialBuild = b0
    Target <- MCOne
    Legacy = {}
    Mode <- MCUpgrade
    Requests = {r1, r2}
    DockerAnswers = FALSE
    Patience = TRUE
    MaxAttempts = 2
    MaxRestarts = 1
PROPERTIES CompletesKnownGood EveryTransitionEnds
CHECK_DEADLOCK FALSE
