SPECIFICATION Spec
CONSTANTS
    op1 = op1  op2 = op2  b0 = b0  b1 = b1  b2 = b2  r1 = r1  r2 = r2
    Operations = {op1, op2}
    NoOperation = NoOperation
    Builds = {b0, b1, b2}
    InitialBuild = b0
    Target <- MCTwo
    Legacy = {b2}
    Mode <- MCSetups
    Requests = {r1, r2}
    DockerAnswers = FALSE
    Patience = FALSE
    MaxAttempts = 2
    MaxRestarts = 1
SYMMETRY Threads
INVARIANTS TypeOK OneDeployment NoWorkerAfterCancel KnownGoodWasHealthy
CHECK_DEADLOCK FALSE
