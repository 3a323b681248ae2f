SPECIFICATION Spec
CONSTANTS
    MaxQueue = 2
    BatchMax = 2
    SchemaReports = 2
    SchemaFailures = 2
    Probes = 2
    MaxBatches = 5
INVARIANTS StoredInOrder Accounted
PROPERTIES WorkerEnds
CHECK_DEADLOCK FALSE
