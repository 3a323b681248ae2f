CONSTANTS
    Mids = {p1, p2, p3}
    History = 2
    MaxPublishes = 5
    MaxGenerations = 3
SPECIFICATION Spec
SYMMETRY Symmetry
INVARIANTS TypeOK DeliveredIsOwn QueueIsPending
PROPERTIES VerdictIsFinal
CHECK_DEADLOCK FALSE
