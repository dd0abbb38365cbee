SPECIFICATION Spec
CONSTANTS
    MAX_EVENT_QUEUE_SIZE = 3
    Event = {e1, e2}
    ZeroEvent = zero
    Garbage <- MCGarbage
INVARIANTS
    TypeOK
    RepairIsQuiet
    CountIsRecovered
PROPERTIES
    RepairRestores
    ImplementsFifo
