SPECIFICATION Spec
CONSTANTS
    MAX_PROCESSES = 2
    MAX_HOOKS_PER_PROCESS = 2
    MAX_EVENT_QUEUE_SIZE = 1
    MAX_WINDOWS = 2
    SCHEDULER_QUANTUM_TICKS = 1
    MAX_PID = 3
INVARIANTS
    TypeOK
    NoLostWakeup
PROPERTIES
    SwitchRespectsHooks
    HeirIsAwake
CHECK_DEADLOCK FALSE
