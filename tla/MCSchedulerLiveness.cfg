SPECIFICATION FairSpec
CONSTANTS
    MAX_PROCESSES = 2
    MAX_HOOKS_PER_PROCESS = 2
    MAX_EVENT_QUEUE_SIZE = 1
    MAX_WINDOWS = 1
    SCHEDULER_QUANTUM_TICKS = 2
    MAX_PID = 2
PROPERTIES
    RunnableRuns
    FocusChangeEnds
CHECK_DEADLOCK FALSE
