SPECIFICATION Spec
CONSTANTS
    MAX_PROCESSES = 2
    MAX_HOOKS_PER_PROCESS = 2
    MAX_EVENT_QUEUE_SIZE = 2
    MAX_WINDOWS = 2
    SCHEDULER_QUANTUM_TICKS = 2
    MAX_PID = 2
CHECK_DEADLOCK FALSE
PROPERTY NoInputToTheDead
