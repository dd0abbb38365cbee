SPECIFICATION FairSerialSpec
CONSTANTS
    Process = {p1, p2}
    KERNEL_HEAP_SIZE = 30
    HEADER = 3
    ALIGN = 4
    SIZE_RANGE = 64
    Request = {1, 5, 60}
INVARIANTS
    TypeOK
    Tiled
    OwnedIsAllocated
    StatsAddUp
PROPERTY CallsReturn
