SPECIFICATION Spec
CONSTANTS
    Process = {p1, p2}
    KERNEL_HEAP_SIZE = 17
    HEADER = 3
    ALIGN = 4
    SIZE_RANGE = 32
    Request = {1}
INVARIANT OwnedIsAllocated
