SPECIFICATION Spec
CONSTANTS
    Total = 12
    PageG = 2
    Requests = {1, 3}
INVARIANTS TypeOK NoOverlap WithinHeap NoFreeNeighbours
PROPERTY Implements
