SPECIFICATION QueueSpec
CONSTANTS
    Events = {e1, e2, e3, e4, e5, e6, e7}
    Priorities = {0, 1, 2, 3}
    NoEvent = NoEvent
    Busy = Busy
SYMMETRY EventSymmetry
INVARIANTS
    PositionsAgree
PROPERTIES
    ImplementsQueueContract
