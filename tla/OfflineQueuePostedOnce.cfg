\* A promise, sent online first, then by the queue.
SPECIFICATION QueueSpec
CONSTANTS
    o1 = o1
    o2 = o2
    c1 = c1
    c2 = c2
    c3 = c3
    None = None
    Forms = {}
    Posts = {o1}
    Bookings = {}
    Loops = {"foreground"}
    Keys <- EndPoints
    Kind <- Guards
    Bodies = {1}
    Calls = {c1, c2}
    MaxLog = 3
    MaxRow = 2
    MaxFaults = 1
SYMMETRY SymmetryCalls
CHECK_DEADLOCK FALSE
INVARIANT PostedOnce
