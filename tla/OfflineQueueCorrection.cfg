\* A transfer corrected after its dry run refused it.
SPECIFICATION QueueSpec
CONSTANTS
    o1 = o1
    o2 = o2
    c1 = c1
    c2 = c2
    c3 = c3
    None = None
    Forms = {o1}
    Posts = {}
    Bookings = {}
    Loops = {"foreground"}
    Keys <- EndPoints
    Kind <- Guards
    Bodies = {1, 2}
    Calls = {c1}
    MaxLog = 3
    MaxRow = 2
    MaxFaults = 0
SYMMETRY SymmetryCalls
CHECK_DEADLOCK FALSE
PROPERTY CorrectionIsSent
