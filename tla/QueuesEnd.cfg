\* The phone: a transfer and a reservation sent online first, one fault anywhere, the
\* foreground loop alone.  The outbox: one notification, two devices, two attempts, one
\* crash.  The printer: two labels, two agents.
SPECIFICATION QueuesSpec
CONSTANTS
    o1 = o1
    o2 = o2
    c1 = c1
    c2 = c2
    None = None
    Forms = {o1}
    Posts = {}
    Bookings = {o2}
    Loops = {"foreground"}
    Keys <- EndPoints
    Kind <- Guards
    Bodies = {1}
    Calls = {c1, c2}
    MaxLog = 4
    MaxRow = 2
    MaxFaults = 1
    Deliveries = {n1}
    Devices = {d1, d2}
    Processes = {p1}
    SendLimit = 2
    MaxStops = 1
    Labels = {l1, l2}
    Agents = {a1, a2}
CHECK_DEADLOCK FALSE
INVARIANTS BookedOnce SendsBounded PrintedOnce
PROPERTIES QueueDrains DeliveriesEnd AcceptedNotResent
