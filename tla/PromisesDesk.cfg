\* One promise and two handlers of every kind, over three days: edits, sweeps and
\* reminders that work from what they read before the other wrote, a day ago or more.
SPECIFICATION DeskSpec
CONSTANTS
    p1 = p1
    p2 = p2
    s1 = s1
    s2 = s2
    TicksPerDay = 1
    None = None
    Promises = {p1}
    Customers = {"c"}
    Collectors = {"k"}
    Currencies = {"YER"}
    ReceiptRows <- MirrorReceipt
    Amounts = {3}
    PromiseDates = {0}
    DueDates = {0, 1}
    Slots = {s1, s2}
    Moving = {}
    MaxTime = 2
    MaxTasks = 2
    MaxChanges = 2
SYMMETRY SymmetrySlots
INVARIANTS
    FinalLeavesNoWork
PROPERTIES
    MissedIsKept
    SweepSpares
