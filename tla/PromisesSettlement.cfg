\* Two promises of one customer and one handler at a time, which may stop anywhere,
\* besides the settlement: receipts appear, vanish, and contradict their corrections.
SPECIFICATION SettlementSpec
CONSTANTS
    p1 = p1
    p2 = p2
    s1 = s1
    s2 = s2
    TicksPerDay = 1
    None = None
    Promises = {p1, p2}
    Customers = {"c", "m"}
    Collectors = {"k"}
    Currencies = {"YER"}
    ReceiptRows <- Corrected
    Amounts = {2}
    PromiseDates = {0, 1}
    DueDates = {1}
    Slots = {s1}
    Moving = {"c"}
    MaxTime = 1
    MaxTasks = 2
    MaxChanges = 2
SYMMETRY SymmetryPromises
INVARIANTS
    PlanWithinCapacity
    OneReminderADay
PROPERTY
    AttributionIsUnique
