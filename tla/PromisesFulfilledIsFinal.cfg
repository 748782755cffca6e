\* A settlement between the read and the write of another handler.
SPECIFICATION WholeSpec
CONSTANTS
    p1 = p1
    p2 = p2
    s1 = s1
    s2 = s2
    TicksPerDay = 1
    None = None
    Promises = {p1}
    Customers = {"c"}
    Collectors = {"k"}
    Currencies = {"YER"}
    ReceiptRows <- MirrorReceipt
    Amounts = {2}
    PromiseDates = {0}
    DueDates = {0, 1}
    Slots = {s1, s2}
    Moving = {}
    MaxTime = 1
    MaxTasks = 3
    MaxChanges = 2
PROPERTY FulfilledIsFinal
