\* The phone: a transfer written, corrected and sent by both loops, with one fault
\* anywhere.  The server alone: one end point of each kind and two calls of any of
\* them, with any bodies, with crashes and lost answers at every step.  Three tasks,
\* two reviews, two transactions and a receipt.  Two attempts of one author, two
\* requests, two processes.
SPECIFICATION RequestsSpec
CONSTANTS
    o1 = o1
    k1 = k1
    k2 = k2
    c1 = c1
    c2 = c2
    None = None
    Forms = {o1}
    Posts = {}
    Bookings = {}
    Loops = {"foreground", "background"}
    Keys <- AllKeys
    Kind <- EndPoints
    Bodies = {1, 2}
    Calls = {c1, c2}
    MaxLog = 4
    MaxRow = 2
    MaxFaults = 1
    t1 = t1
    t2 = t2
    t3 = t3
    yer = yer
    sar = sar
    FinanceTasks = {t1, t2, t3}
    Currencies = {yer, sar}
    CurrencyOf <- CurrencyOfTask
    Overdue = {t1, t2}
    Reviews = {"r1", "r2"}
    Appliers = {"x1", "x2"}
    Desks = {"d1"}
    MaxEntries = 1
    MaxEdits = 1
    a1 = a1
    a2 = a2
    Touches = {a1, a2}
    Authors = {"collector"}
    AuthorOf <- OneAuthor
    Collectors = {"north", "south"}
    Unassigned = "nobody"
    Registrars = {"q1", "q2"}
    Processors = {"p1", "p2"}
    MaxRecords = 2
    MaxTransfers = 1
SYMMETRY SymmetryCalls
CHECK_DEADLOCK FALSE
INVARIANTS
    AnswersAgree
    SyncedIsExecuted
    AttemptAnsweredOnce
PROPERTIES
    NothingLost
    ImplementsOnce
    ClosesWhatWasReviewed
