\* Three runs of the mirror, two kept.  A document of three lines, two snapshots, two
\* commands at once.  Three customers, one booking.  Two files that overlap, two
\* workers, three executions or reversals.
SPECIFICATION RecordsSpec
CONSTANTS
    MaxRuns = 3
    Keep = 2
    Publishers = {"p"}
    l1 = l1
    l2 = l2
    l3 = l3
    Lines = {l1, l2, l3}
    Amount <- Worths
    Malformed = {l2}
    Chunks = {{}, {l1}, {l2, l3}}
    c1 = c1
    c2 = c2
    Commands = {c1, c2}
    MaxSnapshots = 2
    MaxBatches = 2
    k1 = k1
    k2 = k2
    k3 = k3
    Nobody = Nobody
    Customers = {k1, k2, k3}
    Opening <- Nothing
    MaxBookings = 1
    MaxAmount = 1
    f1 = f1
    f2 = f2
    a1 = a1
    a2 = a2
    ImportJobs = {f1, f2}
    Codes = {a1, a2}
    FileRows <- FilesOverlap
    Workers = {"w1", "w2"}
    MaxExecutions = 3
SYMMETRY CommandsAlike
CHECK_DEADLOCK FALSE
INVARIANTS
    PointersNotRetired
    MergedByOneMerge
    RecordsInSight
PROPERTIES
    BlockedStaysOut
    DoubledOnlyByFile
    ReversalSparesOthers
