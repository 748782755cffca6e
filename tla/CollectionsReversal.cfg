\* One receipt, one voucher, two requests and two people: every race of the
\* reversal with the cash desk.
SPECIFICATION Spec
CONSTANTS
    u1 = u1
    u2 = u2
    c1 = c1
    c2 = c2
    q1 = q1
    q2 = q2
    v1 = v1
    v2 = v2
    s1 = s1
    s2 = s2
    Users = {u1, u2}
    Overriders = {}
    Colls = {c1}
    Holders = {"h"}
    Periods = {"p"}
    Reqs = {q1, q2}
    Vouchers = {v1}
    Slots = {s1, s2}
    None = None
SYMMETRY SymmetryReversal
INVARIANTS
    TypeOK
    LedgerSound
    ReversalTakesTwo
    OnePendingRequest
    VoucherMatchesItems
    CashBehindStatus
    AuditTruthful
PROPERTIES
    ImplementsDualControl
    StatusMovesForward
