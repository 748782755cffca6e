\* A transfer and two quotations, two people, two handlers, two calls at the
\* gateway, failures anywhere.
SPECIFICATION Spec
CONSTANTS
    t1 = t1
    q1 = q1
    q2 = q2
    b1 = b1
    b2 = b2
    u1 = u1
    u2 = u2
    s1 = s1
    s2 = s2
    j1 = j1
    j2 = j2
    None = None
    Transfers = {t1}
    References = {t1, q1, q2}
    Bodies = {b1, b2}
    Marked = {q1, q2}
    Tables = {"out_request", "quotation"}
    Table <- TableOfReference
    Content <- FirstContent
    Jobs = {j1, j2}
    MaxNo = 2
    Users = {u1, u2}
    Slots = {s1, s2}
SYMMETRY Symmetry
INVARIANT TypeOK
INVARIANT NumbersDiffer
INVARIANT LockHeld
INVARIANT ApprovedHasDraft
INVARIANT NothingUnasked
PROPERTY NumberKept
PROPERTY ImplementsOnce
