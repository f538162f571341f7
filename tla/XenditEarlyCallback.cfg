SPECIFICATION FairSpec
CONSTANTS
    Requests = {r1}
    Attempts = {a1}
    Refunds = {x1}
    PayRefs = {p1}
    Provider = "xendit"
    Surface <- PayoutRace
    Faults = {}
    NoReq = NoReq
    NoRow = NoRow
PROPERTY PendingResolves
CHECK_DEADLOCK FALSE
