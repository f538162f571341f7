SPECIFICATION Spec
CONSTANTS
    Requests = {r1, r2}
    Attempts = {a1}
    Refunds = {x1}
    PayRefs = {p1}
    Provider = "xendit"
    Surface <- NoOverride
    Faults = {}
    NoReq = NoReq
    NoRow = NoRow
SYMMETRY Symmetry
PROPERTY PayoutFromReceived
CHECK_DEADLOCK FALSE
