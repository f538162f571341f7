SPECIFICATION Spec
CONSTANTS
    Requests = {r1, r2}
    Attempts = {a1, a2}
    Refunds = {x1}
    PayRefs = {p1}
    Provider = "dipay"
    Surface <- OperatorPays
    Faults = {"crash", "unmapped_code"}
    NoReq = NoReq
    NoRow = NoRow
SYMMETRY Symmetry
INVARIANT NoDoublePayout
PROPERTY FailedWasRefused
CHECK_DEADLOCK FALSE
