SPECIFICATION Spec
CONSTANTS
    Requests = {r1, r2}
    Attempts = {a1, a2}
    Refunds = {x1}
    PayRefs = {p1}
    Provider = "dipay"
    Surface <- PayoutRace
    Faults = {}
    NoReq = NoReq
    NoRow = NoRow
SYMMETRY Symmetry
INVARIANT HoldOnce
CHECK_DEADLOCK FALSE
