SPECIFICATION Spec
CONSTANTS
    Requests = {r1, r2}
    Attempts = {a1, a2}
    Refunds = {x1}
    PayRefs = {p1}
    Provider = "xendit"
    Surface <- WithOverrides
    Faults = {"crash", "lost_answer", "unmapped_code"}
    NoReq = NoReq
    NoRow = NoRow
SYMMETRY Symmetry
INVARIANT OneActiveRelease
INVARIANT ReleasedWasTaken
INVARIANT HeldStatesFunded
INVARIANT WrittenOnce
PROPERTY KeepsPromise
CHECK_DEADLOCK FALSE
