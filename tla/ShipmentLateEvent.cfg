SPECIFICATION Spec
CONSTANTS
    Requests = {r1}
    Jubelio = {j1}
    Biteship = {}
    FaultSets <- NoFault
    OwnAwb = OwnAwb
    NoReq = NoReq
    NoBooking = NoBooking
INVARIANT HeldIsBookable
CHECK_DEADLOCK FALSE
