SPECIFICATION Spec
CONSTANTS
    Requests = {r1, r2}
    Jubelio = {j1, j2}
    Biteship = {b1}
    FaultSets <- EveryFault
    OwnAwb = OwnAwb
    NoReq = NoReq
    NoBooking = NoBooking
SYMMETRY Symmetry
VIEW ButAcks
INVARIANT ShipInv
INVARIANT OneLiveBooking
INVARIANT ShipmentIsTracked
 
CHECK_DEADLOCK FALSE
