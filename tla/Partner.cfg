SPECIFICATION FairSpec
CONSTANTS
    Requests = {r1, r2}
    Orders = {o1, o2}
    ExternalIds = {e1}
    Chains = {c1}
    UniqueIndex = TRUE
    FaultSets <- EveryFault
    NoOrder = NoOrder
    NoId = NoId
INVARIANT OneOrderPerId
INVARIANT ToldWasPaid
INVARIANT ToldIsPaid
PROPERTY PaidIsRecorded
PROPERTY PaidIsTold
CHECK_DEADLOCK FALSE
